------------------------------ MODULE Messages ------------------------------
(***************************************************************************)
(* The signed messages: what CanonicalBytes of each writes, and a message  *)
(* on its way from the party that signs it to the party that verifies it.  *)
(* A field is <<name, kind>>; a message is its type and the values of its  *)
(* fields in that order, its signature kept apart.                         *)
(***************************************************************************)
EXTENDS Canon, FiniteSets

CONSTANTS
    Tag,        \* the domain tag of each message type, as bytes
    Zero,       \* the zero value of each kind of field
    Value,      \* the values tried for each kind of field
    Character,  \* the one character of more than one byte, U+FFFD
    Full,       \* the whole of a split (10000 basis points in the source)
    MaxSet      \* bound: fields of a message that differ from Zero

-----------------------------------------------------------------------------
(* CanonicalBytes: the fields each message writes after its tag, in order *)

ListingOrder ==
    << <<"NodeID", "string">>, <<"Class", "string">>,
       <<"Printers", "printers">>, <<"GPUs", "gpus">>,
       <<"VCPUs", "int64">>, <<"MemMB", "int64">>, <<"DiskMB", "int64">>,
       <<"StorageCommitMB", "int64">>, <<"PrintQPS", "int64">>,
       <<"Compute", "bool">>, <<"Print", "bool">>, <<"Storage", "bool">>,
       <<"IssuedAt", "time">>, <<"Seq", "uint64">> >>

HeartbeatOrder ==
    << <<"NodeID", "string">>, <<"SentAt", "time">>, <<"Seq", "uint64">> >>

AssignmentOrder ==
    << <<"JobID", "string">>, <<"NodeID", "string">>,
       <<"Workload", "string">>, <<"Image", "string">>, <<"Args", "args">>,
       <<"PrinterKind", "string">>, <<"GPUAPI", "string">>,
       <<"GPUMinVRAMMB", "int64">>, <<"ContributorShareBps", "int64">>,
       <<"PlatformFeeBps", "int64">>, <<"OfferedAt", "time">> >>

DeclineOrder ==
    << <<"JobID", "string">>, <<"NodeID", "string">>, <<"Reason", "string">>,
       <<"DeclinedAt", "time">> >>

JobReportOrder ==
    << <<"JobID", "string">>, <<"NodeID", "string">>, <<"ExitCode", "int64">>,
       <<"FailureCause", "string">>, <<"TmpfsExhausted", "bool">>,
       <<"StartedAt", "time">>, <<"FinishedAt", "time">> >>

FeeOrder ==
    << <<"CoordinatorID", "string">>, <<"ContributorShareBps", "int64">>,
       <<"PlatformFeeBps", "int64">>, <<"EffectiveAt", "time">>,
       <<"Seq", "uint64">> >>

LeaseOrder ==
    << <<"LeaseID", "string">>, <<"NodeID", "string">>,
       <<"ShardRef", "array">>, <<"SizeClass", "int64">>,
       <<"ContributorShareBps", "int64">>, <<"PlatformFeeBps", "int64">>,
       <<"IssuedAt", "time">>, <<"ExpiresAt", "time">>, <<"Seq", "uint64">> >>

LeaseDeclineOrder ==
    << <<"LeaseID", "string">>, <<"NodeID", "string">>, <<"Reason", "string">>,
       <<"DeclinedAt", "time">> >>

LeaseReleaseOrder ==
    << <<"LeaseID", "string">>, <<"NodeID", "string">>, <<"ReleasedAt", "time">> >>

ProofOrder ==
    << <<"LeaseID", "string">>, <<"NodeID", "string">>, <<"Offset", "int64">>,
       <<"Length", "int64">>, <<"Nonce", "array">>, <<"Digest", "array">>,
       <<"RespondedAt", "time">> >>

KeyRotationOrder ==
    << <<"NodeID", "string">>, <<"NewPublicKey", "string">>,
       <<"Algo", "string">>, <<"RotatedAt", "time">>, <<"Seq", "uint64">> >>

KeyRevocationOrder ==
    << <<"NodeID", "string">>, <<"RevokedPublicKey", "string">>,
       <<"RevokedAt", "time">>, <<"Seq", "uint64">> >>

TransmissionOrder ==
    << <<"OperatorID", "string">>, <<"TsUnixNano", "int64">>,
       <<"Nonce", "string">>, <<"Seq", "uint64">>, <<"Algo", "string">>,
       <<"Idx0", "index">>, <<"Idx1", "index">> >>

OperatorRotationOrder ==
    << <<"OperatorID", "string">>, <<"KeyIndex", "index">>,
       <<"NewPublicKey", "string">>, <<"Algo", "string">>,
       <<"TsUnixNano", "int64">>, <<"Nonce", "string">>, <<"Seq", "uint64">>,
       <<"Idx0", "index">>, <<"Idx1", "index">> >>

ConformanceOrder ==
    << <<"OperatorID", "string">>, <<"Challenge", "string">>,
       <<"Algo", "string">>, <<"Idx0", "index">>, <<"Idx1", "index">> >>

Order ==
    [listing |-> ListingOrder, heartbeat |-> HeartbeatOrder,
     assignment |-> AssignmentOrder, decline |-> DeclineOrder,
     jobreport |-> JobReportOrder, fee |-> FeeOrder, lease |-> LeaseOrder,
     leaseDecline |-> LeaseDeclineOrder, leaseRelease |-> LeaseReleaseOrder,
     proof |-> ProofOrder, nodeRotate |-> KeyRotationOrder,
     nodeRevoke |-> KeyRevocationOrder, operator |-> TransmissionOrder,
     operatorRotate |-> OperatorRotationOrder,
     operatorConformance |-> ConformanceOrder]

MessageType == DOMAIN Order

Kind(type, i) == Order[type][i][2]

\* The fields of one element of a repeated field.
Element == [printers |-> <<"string", "string">>,
            gpus     |-> <<"string", "string", "int64">>,
            args     |-> <<"string">>]

Int64s == MinInt .. MaxInt

\* What a field of each kind can hold: the types of the Go structs.
Holds == [string   |-> Seq(Byte),
          array    |-> Seq(Byte),
          bool     |-> BOOLEAN,
          int64    |-> Int64s,
          index    |-> Int64s,
          uint64   |-> 0 .. Modulus - 1,
          time     |-> Int,
          printers |-> Seq(Seq(Byte) \X Seq(Byte)),
          gpus     |-> Seq(Seq(Byte) \X Seq(Byte) \X Int64s),
          args     |-> Seq([1 .. 1 -> Seq(Byte)])]

\* Each package has tags of its own for its messages; the values tried are of
\* the types of the fields; U+FFFD takes several bytes (three in UTF-8).
ASSUME MessageAssumption ==
    /\ Tag \in [MessageType -> Seq(Byte)]
    /\ \A s, t \in MessageType : Tag[s] = Tag[t] => s = t
    /\ \A kind \in DOMAIN Holds : /\ Zero[kind] \in Holds[kind]
                                  /\ Value[kind] \subseteq Holds[kind]
    /\ Character \in Seq(Byte) /\ Len(Character) >= 2
    /\ Full \in 0 .. MaxInt

\* The messages whose fields hold values of their types.
IsMessage(m) ==
    /\ m.type \in MessageType
    /\ m = [type   |-> m.type,
            fields |-> [i \in DOMAIN Order[m.type] |-> m.fields[i]]]
    /\ \A i \in DOMAIN Order[m.type] : m.fields[i] \in Holds[Kind(m.type, i)]

PutScalar(buf, kind, v) ==
    CASE kind \in {"string", "array"} -> String(buf, v)
      [] kind = "bool"                -> Bool(buf, v)
      [] kind = "int64"               -> Int64(buf, v)
      [] kind = "index"               -> Uint64(buf, v % Modulus)
      [] kind = "uint64"              -> Uint64(buf, v)
      [] kind = "time"                -> Time(buf, v)

\* The buffers with the first fields of an element written.
ElementUpTo(buf, kinds, e) ==
    LET written[i \in 0 .. Len(kinds)] ==
            IF i = 0 THEN buf ELSE PutScalar(written[i - 1], kinds[i], e[i])
    IN  written

PutElement(buf, kinds, e) == ElementUpTo(buf, kinds, e)[Len(kinds)]

\* The loops over Printers, GPUs and Args: the count, then each element.
ListUpTo(buf, kinds, list) ==
    LET written[i \in 0 .. Len(list)] ==
            IF i = 0 THEN Count(buf, Len(list))
                     ELSE PutElement(written[i - 1], kinds, list[i])
    IN  written

PutList(buf, kinds, list) == ListUpTo(buf, kinds, list)[Len(list)]

Put(buf, kind, v) ==
    IF kind \in DOMAIN Element THEN PutList(buf, Element[kind], v)
                               ELSE PutScalar(buf, kind, v)

\* The buffers with the tag of a message and its first fields written.
EncodeUpTo(m) ==
    LET written[i \in 0 .. Len(Order[m.type])] ==
            IF i = 0 THEN New(Tag[m.type])
                     ELSE Put(written[i - 1], Kind(m.type, i), m.fields[i])
    IN  written

\* The buffer CanonicalBytes has built when it calls Sum.
Encode(m) == EncodeUpTo(m)[Len(Order[m.type])]

CanonicalBytes(m) == Sum(Encode(m))

-----------------------------------------------------------------------------
(* The message SPEC 3 and 4 read in canonical bytes *)

GetScalar(s, kind) ==
    CASE kind \in {"string", "array"} -> ReadString(s)
      [] kind = "bool"                -> ReadBool(s)
      [] kind \in {"int64", "index", "time"} -> ReadInt64(s)
      [] kind = "uint64"              -> ReadUint64(s)

\* A value is appended to those read before it.
Then(before, next) ==
    [value |-> Append(before.value, next.value), rest |-> next.rest]

ThenScalar(before, kind) == Then(before, GetScalar(before.rest, kind))

\* The values read and what follows, after each field of an element, each
\* element of a list, each field of a message.
ElementRead(s, kinds) ==
    LET read[i \in 0 .. Len(kinds)] ==
            IF i = 0 THEN [value |-> <<>>, rest |-> s]
                     ELSE ThenScalar(read[i - 1], kinds[i])
    IN  read

GetElement(s, kinds) == ElementRead(s, kinds)[Len(kinds)]

ThenElement(before, kinds) == Then(before, GetElement(before.rest, kinds))

ListRead(s, kinds) ==
    LET n == ReadVarint[s]
        read[i \in 0 .. n.value] ==
            IF i = 0 THEN [value |-> <<>>, rest |-> n.rest]
                     ELSE ThenElement(read[i - 1], kinds)
    IN  read

GetList(s, kinds) == ListRead(s, kinds)[ReadVarint[s].value]

Get(s, kind) == IF kind \in DOMAIN Element THEN GetList(s, Element[kind])
                                           ELSE GetScalar(s, kind)

ThenField(before, kind) == Then(before, Get(before.rest, kind))

FieldsRead(s, type) ==
    LET read[i \in 0 .. Len(Order[type])] ==
            IF i = 0 THEN [value |-> <<>>, rest |-> s]
                     ELSE ThenField(read[i - 1], Kind(type, i))
    IN  read

Read(s) ==
    LET tag    == ReadString(s)
        type   == CHOOSE t \in MessageType : Tag[t] = tag.value
        fields == FieldsRead(tag.rest, type)[Len(Order[type])]
    IN  [type |-> type, fields |-> fields.value, rest |-> fields.rest]

-----------------------------------------------------------------------------
(* A message through encoding/json: all values of Go survive but the bytes  *)
(* of a string that are not UTF-8                                           *)

\* The messages that have a route of httpjson.
Routed == {"listing", "heartbeat", "assignment", "decline", "jobreport", "fee"}

\* Bytes below Group are characters, the others only as part of Character.
InCharacter(s, i) ==
    \/ s[i] < Group
    \/ \E j \in 1 .. i :
         LET last == j + Len(Character) - 1
         IN  i <= last /\ last <= Len(s) /\ SubSeq(s, j, last) = Character

ValidUTF8(s) == \A i \in DOMAIN s : InCharacter(s, i)

\* Marshal writes U+FFFD for every byte that is in no character.
CarriedUpTo(s) ==
    LET carried[i \in 0 .. Len(s)] ==
            IF i = 0 THEN <<>>
                     ELSE carried[i - 1] \o (IF InCharacter(s, i) THEN <<s[i]>>
                                                                  ELSE Character)
    IN  carried

CarryString(s) == CarriedUpTo(s)[Len(s)]

\* Faulty variant of CarryScalar: instants lose their last digit.
CarryScalarCoarse(kind, v) ==
    CASE kind = "string" -> CarryString(v)
      [] kind = "time"   -> v - (v % 2)
      [] OTHER           -> v

CarryScalar(kind, v) == IF kind = "string" THEN CarryString(v) ELSE v

CarryField(kind, v) ==
    IF kind \in DOMAIN Element
    THEN [j \in DOMAIN v |-> [k \in DOMAIN v[j] |->
                                CarryScalar(Element[kind][k], v[j][k])]]
    ELSE CarryScalar(kind, v)

Carried(m) ==
    [m EXCEPT !.fields = [i \in DOMAIN m.fields |->
                            CarryField(Kind(m.type, i), m.fields[i])]]

\* All strings of a message are UTF-8, those of repeated elements too.
ScalarInUTF8(kind, v) == kind = "string" => ValidUTF8(v)

InUTF8(m) ==
    \A i \in DOMAIN m.fields :
        LET kind == Kind(m.type, i)
            v    == m.fields[i]
        IN  IF kind \in DOMAIN Element
            THEN \A j \in DOMAIN v : \A k \in DOMAIN v[j] :
                     ScalarInUTF8(Element[kind][k], v[j][k])
            ELSE ScalarInUTF8(kind, v)

-----------------------------------------------------------------------------
(* Fee terms *)

Field(m, name) ==
    m.fields[CHOOSE i \in DOMAIN Order[m.type] : Order[m.type][i][1] = name]

\* The messages with a field of type fees.Terms.
HasTerms(m) == m.type \in {"assignment", "fee", "lease"}

Terms(m) == [ContributorShareBps |-> Field(m, "ContributorShareBps"),
             PlatformFeeBps      |-> Field(m, "PlatformFeeBps")]

\* The + of Go's int.
Plus(a, b) == ((a + b - MinInt) % Modulus) + MinInt

\* Faulty variant of Balanced: a split of less than the whole is balanced.
BalancedAtMost(terms) ==
    Plus(terms.ContributorShareBps, terms.PlatformFeeBps) <= Full

Balanced(terms) ==
    Plus(terms.ContributorShareBps, terms.PlatformFeeBps) = Full

-----------------------------------------------------------------------------
(* A message from its signer to its verifier *)

VARIABLES
    sent,      \* the message as its signer fills it in
    sig,       \* the bytes its signature covers, once signed
    got,       \* the message as it arrives
    verified   \* whether Verify returned true for it

vars == <<sent, sig, got, verified>>

NoSig     == <<>>  \* canonical bytes are never empty
NoMessage == [type |-> "none", fields |-> <<>>]

Init ==
    /\ \E type \in MessageType :
        sent = [type |-> type,
                fields |-> [i \in DOMAIN Order[type] |-> Zero[Kind(type, i)]]]
    /\ sig = NoSig
    /\ got = NoMessage
    /\ verified = FALSE

\* The signer gives one field of the struct a value.
SetField(i, v) ==
    /\ sig = NoSig
    /\ Cardinality({j \in DOMAIN sent.fields :
                      sent.fields[j] # Zero[Kind(sent.type, j)]} \cup {i}) <= MaxSet
    /\ sent' = [sent EXCEPT !.fields[i] = v]
    /\ UNCHANGED <<sig, got, verified>>

\* Faulty variant of Sign: the Seq is filled in after the signature.
SignThenFill ==
    /\ sig = NoSig
    /\ sig' = CanonicalBytes(sent)
    /\ sent' = [sent EXCEPT !.fields =
                  [i \in DOMAIN @ |-> IF Kind(sent.type, i) = "uint64" THEN 1
                                                                    ELSE @[i]]]
    /\ UNCHANGED <<got, verified>>

\* Sign: a signature over the bytes, whatever Err would say of them.
Sign ==
    /\ sig = NoSig
    /\ sig' = CanonicalBytes(sent)
    /\ UNCHANGED <<sent, got, verified>>

\* Verify of the message m that arrived: the bytes are computed again from
\* its fields.
Verify(m) ==
    /\ sig # NoSig
    /\ got = NoMessage
    /\ got' = m
    /\ verified' = (CanonicalBytes(m) = sig)
    /\ UNCHANGED <<sent, sig>>

Kinds(type) == [i \in DOMAIN Order[type] |-> Kind(type, i)]

\* The message arrives as sent, with another value in a field, or taken for
\* another message whose fields are of the same kinds.
VerifyIntact        == Verify(sent)
VerifyChanged(i, v) == Verify([sent EXCEPT !.fields[i] = v])
VerifyAs(type)      == /\ Kinds(type) = Kinds(sent.type)
                       /\ Verify([sent EXCEPT !.type = type])

\* The message comes through the reference transport.
VerifyCarried       == sent.type \in Routed /\ Verify(Carried(sent))

Next ==
    \/ \E i \in DOMAIN sent.fields :
         \E v \in Value[Kind(sent.type, i)] : SetField(i, v)
    \/ Sign
    \/ VerifyIntact
    \/ \E i \in DOMAIN sent.fields :
         \E v \in Value[Kind(sent.type, i)] : VerifyChanged(i, v)
    \/ \E type \in MessageType : VerifyAs(type)
    \/ VerifyCarried

Spec == Init /\ [][Next]_vars

-----------------------------------------------------------------------------
(* Properties *)

\* The type invariant: both ends have values of the Go types, the signature
\* covers the message as its signer keeps it, and verified says of the message
\* that arrived whether it has the same bytes (Sign and Verify of each type).
MessageInv ==
    /\ IsMessage(sent)
    /\ sig \in {NoSig, CanonicalBytes(sent)}
    /\ got # NoMessage => sig # NoSig /\ IsMessage(got)
    /\ verified \in BOOLEAN
    /\ verified <=> got # NoMessage /\ CanonicalBytes(got) = CanonicalBytes(sent)

\* The bytes say which message they are of and what all its fields hold, and
\* nothing is left over (package canon: no two field sequences collide).
ReadsBack ==
    Encode(sent).err = Nil =>
        Read(CanonicalBytes(sent)) = [type |-> sent.type, fields |-> sent.fields,
                                      rest |-> <<>>]

\* A signature is never good for a message of another type, be its instants
\* in range or not (the domain tags).
DomainSeparated == verified => got.type = sent.type

\* Err reports an instant out of range wherever in the message it is, and
\* reports nothing else (Buffer.Time, Buffer.Err).
ErrIsExact ==
    Encode(sent).err # Nil <=>
        \E i \in DOMAIN sent.fields :
            Kind(sent.type, i) = "time" /\ ~ValidTime(sent.fields[i])

\* Where both sides check Err, what verifies is what was signed.
VerifiedAsSent ==
    verified /\ Encode(sent).err = Nil /\ Encode(got).err = Nil => got = sent

\* The signature of a message holds after the reference transport exactly
\* when all the strings in it are UTF-8 (postJSON, writeJSON, decode: JSON is
\* a transport encoding only, the bytes are computed again from what arrives).
CarriedVerifies ==
    /\ got # NoMessage /\ sent.type \in Routed /\ got = Carried(sent)
    /\ Encode(sent).err = Nil
    => (verified <=> InUTF8(sent))

\* Balanced means a split of the whole for a verifier that also requires one
\* of the shares, either of them, not to be negative (Terms.Balanced).
BalancedSplits ==
    HasTerms(sent) =>
        LET t == Terms(sent)
        IN  t.ContributorShareBps >= 0 \/ t.PlatformFeeBps >= 0 =>
              (Balanced(t) <=> t.ContributorShareBps + t.PlatformFeeBps = Full)

\* The comment on Balanced: it reports whether the split sums to 100%.
BalancedIsWhole ==
    HasTerms(sent) =>
        LET t == Terms(sent)
        IN  Balanced(t) => t.ContributorShareBps + t.PlatformFeeBps = Full

\* The comment on Sum: a signature over the incomplete bytes of a message
\* with an instant out of range will fail to verify.
IncompleteNeverVerifies == verified => Encode(sent).err = Nil

=============================================================================
