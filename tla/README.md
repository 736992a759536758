# Formal verification of sohocloud-protocol

TLA+ specifications of the wire protocol between nodes, coordinators and
operators, the TLC runs that check them on small instances, and the theorems
about them that the TLA+ proof system (TLAPS) checks for every instance.

    tlc -config node_keys.cfg MC_NodeSession      # one run; PROJECT.json lists them all
    tlapm NodeKeysProofs.tla                   # one module of proofs

## 1. The system

The protocol is a small Go module of message types with `CanonicalBytes`, `Sign`
and `Verify`, of interfaces that say what a coordinator must do, and of a reference
HTTP transport. It is pull only: a node calls its coordinator and never the other
way round. Most of the code is sequential. What is hard is in what the methods do
to the state kept *around* them, which lives in a coordinator that
serves requests concurrently, over a network that loses, repeats and reorders.

| Component | State | Operations | Correct when |
|---|---|---|---|
| Operator identity (`operator/`) | the registry of seven keys per operator, kept by the coordinator | `Sign`, `Verify` of transmissions, rotations, conformance responses; `verifyAt`, `verifyPair`, `distinctKeysAt` | two distinct registered keys stand behind everything accepted; rotations keep keys distinct and one algorithm, and never lock the operator out; the ordered checks decide what SPEC 11 says |
| Canonical encoding (`canon/`) | a buffer and its latched error | `New`, `String`, `Bytes`, `Bool`, `Int64`, `Uint64`, `Count`, `Time`, `Err`, `Sum`, `VerifySig` | no two messages have the same bytes; the error is reported exactly when an instant does not fit |
| Signed messages (`listing/`, `liveness/`, `employment/`, `fees/`, `lease/`, `identity/`) | the struct and its signature | `CanonicalBytes`, `Sign`, `Verify` | a signature is good for one message of one type |
| Node key lifecycle (`identity/keylife.go`, `KeyLifecycleCoordinator`) | the node's key and Seq; the coordinator's trusted key and last Seq | `KeyRotation`, `KeyRevocation`; `RotateKey`, `RevokeKey`; enrolment out of band | trust moves forward only, ends only by the key's own revocation, and the node is never stranded |
| Node recognition (`identity.BindsTo`) | none | compares a SPIFFE path with `/node/<id>` | a node sees its own work only |
| Coordinator role (`coordinator/`) | none here: interfaces | `SubmitListing`, `Heartbeat`, `PollJobs`, `Decline`, `ReportJob`, `Fees`; storage and key lifecycle optional | Seq strictly grows per node; nonces are used once |
| Storage leases (`lease/`) | lease and its Seq, open challenges, used nonces | offer, renewal, decline, release, challenge, `ProofOverShard`, proof | a range is accepted exactly when it lies in the shard; a proof is metered once |
| Job employment (`employment/`) | a job's offers and outcomes | assignment by polling, `Decline`, `JobReport` | an outcome is recorded once and for the node it was offered to |
| Fees (`fees/`) | the declaration and its Seq | `Sign`, `Verify`, `Terms.Balanced` | the two shares make 10000 |
| Reference transport (`transport/httpjson/`) | requests in flight | `Client` methods; `Handler`, `post`, `decode`, `writeJSON`, `fail` | a call that returns nil was acted on; one that returns an error may have been |
| Anchor (`anchor/`) | none: a stub | none | |
| Version, audits, vectors | none | tests over source text and golden bytes | |

How they meet: every message writes its fields to a `canon` buffer and signs the
sum; a coordinator verifies it against a key it holds (one per node, seven per
operator, its own for assignments, leases and fees); the transport carries the
message as JSON, and the bytes are computed again from the fields on the other side.
Two of the messages change the keys that all the others are verified with: those
two, `OperatorRotation` and `KeyRotation`, are where the models begin.

Hard behaviours, each listed at its line under "hazards" in PROJECT.json:
verification and its effect are separate steps (`Verify` changes nothing, its caller
does); whatever was signed once can be delivered late or again; revocations can
overtake rotations; challenges name any two 64-bit integers; Go iterates over the registry in any order; chains of early
returns must decide a rule; encodings meet lengths, signs and the ends of ranges.

## 2. The modules

| Module | Models | Status |
|---|---|---|
| `Operator`, `OperatorProofs` | operator identity | done |
| `Canon`, `Messages`, `CanonProofs`, `MessagesProofs` | encoding, all fifteen signed messages | done |
| `Induction` | induction and recursion, for the two proof modules above | done |
| `KeyTrust`, `NodeKeys`, `NodeKeysProofs` | node key lifecycle: its promise and its protocol | done |
| `NodeSession`, `NodeSessionProofs` | heartbeats of a node whose key changes, composed with `NodeKeys` | done |
| `Ledger`, `Transport`, `TransportProofs` | client and handler, the messages and answers they carry, the caller's identity | done |
| `Meter`, `Lease`, `LeaseProofs` | storage leases: their promise and their protocol | done |

`MC_*` modules only give constants their values. In the modules, a definition called
a *faulty variant* stands before the one it varies: it is that definition with a
plausible mistake in it, nothing uses it, and putting it in place makes TLC find the
property that PROJECT.json names under "mutants" violated.

### Operator

`keymap` is the `Keymap` that `Verify` reads: a partial function from indices, since
registration may leave indices empty. The `Verify` methods are operators that return
the error the code returns, each early return in its place: `verifyAt`, `distinctKeysAt`,
`verifyPair`, `VerifyTransmission`, `VerifyConformance`. `VerifyRotation` returns
a *set* of errors, because its two loops iterate over a Go map, and whichever entry
fails first is returned. The three `Sign` operators fill in the indices and the
default algorithm before they take the signatures, as the code does.

The package verifies and its caller applies. `Spec` is a coordinator that handles
requests concurrently: `AuthorizeRotation` is a handler that has its nil,
`ApplySwap` its write, anything may happen between. `SerialSpec` is one that does
both under a lock (`Rotate`). SPEC 11 does not say which a coordinator is, and the two
keep different promises, so both are there. `Init` allows every registry, malformed,
mixed and repeated keys included: registration is out of band and nothing in
the code checks it.

Abstracted: a public key stands for its key pair, a signature is the pair of its
signer and what it covers, canonical bytes are the record of the fields in them
(`Canon` and `Messages` are about the bytes; their theorem `SameBytesSameMessage` is what makes the record
as good as the bytes, here and in the modules below). OperatorID, timestamp and Seq are left
out, no check reads them.

What it says. `TwoDistinctSigners`, `MadeAsAsked` and `OneVerdict` need nothing of the
coordinator and hold for `Spec`. `DistinctKept`, `UniformAfterRotation`,
`SwapsAuthorized`, `ProperKept` need the lock and are stated of `SerialSpec`: under `Spec`
two rotations to one key, of different indices, can both be verified before either is
applied, and the registry then holds the key twice. `TwoDistinctSigners` still
holds then, because `distinctKeysAt` compares keys and not indices.
`RulesDecide` and `RotationRulesDecide` say that the ordered checks accept exactly what
the rules of SPEC 11.0 and 11.2 do, as a conjunction with no order. `NeverLockedOut` says that
a proper registry can always be used, and rotated, with any two of its keys.

### Canon and Messages

`Canon` has one operator per `Buffer` method, from a buffer to a buffer: the varint
prefix, big-endian integers of `Width` bytes (two's complement, by `% Modulus`), and
`Time`, which skips an instant that does not fit and latches the first error. Beside
them stand `ReadString`, `ReadInt64`, ..., which take a value off the front of
bytes. Whatever goes on byte by byte, field by field or element by element is a
recursive function (`Uvarint`, `ReadVarint`, `EncodeUpTo`, `ListUpTo`, ...), so that
it can be proved about.

`Messages` gives each of the fifteen messages the order in which its
`CanonicalBytes` writes its fields; `Holds` has the values that a field of each kind
can take in Go. A signer fills in fields (`SetField`), signs (`Sign`, which like the
code does not look at `Err`), and a verifier gets the message intact, with another
value in one field, or as a message of another type with fields of the same kinds.
`ReadsBack` is the injectivity of the encoding stated as a left inverse: the bytes
read back to the type and every field, with nothing left over. `VerifiedAsSent` is
what a receiver may rely on, and needs `Err` to be checked on both sides.

The six messages that have a route come through the reference transport as well
(`VerifyCarried`). JSON keeps every value but the bytes of a string that are not
UTF-8, each of which becomes U+FFFD; the scaled-down alphabet has two characters of
one byte and one of two, `Character`, which is U+FFFD. `CarriedVerifies` says that a
signature survives exactly when all strings are UTF-8: a `FailureCause` cut off in
the middle of a character is signed and refused on arrival. (SPEC.md:107 has the
instants survive; that needs a time zone of whole minutes and a year up to 9999,
beyond which marshalling fails, which `Transport` has.) `Balanced` is
`Terms.Balanced` with the `+` of Go's int. `BalancedSplits` says what it takes for a
balanced split to be one: either share, it does not matter which, must not be
negative.

### KeyTrust and NodeKeys

`KeyTrust` is the promise: the node's list of keys only grows, the trusted place in
it only moves forward, a key dies only when declared dead, and after that only
enrolment, with a key never used, makes another one trusted.

`NodeKeys` is the protocol. The node keeps `chain`, the keys it has named, and
`nodeSeq`; it signs rotations with the last key of the chain. What it has sent stays in
`rotations` and `revocations` for good, and any of it may be delivered at any time, or
never: that is loss, repetition and reordering. The coordinator keeps `trusted` and
`lastSeq`; `RotateKey` and `RevokeKey` are `KeyRotation.Verify`, `KeyRevocation.Verify` and
what coordinator/coordinator.go:77-87 says their caller does. `SignMalformed` is there because `Sign` does
not look at the successor it signs: the message uses up a Seq and must change nothing.
A node may name a key it has used before, which makes an old rotation verify again:
only the Seq gate stops it from taking trust back.

`ForwardTrust` is the refinement: `NodeKeys` implements `KeyTrust` with `at` as the place
of the trusted key (0 when none is) and, as the declared keys, those with a
self-signed revocation. `CanCatchUp` is the other side: a gate that is too strict would strand the
node, and this says that a trusted node is up to date or has already sent
something that the coordinator, as it is, accepts. `TypeOK` includes that the trusted
key is well formed and is the one the node named in that place.

Assumed, and needed:
- the coordinator verifies and installs in one step. If the two could be
  separated, a rotation in flight could put a successor in place after a revocation of
  the key that signed it;
- the node signs each rotation with the key it named last and gives it the
  next Seq. A node that forks its list, signing two successors with one key, is
  not modelled;
- enrolment uses a new key pair and leaves the Seq gate where it was;
- Seq does not wrap around: it has 64 bits and counts rotations of one node.

Abstracted: one node (so no NodeID), the instants, and the Seq of a revocation, which
no check reads.

### NodeSession

`NodeSession` extends `NodeKeys` by the heartbeats the node sends meanwhile. A heartbeat is signed with the key
the node has named last (`NewBeat`) and verified against the key trusted on its arrival
(`RecordBeat`), so a copy signed before a rotation is refused after it, and one signed after a
rotation is refused before it. Sending the same bytes again can fail for ever; what works is to sign the
newest heartbeat anew (`BeatAgain`), and `HeardEventually` says that it does. `CaughtUpEventually` is the
liveness of the rotations themselves: `CanCatchUp` says there is always a way on, this that it is taken
to the end.

### Ledger and Transport

`Ledger` is what a node may rely on when it submits a message: only what was submitted
is recorded, listings and heartbeats in growing order of Seq, and what is
confirmed has been recorded. A submission that is not confirmed promises nothing.

`Transport` is the calls of `Client` on `Handler`. A call is `Submit`, `Resubmit`,
`PollJobs` or `Fees`, which put a request on its way; then `Handler` may serve it, and
the call ends by `Receive`, which is `do` with a response, or by `GiveUp`, which is
every error that leaves no response (marshalling, connection, context). The two are
independent: a request may be served after its call has given up, so a retry can overtake
the original, and `Forget` may take away a request that was never served or a reply that
was never read: that is loss. `Intrude` is a request from some other client.

On the other side `Refusal` has the statuses that `Handler`, `post` and `decode` give by
themselves, in the order of the code; `PostAccepted`, `PostRefused` are `post` when the
coordinator returns nil or an error; `WriteJSON` is `writeJSON`, which has
status 200 in any case and a body that may be broken; `CoordinatorFails` is any other error,
through `fail`. A coordinator that keeps the rules of coordinator/coordinator.go stands behind them: it
records what it verifies and gates Seq in one step, and offers and fees change
(`Offer`, `Withdraw`, `DeclareFees`) while calls wait.

The caller's identity must bind to the node_id it asks for. coordinator/coordinator.go:36-39 asks
`PollJobs` to check it, with 401 and 403; transport/httpjson/server.go:15-19 and SPEC 7 leave it to middleware,
and could not pass those statuses on, since `fail` has 500 for every error.
`RefuseCaller` therefore allows either place and status; no property depends on which.

`KeepsPromise` is the refinement of `Ledger`. `ReplayRejected` is the part of the gate that a
refinement cannot say, since recording a second time changes nothing. `FreshAnswer` compares an
answer with the history `seen` of what was true for this caller while the call waited.
`RecordedEventually` is the liveness of a resent heartbeat: the gate refuses late copies of
older messages, and copies of the newest one once it is in, but never the newest one before that.

Abstracted: a message is its path, node and Seq, or job; it is signed by its node.
JSON decodes or it does not, on either side. Listings and heartbeats have a gate each, as
coordinator/coordinator.go:28-34 reads ("under the same discipline"). Declines and reports have no Seq
and the code gives no rule for a repetition: they are recorded as a set.

### Meter and Lease

`Meter` is what both sides may rely on: a challenge is metered at most once, only after the
bytes it asks for were read for it by a node that had not left the lease, never once the
end of the lease is recorded; a renewal is not undone.

`Lease` is the protocol between one node and a `StorageCoordinator`. The coordinator signs
offers and renewals (`OfferLease`) and makes challenges with a nonce of their own and any
range at all (`MakeChallenge`). The node takes what it polls if the Seq is higher
(`TakeLease`), declines or releases, and answers: `Answer` is `ProofOverShard` and the
response over what it returned. A node whose bytes are lost (`LoseShard`) may still have the digests
of earlier answers and sends any of them for any challenge (`AnswerFromRecord`). What
was sent stays on the wire: `SubmitProof`, `RecordExit`, `TakeLease` take any of it at
any time, again or never.

`OutOfRange` is the guard of `ProofOverShard` as written, with the subtraction wrapped to
the width of an int64; `InShard` is what it should decide, as a set of positions with no arithmetic
to overflow. `ProofDigest` is a tuple of what the code hashes, in its order. `shard` is
emptied by a release, and `read` is a history of the challenges whose bytes were read.

`KeepsMeter` is the refinement. It fails if the digest leaves the nonce out (an answer on
record is then good for another challenge, the shard of the run being of like bytes), if
nonces are not remembered, or if the gate on Seq is dropped. `RangeExact` is the
guard against its reference in every reachable state. `MeteredEventually` and
`RenewedEventually` are the other side: what is refused must not be too much.

Assumed, and needed:
- a nonce is drawn once, over all leases: `ProofDigest` does not bind the LeaseID, and two leases
  on one shard with one nonce would have one answer between them;
- a nonce is marked as seen when a response with it is accepted, as SPEC 4.10 reads. If any
  response marks it (coordinator/coordinator.go:73 can be read so), an answer from the record uses up the
  challenge, and `MeteredEventually` needs a node that never sends one;
- a lease that was left is not offered again under its LeaseID: declines and releases carry no
  Seq, and a late one would end the new offer.

Abstracted: expiry, which no code reads; which of several nodes a lease goes to; the fee
terms, of which `Messages` has the encoding; whether the coordinator's expected digest comes from
a frontend that precomputed it (it is computed from the same shard).

## 3. The runs

| Run | Shows | Instance |
|---|---|---|
| `operator_serial` | `DistinctKept`, `UniformAfterRotation`, `SwapsAuthorized`, `ProperKept`, `NeverLockedOut` | 3 indices, 4 keys and a malformed one, every initial registry, every rotation of any index to any key signed by any two keys at any two indices, the new key changed on the way or not |
| `operator_concurrent` | `TypeOK`, `TwoDistinctSigners`, `MadeAsAsked`, `OneVerdict` | the same with up to 2 swaps verified and not yet applied, and an index out of range among those to rotate |
| `operator_rules` | `RulesDecide`, `RotationRulesDecide` | 3 indices, 3 keys; messages wrong in every combination: indices from -1 to 3, equal or not, short nonce, unsupported algorithm, malformed key, signature missing, by another key or over other bytes |
| `operator_documented_order` | finding: `DocumentedOrder` is violated | the same |
| `messages` | `MessageInv`, `ReadsBack`, `DomainSeparated`, `ErrIsExact`, `VerifiedAsSent`, `CarriedVerifies`, `BalancedSplits` | bytes 0..3, integers of 2 bytes, varints of base 2, any 2 fields of any message set, a split whose whole is 2 |
| `messages_incomplete_sum` | finding: `IncompleteNeverVerifies` is violated | the same |
| `messages_balanced` | finding: `BalancedIsWhole` is violated | the same |
| `node_keys` | `TypeOK`, `CanCatchUp`, `ForwardTrust`, `CaughtUpEventually`, `HeardEventually` | 3 keys, a list of up to 4 (so a key comes back), 2 rotations, 1 revocation, 2 heartbeats |
| `node_keys_unconditional` | finding: `HonouredUnconditionally` is violated | 3 keys, a list of up to 4, 4 rotations, 2 revocations, no heartbeats |
| `transport` | `FreshAnswer`, `KeepsPromise`, `ReplayRejected` | 1 node, strangers, 2 calls at a time, a heartbeat and a report path, 1 job, 2 Seqs, 2 fee declarations |
| `transport_live` | `RecordedEventually` | the same, with heartbeats, polls and strays only |
| `lease` | `TypeOK`, `RangeExact`, `KeepsMeter`, `MeteredEventually`, `RenewedEventually` | 1 lease on a shard of 2 like bytes, 2 nonces, integers -4..3 and every pair of them as a range, an offer and a renewal |

Why the bounds are enough. *Three indices*: a rotation involves at most the index
rotated and two that sign, and a third party to be compared with; with three indices every
pattern of coincidence between those occurs (the rotated index signs or not, the
duplicate is a signer or not), and four keys leave one that nobody holds. The
counterexamples of the faulty variants need two or three indices. *Two swaps in flight*
is what it takes for one to be stale. *Two fields*: a collision between encodings is
between neighbouring fields, or one field and a length; the values include the
empty string, strings long enough for a two-byte length, the ends of
the integer range and what lies beyond, empty and repeated list elements. The domain
tags are chosen so that some are prefixes of others, as in the source. *A list of four keys
from three, two rotations and a revocation* have a key come back with a rotation in between, which is the
shortest history in which an old rotation verifies again, and an enrolment with a rotation
still on its way; the safety properties of this run are proved for any number of messages. Symmetry in the keys,
used by `node_keys_unconditional` alone, is sound: no definition singles one out.

*Two calls* are a late one and its retry, or a poll and the call that makes its answer stale;
a slot is free again after `Forget`, so any number of calls follow each other. *One node* is
enough beside a stranger and a caller with no identity: streams of different nodes have nothing in
common but the set they are recorded in. *Two Seqs* give an old and a new message.

*Integers of three bits* beside a shard of two bytes have ranges inside, at either end, across the
end, empty, negative and such that their sum overflows; all 64 are tried. *Two nonces* are an answer
on record and the challenge it does not belong to. *One lease* is enough because nonces are
drawn once over all of them; `LeaseProofs` has any number.

`MaxPending`, `MaxSet`, `MaxChain`, `MaxSeq`, `MaxRevoked`, `MaxBeat` and `MaxFee` are bounds in guards; the
theorems hold whatever their values.

Fairness. In `Transport` only `FairSpec` has any, and only `RecordedEventually` needs it. `GiveUp` and `Forget` are weakly fair for each
call: calls run under a context (httpjson/client.go:53), and the caller is assumed to give it a
deadline. `Persist` is strongly fair for each node and kind of
message: a node whose newest message is not confirmed goes on submitting it. The client does not
retry by itself, so this is an assumption on the node that uses it, and no more than a
signal of liveness needs.
`GetThrough` is strongly fair: of the newest message's requests, one arrives in the end and
the coordinator does not fail on it. Nothing is assumed about replies: every one may be lost.

`FairSession` of `NodeSession` is weakly fair for a node that goes on signing and sending its newest
heartbeat, and for the arrival of a rotation or heartbeat that the coordinator accepts. It says nothing of
revocations and new rotations, but the node names finitely many keys (`MaxChain`): one that
rotated again and again before its heartbeats arrive need not be heard.

`FairSpec` of `Lease` is weakly fair for a node that goes on polling and takes or answers what it finds
(`TakeLease`, `Answer`), and for the delivery of its responses (`SubmitProof`): the protocol
is pull only, so this is an assumption on the node, which no one else can make up for, and that a
response which is submitted again and again arrives. Answers from the record are under no fairness,
nor are exits and the loss of the shard, and both properties allow for them.

Deadlock checking is off where the system really stops: a registry that accepts
nothing, a message that has been verified, a node whose bounded supply of rotations is spent, a
lease that has been left with all nonces drawn.

## 4. The findings

1. canon/canon.go:140-143 says a signature over the incomplete bytes of a message
   with an instant out of range "will fail to verify". Both sides compute the same
   incomplete bytes, so it verifies, whatever instant out of range the message
   carries on arrival.
2. operator/operator.go:115-120 lists the checks of `Verify` "in order". The code
   finishes with the first index, its signature included, before it looks at the second.
   What is accepted is the same (`RulesDecide`); the error is not.
3. coordinator/coordinator.go:84-86 says a validly signed revocation must be honoured
   unconditionally. `KeyRevocation.Verify` honours it only while its key is
   the trusted one. SPEC.md:319-320 says this wording is superseded; the comments on
   `RevokeKey` and in identity/keylife.go:29-31 still have it.
4. fees/fees.go:22 says `Balanced` reports whether the split sums to 100%. The sum wraps around: two shares of
   -2^63+5000 are balanced, and can be signed and verified.

## 5. The proofs

`OperatorProofs`, for any number of indices, any keys, any messages, from the
assumptions in `Operator` (well formed keys and others are disjoint, there is a nonce, the
algorithm is one of a kind, a wire index is an integer; what a rotation's signature covers was made from
what its signers asked for; a signature made with `Sign` has the right length):

- `TypeCorrect`, `SerialTypeCorrect`: `TypeOK` is inductive as it stands.
- `RulesDecideAlways`, `RotationRulesDecideAlways`: from two lemmas with no state in
  them, `PairVerified` and `RotationVerified`, which unfold the chains of early returns
  once for all. The registry's type is all they need.
- `DistinctSigners`: `accepted` is written only after a nil from `verifyPair`, and
  `PairSigners` derives from `PairVerified` that its two signers differ.
- `DistinctnessKept`, `UniformityReached`, `ProperForEver`: action properties of
  `SerialSpec`. `RotateEffect` says what an accepted rotation does to the registry: one
  index gets a key no other index holds, all others have the algorithm already.
- `ChangesAuthorized` (`SwapsAuthorized`): the same effect, with the two signers from
  `PairSigners` and the swap from `BytesBindSwap`: the bytes under the signatures hold
  everything a swap is made from, so an altered rotation is refused.
  `MadeAsAskedAlways` is that fact for the concurrent coordinator.
- `OneVerdictAlways`: each of the three branches of `VerifyRotation` is a set of one, because a pass
  can fail with one error only.
- `NeverLockedOutAlways`: what `Sign` makes with two keys of a proper registry meets the rules, and
  by `PairVerified` and `RotationVerified` the rules are enough.

`NodeKeysProofs`, for any keys and any number of messages, from `Key` and `OddKey`
being disjoint, `NoKey` being no key, and the algorithm being one of a kind:

- `Invariant`: `IInv`, the conjunction of
  - `TypeOK`,
  - `Placed`: a well formed rotation names the key at its place and is signed by the one
    before it; a malformed one has no place,
  - `Ordered`: Seq grows with the place,
  - `GateForward`: what the gate lets through leads forward or was signed by a key
    that is not the trusted one,
  - `WayOn`: every place beyond the trusted one has a rotation that the gate lets through.

  None of these can be left out. Without `GateForward` an accepted rotation could lead
  back. After an enrolment the rotations to skipped places are still beyond
  the gate and lead back; they are harmless only because the enrolled key is new
  and so signed none of them, which is why `GateForward` has its second disjunct and
  why `Placed` speaks of the signer. `Ordered` carries `GateForward` and `WayOn` over
  a step of `RotateKey`, which raises the gate and the place together.
- `TypeCorrect`; `NeverStranded` (`CanCatchUp`, from `WayOn` at the next place).
- `TrustMovesForward`: `ForwardTrust`, that is, the initial states map to initial
  states of `KeyTrust` and each step to a step or a stutter, under `IInv`.

`NodeSessionProofs`: `SessionKeepsKeys`, a session implements `NodeKeys`, since heartbeats leave its variables alone; from
it and the theorems above `SessionTrust`, `SessionTyped`, `SessionNeverStranded`.

`TransportProofs`, for any nodes, calls, paths and bounds, from the gated and the plain
paths being disjoint and neither "jobs" nor "fees":

- `Invariant`: `IInv`, the conjunction of
  - `TypeOK`, which includes that confirmed messages are recorded and recorded ones were sent,
  - `Posted`: a POST on its way carries a message that was submitted to its path, or no message,
  - `Quiet`: an idle call has no reply on the way,
  - `Effected`: a POST that was answered with success has been recorded,
  - `Gate`: `last` is at least the Seq of everything recorded in its stream,
  - `Witnessed`: what is true now is in `seen` of every waiting call,
  - `Truthful`: an answer on its way that decodes is in `seen`,
  - `FreshAnswer`.

  `Effected` carries the promise from the reply to the call that reads it, `Truthful` does
  the same for answers; `Witnessed` is why the answer a handler writes is in `seen`. `Truthful` says
  nothing of calls that gave up, for which `seen` is no longer kept.
- `ImplementsLedger` (`KeepsPromise`): `PostAccepted` is `Record`, `Receive` of a nil is `Confirm`,
  `Submit` is `Submit`, all other steps leave the ledger alone; from `Gate` and `Effected`.
- `ReplaysRejected` (`ReplayRejected`): a reply of 204 is written by `PostAccepted` only
  (`StepReplay`), whose guard contradicts `Gate` if the message is on record.
- `AnswersFresh` (`FreshAnswer`).

`LeaseProofs`, for any leases, nonces, shards and windows and any width, from three assumptions (bounds are
naturals; shards are byte sequences no longer than the largest integer; a window is a pair of integers
of the width):

- `RangesExact`: from `GuardExact`, that the guard is `InShard`. The subtraction cannot wrap when
  the length is positive, and when it is not the guard has refused it already.
- `Invariant`: `IInv`, the conjunction of `TypeOK` and `NoncesOnce` (two challenges of one nonce are the same).
  `TypeOK` carries that every digest in a response was computed for a challenge in `read`; `NoncesOnce`
  turns a digest that matches, and so a nonce that matches, into that challenge. Without either a
  response from the record could be metered for a challenge nobody read.
- `ImplementsMeter` (`KeepsMeter`): `Answer` is `Prove`, `SubmitProof` is `Credit`, `TakeLease` is `Hold`, exits
  are `Leave` and `End`; from `IInv`. `TypeCorrect`.

`CanonProofs` and `MessagesProofs`, for any size of a varint group and of an integer, any
tags, any values tried, from the assumptions that a group has at least two values and an
integer a byte, that tags are byte sequences, no two alike, and that what a signer puts in a field is of
the field's type, U+FFFD takes two bytes or more and the whole of a split is an integer that fits:

- *Induction.* The library's induction theorems take an operator as a parameter, and the provers
  cannot instantiate them. `Induction` states what is needed about sets: a set
  that holds 0, and k + 1 with k, holds every natural (`SetInduction`); a set that holds x
  whenever it holds all of smaller measure holds everything (`MeasureInduction`); a
  function defined by recursion along a measure exists (`Recursion`). From these
  `UvarintDef`, `ReadVarintDef`, `LeadingDef`, `EncodeUpToDef` and their like say that the
  recursive functions of the two modules obey their definitions.
- *What a method of `Buffer` writes is read back, whatever follows it*: `VarintReads`
  (induction over the number: the groups above are a smaller number), `StringReads`,
  `Uint64Reads` (the number made of the first i bytes is v divided by the power of the base that is left;
  by induction over i), `Int64Reads`, `BoolReads`.
- *Pieces.* `PiecesRead`: what is written in pieces, each of which is read back whatever
  follows, is read back as the sequence of their values. It is used three times: for
  the fields of an element (`ElementWrites`), the elements of a list behind its count (`ListWrites`), the
  fields of a message behind its tag (`MessageReads`).
- `EncodeFacts`: the error is latched exactly when an instant is out of range, and the
  bytes begin with the tag in any case. `SameBytesSameType` follows from the second half
  alone, without `Err`; `SameBytesSameMessage`, injectivity, from `MessageReads`, because what has a left
  inverse is injective.
- `StringCarried`: a string through JSON is itself exactly when it is UTF-8, since each byte in
  no character makes it longer; `FieldCarried`, `MessageCarried` lift it to messages.
- `SumOfShares`: the sum of two integers, one of them not negative, is less than a modulus away from the whole, so
  it is congruent to the whole only when it is equal to it.
- `MessageInvariant`: `MessageInv`. The messages at both ends hold values of the Go types, a signature covers
  the bytes of the message sent, and `verified` says whether the message that arrived has the same bytes. Without
  the types nothing could be read back; without the last part the three properties about
  `verified` would not follow, since `sig` alone does not tie it to `sent`. The run `messages` checks it too.
- `MessageReadsBack`, `MessageDomainSeparated`, `MessageErrIsExact`, `MessageVerifiedAsSent`,
  `MessageCarriedVerifies`, `MessageBalancedSplits`: the six properties of that run, each
  from `MessageInv` and one of the lemmas above.

The values of the source are an instance: `Group` is 128, `Width` is 8, `Full` is 10000, `Character` the three
bytes of U+FFFD. What is simpler than the source in every instance is that all other characters are of one byte.

Checked by TLC only: `RecordedEventually`, `MeteredEventually`, `RenewedEventually`, `CaughtUpEventually` and
`HeardEventually`, since liveness under fairness is beyond the prover. Every invariant and every action
property that a passing run checks is a theorem.

## 6. Not modelled

- The text of JSON. In `Transport` it is success or failure of decoding, in `Messages` what
  it does to the values of fields.
- What becomes of a job after its report or decline was recorded: the code has the messages
  and the interface, `Transport` delivers them, and nothing in the repository says what a coordinator does on a
  second report, or on a report after a decline. Expiry of leases: no code reads it.
- Calls of `Transport` while the node's key is rotated: `NodeSession` has the heartbeats on a wire
  without replies, `Transport` has the calls under one key.
- Cryptography: signatures cannot be forged and are deterministic, by construction.
- Headers, URLs and the text of error replies.
- `anchor` has no code; the version is a constant; the audits and vectors are tests
  over text and golden bytes, which the scaled-down encoding does not reproduce.
- How a coordinator ranks and matches: private to it, and not in this repository.

## 7. What is left

Everything planned is done. A job's life after its outcome was recorded was planned as a
module of its own and left out: it would be a specification of a coordinator that is not
here. What could come next:

1. `NodeSession` over `Transport`, with the replies that tell a node what was refused.
2. Several nodes on one shard, if the protocol comes to say how a lease is placed anew.
