------------------------- MODULE MC_OperatorRules -------------------------
(* Small instances of Operator in which messages are wrong in every way a  *)
(* field can be: indices out of range or equal, short nonces, unsupported  *)
(* algorithms, malformed keys and signatures, signatures of other bytes.   *)
EXTENDS Operator, TLC

CONSTANTS ShortNonce  \* nonces that are absent or shorter than MinNonceLen

KeySymmetry == Permutations(Ed25519Key)

WireIndex == -1 .. KeyIndexCount

\* A good header, a bad nonce, a bad algorithm.  NoAlgo is what Sign replaces.
Headers == {[nonce |-> n, algo |-> NoAlgo] : n \in Nonce \cup ShortNonce}
             \cup {[nonce |-> n, algo |-> a] : n \in Nonce, a \in OtherAlgo}

\* A signature by any key, over the message's own bytes or over others.
SignaturesFor(msg) ==
    {OddSig} \cup {Signed(k, b) : k \in Ed25519Key, b \in {msg, <<>>}}

MCTransmissions ==
    UNION {{[t EXCEPT !.Sig0 = s0, !.Sig1 = s1] :
                s0 \in SignaturesFor(TransmissionBytes(t)),
                s1 \in SignaturesFor(TransmissionBytes(t))} :
        t \in {Prepared([Template EXCEPT !.Nonce = h.nonce, !.Algo = h.algo], i, j) :
                 i \in WireIndex, j \in WireIndex, h \in Headers}}

MCResponses ==
    UNION {{[c EXCEPT !.Sig0 = s0, !.Sig1 = s1] :
                s0 \in SignaturesFor(ConformanceBytes(c)),
                s1 \in SignaturesFor(ConformanceBytes(c))} :
        c \in {Prepared(Template, i, j) : i \in WireIndex, j \in WireIndex}}

\* The signatures of rotations are over their own bytes, or, when another
\* key than the signed one is sent, over others.
MCRotations ==
    {[SignRotation([Template EXCEPT !.KeyIndex = x, !.NewPublicKey = new,
                                    !.Nonce = h.nonce, !.Algo = h.algo],
                   k0, k1, p[1], p[2])
         EXCEPT !.NewPublicKey = sent] :
        x \in WireIndex, new \in Ed25519Key, sent \in Key, h \in Headers,
        k0 \in Ed25519Key, k1 \in Ed25519Key,
        p \in {<<0, 1>>, <<0, 2>>, <<2, 1>>, <<1, 1>>}}

=============================================================================
