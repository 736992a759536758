---------------------------- MODULE MC_Operator ----------------------------
(* Small instances of Operator in which every signature is well formed and *)
(* the interest is in who signs and in what order swaps are applied.       *)
EXTENDS Operator, TLC

CONSTANTS RotationIndices  \* the KeyIndex values rotations carry

KeySymmetry == Permutations(Ed25519Key)

Pairs == {p \in Index \X Index : p[1] < p[2]}

\* Signed by any two private keys, one key twice included.
MCTransmissions ==
    {SignTransmission(Template, k0, k1, p[1], p[2]) :
        k0 \in Ed25519Key, k1 \in Ed25519Key, p \in Pairs}

MCResponses ==
    {SignConformance(Template, k0, k1, p[1], p[2]) :
        k0 \in Ed25519Key, k1 \in Ed25519Key, p \in Pairs}

\* As signed, or with another new key than the one that was signed.
MCRotations ==
    {[SignRotation([Template EXCEPT !.KeyIndex = x, !.NewPublicKey = new],
                   k0, k1, p[1], p[2])
         EXCEPT !.NewPublicKey = sent] :
        x \in RotationIndices, new \in Ed25519Key, sent \in Ed25519Key,
        k0 \in Ed25519Key, k1 \in Ed25519Key, p \in Pairs}

=============================================================================
