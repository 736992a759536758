SPECIFICATION Spec

CONSTANTS
    KeyIndexCount = 3
    Ed25519Key = {k1, k2, k3, k4}
    OddKey = {odd}
    AlgoEd25519 = ed25519
    OtherAlgo = {mldsa}
    NoAlgo = noAlgo
    Nonce = {n}
    OddSig = oddSig
    RotationIndices = {0, 1, 3}
    MaxPending = 2
    Transmissions <- MCTransmissions
    Rotations <- MCRotations
    Responses <- MCResponses

SYMMETRY KeySymmetry

INVARIANT TypeOK
INVARIANT TwoDistinctSigners
INVARIANT MadeAsAsked
INVARIANT OneVerdict

\* As in operator_serial.cfg.
CHECK_DEADLOCK FALSE
