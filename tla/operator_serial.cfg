SPECIFICATION SerialSpec

CONSTANTS
    KeyIndexCount = 3
    Ed25519Key = {k1, k2, k3, k4}
    OddKey = {odd}
    AlgoEd25519 = ed25519
    OtherAlgo = {mldsa}
    NoAlgo = noAlgo
    Nonce = {n}
    OddSig = oddSig
    RotationIndices = {0, 1, 2}
    MaxPending = 0
    Transmissions <- MCTransmissions
    Rotations <- MCRotations
    Responses <- MCResponses

SYMMETRY KeySymmetry

INVARIANT NeverLockedOut
PROPERTY DistinctKept
PROPERTY UniformAfterRotation
PROPERTY SwapsAuthorized
PROPERTY ProperKept

\* A registry in which no two indices have usable, distinct keys accepts
\* nothing for ever.
CHECK_DEADLOCK FALSE
