SPECIFICATION SerialSpec

CONSTANTS
    KeyIndexCount = 3
    Ed25519Key = {k1, k2, k3}
    OddKey = {odd}
    AlgoEd25519 = ed25519
    OtherAlgo = {mldsa}
    NoAlgo = noAlgo
    Nonce = {n}
    ShortNonce = {short}
    OddSig = oddSig
    MaxPending = 0
    Transmissions <- MCTransmissions
    Rotations <- MCRotations
    Responses <- MCResponses

SYMMETRY KeySymmetry

INVARIANT RulesDecide
INVARIANT RotationRulesDecide

\* As in operator_serial.cfg.
CHECK_DEADLOCK FALSE
