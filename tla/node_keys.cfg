SPECIFICATION FairSession

CONSTANTS
    Key = {k1, k2, k3}
    OddKey = {odd}
    AlgoEd25519 = ed25519
    OtherAlgo = {mldsa}
    NoKey = noKey
    MaxChain = 4
    MaxSeq = 2
    MaxRevoked = 1
    MaxBeat = 2

INVARIANT TypeOK
INVARIANT CanCatchUp
PROPERTY ForwardTrust
PROPERTY CaughtUpEventually
PROPERTY HeardEventually

\* A node whose rotations and heartbeats are spent and whose key is revoked
\* goes no further on the wire.
CHECK_DEADLOCK FALSE
