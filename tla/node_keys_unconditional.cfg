SPECIFICATION Spec

CONSTANTS
    Key = {k1, k2, k3}
    OddKey = {odd}
    AlgoEd25519 = ed25519
    OtherAlgo = {mldsa}
    NoKey = noKey
    MaxChain = 4
    MaxSeq = 4
    MaxRevoked = 2

SYMMETRY KeySymmetry

INVARIANT HonouredUnconditionally

\* As in node_keys.cfg.
CHECK_DEADLOCK FALSE
