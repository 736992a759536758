SPECIFICATION Spec

CONSTANTS
    Node = {n1}
    Job = {j}
    Call = {c1, c2}
    Gated = {"heartbeat"}
    Plain = {"report"}
    NoId = noId
    NoIdentity = noIdentity
    Stranger = stranger
    NoBody = noBody
    Malformed = malformed
    Broken = broken
    MaxSeq = 2
    MaxFee = 2

SYMMETRY CallSymmetry

INVARIANT FreshAnswer
PROPERTY KeepsPromise
PROPERTY ReplayRejected
