SPECIFICATION FairSpec

CONSTANTS
    Node = {n1}
    Job = {}
    Call = {c1, c2}
    Gated = {"heartbeat"}
    Plain = {}
    NoId = noId
    NoIdentity = noIdentity
    Stranger = stranger
    NoBody = noBody
    Malformed = malformed
    Broken = broken
    MaxSeq = 2
    MaxFee = 1

PROPERTY RecordedEventually
