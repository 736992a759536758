SPECIFICATION FairSpec

CONSTANTS
    l1 = l1
    n1 = n1
    n2 = n2
    LeaseID = {l1}
    Nonce = {n1, n2}
    Sealed <- MCSealed
    MaxInt = 3
    Window <- MCWindow
    MaxSeq = 2

INVARIANT TypeOK
INVARIANT RangeExact
PROPERTY KeepsMeter
PROPERTY MeteredEventually
PROPERTY RenewedEventually

\* A lease that has been left and all of whose nonces are drawn is over.
CHECK_DEADLOCK FALSE
