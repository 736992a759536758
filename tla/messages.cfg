SPECIFICATION Spec

CONSTANTS
    Group = 2
    Width = 2
    MaxSet = 2
    Tag <- MCTag
    Zero <- MCZero
    Value <- MCValue
    Character <- MCCharacter
    Full = 2

INVARIANT MessageInv
INVARIANT ReadsBack
INVARIANT DomainSeparated
INVARIANT ErrIsExact
INVARIANT VerifiedAsSent
 
INVARIANT BalancedSplits

\* A message that has been verified goes no further.
CHECK_DEADLOCK FALSE
