SPECIFICATION Spec

CONSTANTS
    Group = 2
    Width = 2
    MaxSet = 2
    Tag <- MCTag
    Zero <- MCZero
    Value <- MCValue
    Character <- MCCharacter
    Full = 2

INVARIANT IncompleteNeverVerifies

\* As in messages.cfg.
CHECK_DEADLOCK FALSE
