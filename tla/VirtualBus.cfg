CONSTANTS
    Senders = {s1, s2}
    Queues = {q1, q2}
    Cap = 1
    NoOne = noone
    MaxSends = 2
SPECIFICATION FairSpec
INVARIANT SameOrder
PROPERTY QuietAfterClose
PROPERTY ImplementsBroadcast
CHECK_DEADLOCK FALSE
