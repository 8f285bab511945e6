\* Does a replica keep its subscription?
CONSTANTS
    p1 = p1
    m1 = m1
    m2 = m2
    Replicas <- OneReplica
    Messages <- TwoMessages
    MaxLosses = 2
    MaxRestarts = 1
SPECIFICATION FairSpec
PROPERTY StaysSubscribed
\* Everything may have happened.
CHECK_DEADLOCK FALSE
