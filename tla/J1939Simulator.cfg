CONSTANTS
    CyclicPGNs <- MC_CyclicPGNs
    SenderOrder <- MC_SenderOrder
    Messages <- Message
    MaxRetries = 5
SPECIFICATION FairSpec
INVARIANTS
    TypeOK
    WaitEndsAfterThreads
PROPERTY SendersStopOnExit
