CONSTANTS
    CyclicPGNs <- MC_CyclicPGNs
    SenderOrder <- MC_SenderOrder
    Messages <- Message
    MaxRetries = 5
SPECIFICATION Spec
INVARIANT DeletedOnceAfterThreads
