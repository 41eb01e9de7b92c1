CONSTANTS
    SIDs <- MC_SIDs
    Params <- MC_Params
    RawTable <- MC_RawTable
    RdbiTable <- MC_RdbiTable
SPECIFICATION FairSpec
INVARIANTS TypeOK SessionTimeoutArmed
PROPERTIES SessionTimeoutRefined SessionEventuallyExpires
