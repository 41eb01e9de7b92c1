CONSTANTS
    Bytes <- MC_Bytes
    MaxReqLen = 3
    Pgns <- MC_Pgns
    SrcAddrs <- MC_SrcAddrs
    PGNTable <- MC_PGNTableQuirks
    Responses <- MC_Responses
INIT Init
NEXT Next
INVARIANT ParsePGNAsSpecified
