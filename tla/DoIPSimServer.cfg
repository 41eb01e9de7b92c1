CONSTANTS
    A1 = A1
    A2 = A2
    A3 = A3
    R1 = R1
    R2 = R2
    NoAddr = NoAddr
    Configs <- MC_Configs
    Addrs <- MC_Addrs
    NoEcu <- NoAddr
    Requests <- MC_Requests
    RawResponse <- MC_RawResponse
    MaxConns = 2
    MaxMsgs = 2
    DoipFiles <- MC_DoipFiles
SPECIFICATION Spec
INVARIANTS
    TypeOK
    ResponseFromFirstEcu
    AckedMessageAnswered
PROPERTY
    RoutingStable
    ExchangeRefined
