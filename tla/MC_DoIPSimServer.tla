--------------------------- MODULE MC_DoIPSimServer ---------------------------
EXTENDS DoIPSimServer, TLC

CONSTANTS A1, A2, A3, R1, R2, NoAddr

\* An ECU file with address A1 before doipserver.lua, and two after it, one
\* with the same address A1; A3 is served by no ECU.
MC_Configs ==
    << [server |-> FALSE, addr |-> A1],
       [server |-> TRUE,  addr |-> NoAddr],
       [server |-> FALSE, addr |-> A1],
       [server |-> FALSE, addr |-> A2] >>

MC_Addrs == {A1, A2, A3}

MC_Requests == {R1, R2}

\* The first A1 ECU matches R1 only; the second matches both; the A2 ECU
\* answers R1 with the empty string and matches nothing else.
MC_RawResponse ==
    ( 1 :> (R1 :> "bytes" @@ R2 :> "none") )
    @@ ( 3 :> (R1 :> "bytes" @@ R2 :> "bytes") )
    @@ ( 4 :> (R1 :> "empty" @@ R2 :> "none") )

\* doipserver.lua: without EID (so EIDflag) and with a GID written in hex;
\* without a Main table; with a non-numeric EID.
MC_DoipFiles ==
    { [exists |-> TRUE, main |-> TRUE, keys |-> {"VIN"},
       eid |-> "", gid |-> "0x-hex"],
      [exists |-> TRUE, main |-> FALSE, keys |-> {}, eid |-> "", gid |-> ""],
      [exists |-> TRUE, main |-> TRUE, keys |-> {}, eid |-> "junk", gid |-> ""] }
=============================================================================
