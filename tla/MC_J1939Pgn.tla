----------------------------- MODULE MC_J1939Pgn -----------------------------
(* A script with one cyclic PGN 0xFEEE written twice, with and without      *)
(* blanks, a key with a PGN of 16 in six hex digits, and a key whose cycle  *)
(* time is 0; tree answers of the three kinds; requests of up to three      *)
(* bytes on 0xEA00 and on 0xFEEE.                                           *)
EXTENDS J1939Pgn, TLC

MC_Bytes == {0, 16, 238, 254}
MC_Pgns == {59904, 65262}
MC_SrcAddrs == {49}

MC_PGNTable ==
       <<"E", "E", " ", "F", "E", " ", "0", "0">> :> [payload |-> <<"0", "1", " ", "0", "2">>, cycleTime |-> 1]
    @@ <<"E", "E", "F", "E", "0", "0">> :> [payload |-> <<"0", "3">>, cycleTime |-> 1]
    @@ <<"1", "0", "0", "0", "0", "0">> :> [payload |-> <<"A", "A", " ", "B", "B">>, cycleTime |-> 1]
    @@ <<"0", "0", " ", "E", "E", " ", "0", "0">> :> [payload |-> <<"0", "4">>, cycleTime |-> 0]

MC_Responses ==
    { <<>>,
      <<"A", "C", "K", " ", "0", "1", " ", "0", "2">>,
      <<"A", "C", "K">>,
      <<"F", "E", " ", "E", "E", " ", "0", "0", "#", "0", "1">>,
      <<"0", "1", " ", "0", "2">>,
      <<"0", "1", " ", "0", "2", " ", "0", "3", " ", "0", "4", "#", "0", "5">> }

\* Keys as users write PGNs that spec 4.6 reads otherwise, and a decimal
\* key a two-byte request reaches.
MC_PGNTableQuirks ==
       <<"1", "2", " ", "E", "F">> :> [payload |-> <<"0", "1">>, cycleTime |-> 1]
    @@ <<"E", "E", ".", "F", "E", ".", "0", "0">> :> [payload |-> <<"0", "2">>, cycleTime |-> 1]
    @@ <<"1", "0", "0", "0">> :> [payload |-> <<"0", "3">>, cycleTime |-> 1]
====
