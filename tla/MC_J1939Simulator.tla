-------------------------- MODULE MC_J1939Simulator --------------------------
(* Two periodic PGNs, joined in the order opposite to their numbering, and *)
(* every kind of datagram; the five retries of the code.                   *)
EXTENDS J1939Simulator

MC_CyclicPGNs == {1, 2}
MC_SenderOrder == <<2, 1>>
=============================================================================
