--------------------------- MODULE MC_PatternTree ---------------------------
(* Model-checking instance of PatternTree: two byte values, keys of up to *)
(* two units, Lua tables of up to three keys, requests of up to two bytes. *)
EXTENDS PatternTree

MC_Bytes == {0, 1}
=============================================================================
