------------------------------- MODULE MCArena -------------------------------
(***************************************************************************)
(* Arenas of up to three adjacent 80-byte regions. The requests need       *)
(* rounding up or not, fill a chunk exactly, or leave an unusable tail.    *)
(***************************************************************************)
EXTENDS ArenaProps

MCRegions  == {0, 80, 160}
MCRequests == {1, 16, 27, 48}
==============================================================================
