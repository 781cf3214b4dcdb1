------------------------------- MODULE MCArena -------------------------------
(* Small instances of Arena. *)
EXTENDS Arena

MCBases == {8, 12}
MCRequests == [size : {0, 1, 3}, align : {0, 1, 2, 4}, count : {0, 1, 2}]
==============================================================================
