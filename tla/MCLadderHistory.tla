-------------------------- MODULE MCLadderHistory --------------------------
(* The machines of MCLadder with the history variables of LadderHistory.   *)
EXTENDS MCLadder, LadderHistory
=============================================================================
