------------------------- MODULE MCIdentityCommands -------------------------
(* Finite instances of IdentityCommands for TLC.  No symmetry is declared: the runs   *)
(* check liveness.                                                         *)
EXTENDS IdentityCommands, TLC
=============================================================================
