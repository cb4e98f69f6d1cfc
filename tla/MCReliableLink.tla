--------------------------- MODULE MCReliableLink ---------------------------
(***************************************************************************)
(* Small instances of ReliableLink: a ring of two commands stands for the  *)
(* ring of 64, and enough commands to go round it.                         *)
(***************************************************************************)
EXTENDS ReliableLink, TLC

CommandSymmetry == Permutations(Commands)

=============================================================================
