---------------------------- MODULE MCBitStream ----------------------------
(***************************************************************************)
(* A small instance of BitStream: bytes of two bits and a buffer of eight  *)
(* of them, as in CompressedMessage, or of four, for which codes can be    *)
(* too long.                                                               *)
(***************************************************************************)
EXTENDS BitStream

MCTraining == <<0, 0, 0, 0, 1, 2, 2, 3>>
MCBufferBytes == [f \in Formats |-> IF f = "compressed" THEN {4, 8} ELSE {8}]
MCMaxValues == [f \in Formats |-> CASE f = "bits" -> 4 [] f = "oob" -> 6 [] OTHER -> 6]
=============================================================================
