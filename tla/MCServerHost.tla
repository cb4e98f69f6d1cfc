----------------------------- MODULE MCServerHost -----------------------------
(***************************************************************************)
(* Model-checking instances of ServerHost.                                 *)
(***************************************************************************)
EXTENDS ServerHost, TLC

AddressSymmetry == Permutations(Addresses)
=============================================================================
