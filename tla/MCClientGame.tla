---------------------------- MODULE MCClientGame ----------------------------
(***************************************************************************)
(* Model-checking instance of ClientGame: an entity leaves and another     *)
(* comes, while the client is active or is not.                            *)
(***************************************************************************)
EXTENDS ClientGame

MCScenes == {[active |-> TRUE, ents |-> {0}], [active |-> TRUE, ents |-> {1}],
             [active |-> FALSE, ents |-> {1}]}
=============================================================================
