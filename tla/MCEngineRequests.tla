--------------------------- MODULE MCEngineRequests ---------------------------
(***************************************************************************)
(* Model-checking instances of EngineRequests.                             *)
(***************************************************************************)
EXTENDS EngineRequests

\* A status and an info are queued behind a connection; a second connection behind the first.
MCConnectThenStatus == <<"connect", "status", "info">>
MCConnectTwice == <<"connect", "connect">>
=============================================================================
