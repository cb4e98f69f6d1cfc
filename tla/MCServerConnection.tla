------------------------- MODULE MCServerConnection -------------------------
(***************************************************************************)
(* Small instances of ServerConnection.                                    *)
(***************************************************************************)
EXTENDS ServerConnection

\* One message per way of ending, alone or in the middle of a longer one.
MCMessages ==
    { <<"gamestate", "snapshot", "cgmessage">>, <<"print", "command">>,
      <<"kick", "snapshot">>, <<"illegible", "nop">>, <<"nop", "truncated">> }

=============================================================================
