------------------------- MODULE MCServerSnapshots -------------------------
(***************************************************************************)
(* Small instances of ServerSnapshots: two entities, and rings small       *)
(* enough to be overwritten by the messages sent.                          *)
(***************************************************************************)
EXTENDS ServerSnapshots, TLC

Both == (0 :> <<0, 1>>) @@ (1 :> <<1, 0>>)
First == 0 :> <<1, 1>>
Second == 1 :> <<1, 1>>
Nothing == <<>>

\* Entities that appear, change and go away.
MCFrames == {Both, First, Second}
\* There may be nothing in sight.
MCFramesWithNothing == {Both, Second, Nothing}

=============================================================================
