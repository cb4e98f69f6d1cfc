--------------------------- MODULE MCTokenParser ---------------------------
(***************************************************************************)
(* Every text of at most MaxLength symbols, and some longer ones.          *)
(***************************************************************************)
EXTENDS TokenParser

CONSTANT MaxLength

\* Characters that end a string or a line, or nothing.
MCBehind == {NUL, QUOTE, EOL}

ShortTexts == UNION {[1 .. n -> Alphabet \ {SPECIAL, "n", "define"}] : n \in 0 .. MaxLength}

\* "$define a n", then a word.
Define == <<SPECIAL, "define", SPACE, "a", SPACE, "n", EOL>>
MacroTexts ==
    {Define \o rest : rest \in {
        <<>>, <<"a">>, <<SPECIAL, "a", SPECIAL>>, <<SPECIAL, "a", SPECIAL, SPACE, "a">>,
        <<SPECIAL, "n", SPECIAL>>, <<SPECIAL>>, <<QUOTE, SPECIAL, "a", SPECIAL, QUOTE>>,
        <<SPECIAL, "define", SPACE, "n", SPACE, SPECIAL, "a", SPECIAL, SPACE,
          SPECIAL, "n", SPECIAL>>}}

\* Escapes and comments next to words and strings.
LongTexts ==
    {<<ESCAPE, "n">>, <<QUOTE, ESCAPE, "n", QUOTE>>, <<QUOTE, ESCAPE, QUOTE, QUOTE, "a">>,
     <<QUOTE, "a", SLASH, SLASH, QUOTE, "a">>, <<QUOTE, "a", COMMA, QUOTE, EOL, "a">>,
     <<QUOTE, ESCAPE, EOL, QUOTE, EOL, "a">>, <<"a", SLASH, SLASH, "a", EOL, "a">>,
     <<"a", ESCAPE, SPACE, "a", COMMENT, "a">>, <<"a", ESCAPE, ESCAPE, SPACE, "a">>,
     <<"a", ESCAPE, SLASH, SLASH, "a">>, <<"a", EOL, COMMA, EOL, COMMENT, EOL, "a", EOL>>,
     <<"a", SPACE, "a", EOL, EOL, "a", ESCAPE>>}

MCTexts == ShortTexts \cup MacroTexts \cup LongTexts
=============================================================================
