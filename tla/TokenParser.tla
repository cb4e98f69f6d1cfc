---------------------------- MODULE TokenParser ----------------------------
(***************************************************************************)
(* The parser of scripts, shaders and vote options: a position in a text,  *)
(* from which words, strings and lines are taken.                          *)
(*                                                                         *)
(* The text is a sequence of symbols: the characters that mean something   *)
(* to the parser, and "a", "n" and "define" for (runs of) those that do    *)
(* not.  Positions count from 1, and end_p is the one after the last.      *)
(* The program reads one character behind the text in places: it is any of *)
(* Behind, and those after it are null characters.                         *)
(*                                                                         *)
(* A call moves a cursor [p, line, token, err], where err is the exception *)
(* it throws.  The names of a macro are kept with both dollars.  A macro   *)
(* whose text is an expression (EvaluateMacroString) is left out, and so   *)
(* is one whose text is empty.                                             *)
(***************************************************************************)
EXTENDS Integers, Sequences, FiniteSets

CONSTANTS
    Texts,      \* the texts to parse
    Behind,     \* what may follow a text in memory: a null for the texts of the network,
                \* anything for those of files
    MaxCalls    \* bound: calls of the user of the parser

SPACE == " "
EOL == "newline"
COMMA == ","
COMMENT == ";"
SPECIAL == "$"
SLASH == "/"
QUOTE == "quote"
ESCAPE == "backslash"
NUL == "null"
Alphabet == {SPACE, EOL, COMMA, COMMENT, SPECIAL, SLASH, QUOTE, ESCAPE, "a", "n", "define"}

ASSUME TextsAssumption == \A t \in Texts : t \in Seq(Alphabet)
ASSUME BehindAssumption == Behind \subseteq Alphabet \cup {NUL}
ASSUME CallsAssumption == MaxCalls \in Nat

VARIABLES
    text, behind,
    script_p, line, token, tokenready,
    macrolist,      \* the definitions: [name, text]
    mark,           \* of MarkPosition, if it was called
    result,         \* what the last call returned or threw, with where it started
    calls, failed   \* history: the number of calls, and whether one threw

vars == <<text, behind, script_p, line, token, tokenready, macrolist, mark, result, calls, failed>>

end_p == Len(text) + 1
Char(p) == IF p < end_p THEN text[p] ELSE IF p = end_p THEN behind ELSE NUL

Blank(ch) == ch \in {SPACE, EOL, NUL}
Separator(ch) == Blank(ch) \/ ch = COMMA

\* CheckOverflow
Throw(c, err) == [c EXCEPT !.err = err]
Overflown(c) == c.p >= end_p

AtComment(p) ==
    /\ p < end_p
    /\ \/ text[p] = COMMENT
       \/ p + 1 < end_p /\ text[p] = SLASH /\ text[p + 1] = SLASH

\* To the end of the line, which is not passed.
SkipToEOL(c) ==
    [c EXCEPT !.p = CHOOSE q \in c.p .. end_p \cup {c.p} :
                        /\ Char(q) = EOL \/ q >= end_p
                        /\ \A r \in c.p .. q - 1 : Char(r) # EOL]

RECURSIVE SkipWhiteSpace(_, _)
SkipWhiteSpace(c, crossline) ==
    IF Overflown(c) THEN Throw(c, "EndOfFile")
    ELSE IF ~Separator(Char(c.p)) THEN c
    ELSE IF Char(c.p) = EOL /\ ~crossline
    THEN [Throw(c, "LineIncomplete") EXCEPT !.p = @ + 1]
    ELSE SkipWhiteSpace([c EXCEPT !.p = @ + 1,
                                  !.line = IF Char(c.p) = EOL THEN @ + 1 ELSE @], crossline)

RECURSIVE SkipNonToken(_, _)
SkipNonToken(c, crossline) ==
    LET From(d) ==
            IF d.err = "none" /\ AtComment(d.p) THEN SkipNonToken(SkipToEOL(d), crossline) ELSE d
    IN  From(SkipWhiteSpace(c, crossline))

\* Whether there is a token: commas are not skipped here.  After a comment that ends the
\* text an end of line behind the text is passed as well.
RECURSIVE Available(_, _, _)
Available(c, crossline, eol) ==
    LET Pass(d) == [d EXCEPT !.p = @ + 1, !.line = IF Char(d.p) = EOL THEN @ + eol ELSE @]
        Skipped(d) ==
            IF Overflown(d) /\ Char(d.p) = EOL /\ crossline THEN [c |-> Pass(d), value |-> FALSE]
            ELSE Available(d, crossline, eol)
    IN  IF Overflown(c) \/ (Char(c.p) = EOL /\ ~crossline) THEN [c |-> c, value |-> FALSE]
        ELSE IF Blank(Char(c.p)) THEN Available(Pass(c), crossline, eol)
        ELSE IF AtComment(c.p) THEN Skipped(SkipToEOL(c))
        ELSE [c |-> c, value |-> TRUE]

\* As TokenAvailable, with the lines it crosses not counted.
TokenAvailableUncounted(c, crossline) == Available(c, crossline, 0)

\* As TokenAvailable, with a comment taken for the end.
TokenAvailableNoComment(c, crossline) ==
    LET a == Available(c, crossline, 0)
    IN  IF \E p \in c.p .. a.c.p : AtComment(p) THEN [a EXCEPT !.value = FALSE] ELSE a

TokenAvailable(c, crossline) == Available(c, crossline, 1)

----------------------------------------------------------------------------
(***************************************************************************)
(* Strings and words                                                       *)
(***************************************************************************)

Escaped(ch) == IF ch = "n" THEN <<EOL>> ELSE <<ch>>

\* In a string only the known escapes stand for something.
EscapedInString(ch) == IF ch \in {"n", QUOTE, ESCAPE} THEN Escaped(ch) ELSE <<>>

\* As Escapes, one character later.
EscapesAtEnd(p) == Char(p) = ESCAPE /\ p < end_p
\* A backslash that is the last character is itself.
Escapes(p) == Char(p) = ESCAPE /\ p < end_p - 1

\* The end of the text is looked for after each character, but not after the quote that
\* starts the string, nor after a line of a string of several lines.
RECURSIVE RestOfString(_, _, _)
RestOfString(c, escape, allowMultiLines) ==
    LET Taken(n, chars) ==
            LET d == [c EXCEPT !.p = @ + n, !.token = @ \o chars]
            IN  IF Overflown(d) THEN Throw(d, "EndOfFile")
                ELSE RestOfString(d, escape, allowMultiLines)
    IN  IF Char(c.p) = QUOTE THEN [c EXCEPT !.p = @ + 1]
        ELSE IF escape /\ Char(c.p) = EOL
        THEN IF ~allowMultiLines THEN Throw(c, "LineIncomplete")
             ELSE RestOfString([c EXCEPT !.p = @ + 1], escape, allowMultiLines)
        ELSE IF escape /\ Escapes(c.p) THEN Taken(2, EscapedInString(Char(c.p + 1)))
        ELSE Taken(1, <<Char(c.p)>>)

GetString(c, crossline, escape, allowMultiLines) ==
    LET From(d) ==
            IF d.err # "none" THEN d
            ELSE IF Char(d.p) # QUOTE THEN Throw(d, "ExpectedToken")
            ELSE RestOfString([d EXCEPT !.p = @ + 1, !.token = <<>>], escape, allowMultiLines)
    IN  From(SkipNonToken(c, crossline))

RECURSIVE RestOfWord(_)
RestOfWord(c) ==
    IF c.p = end_p \/ Separator(Char(c.p)) \/ AtComment(c.p) THEN c
    ELSE IF Escapes(c.p)
    THEN RestOfWord([c EXCEPT !.p = @ + 2, !.token = @ \o Escaped(Char(c.p + 1))])
    ELSE RestOfWord([c EXCEPT !.p = @ + 1, !.token = Append(@, Char(c.p))])

GrabNextToken(c, crossline) ==
    LET From(d) ==
            IF d.err # "none" THEN d
            ELSE IF Char(d.p) = QUOTE THEN GetString(d, crossline, TRUE, FALSE)
            ELSE RestOfWord([d EXCEPT !.token = <<>>])
    IN  From(SkipNonToken(c, crossline))

\* What is left of the line.
RestOfLine(d) ==
    LET e == SkipToEOL(d)
    IN  IF d.err # "none" THEN d ELSE [e EXCEPT !.token = SubSeq(text, d.p, e.p - 1)]

GetLine(c, crossline) == RestOfLine(SkipNonToken(c, crossline))
GetRaw(c) == RestOfLine(SkipWhiteSpace(c, TRUE))

----------------------------------------------------------------------------
(***************************************************************************)
(* Macros.  A reading is a cursor with the macros, and value, what GetToken*)
(* returns.                                                                *)
(***************************************************************************)

DefineWord == <<SPECIAL, "define">>
\* A word was read.
Word(r, c) == [r EXCEPT !.c = c, !.value = c.token]
EndsInSpecial(word) == word # <<>> /\ word[Len(word)] = SPECIAL

Macros(list, name) == {i \in DOMAIN list : list[i].name = name}

\* The text of the first definition of the name.
GetMacroString(r, name) ==
    IF Macros(r.list, name) = {} THEN [r EXCEPT !.c = Throw(@, "NoMacroTextFound")]
    ELSE LET first == CHOOSE i \in Macros(r.list, name) :
                        \A j \in Macros(r.list, name) : i <= j
         IN  [r EXCEPT !.value = r.list[first].text]

\* A name, and a text that may be a macro itself.
AddMacroDefinition(r, crossline) ==
    LET Define(r2, name) ==
            IF r2.c.err # "none" THEN r2
            ELSE [r2 EXCEPT !.list = Append(@, [name |-> <<SPECIAL>> \o name \o <<SPECIAL>>,
                                                text |-> r2.value])]
        Expand(r1) ==
            IF EndsInSpecial(r1.value) THEN GetMacroString(r1, r1.value) ELSE r1
        Named(c) ==
            IF c.err # "none" THEN [r EXCEPT !.c = c]
            ELSE Define(Expand(Word(r, GrabNextToken(c, crossline))), c.token)
    IN  Named(GrabNextToken(r.c, crossline))

\* Looks at the next token, on whatever line it is.
isMacro(c) ==
    LET At(d) == [c |-> d, value |-> d.err = "none" /\ Char(d.p) = SPECIAL]
        From(available) == IF available.value THEN At(SkipNonToken(available.c, TRUE))
                           ELSE available
    IN  From(TokenAvailable(c, TRUE))

\* The token at the cursor.  Definitions are made on the way, and the token after one is
\* looked at even when it is not a macro.
RECURSIVE Grab(_, _, _)
Grab(r, crossline, again) ==
    LET Defined(r2) == IF r2.c.err # "none" THEN r2 ELSE Grab(r2, crossline, TRUE)
        Expand(r1, isMac) ==
            IF r1.c.err # "none" THEN r1
            ELSE IF (isMac \/ again) /\ r1.value = DefineWord
            THEN Defined(AddMacroDefinition(r1, crossline))
            ELSE IF isMac /\ EndsInSpecial(r1.value) THEN GetMacroString(r1, r1.value)
            ELSE r1
        From(macro) ==
            Expand(Word(r, IF macro.c.err # "none" THEN macro.c
                           ELSE GrabNextToken(macro.c, crossline)), macro.value)
    IN  From(isMacro(r.c))

GetToken(r, crossline) == Grab(r, crossline, FALSE)

----------------------------------------------------------------------------
(***************************************************************************)
(* The calls                                                               *)
(***************************************************************************)

NotCalled == [call |-> "none", err |-> "none", value |-> <<>>, from |-> 1]

Init ==
    /\ text \in Texts /\ behind \in Behind
    /\ script_p = 1 /\ line = 1 /\ token = <<>> /\ tokenready = FALSE
    /\ macrolist = <<>>
    /\ mark = [set |-> FALSE]
    /\ result = NotCalled
    /\ calls = 0 /\ failed = FALSE

Cursor == [p |-> script_p, line |-> line, token |-> token, err |-> "none"]

Reading == [c |-> Cursor, list |-> macrolist, value |-> <<>>]

Called == calls < MaxCalls /\ calls' = calls + 1 /\ UNCHANGED <<text, behind>>

Returns(name, c, value) ==
    /\ script_p' = c.p /\ line' = c.line /\ token' = c.token
    /\ result' = [call |-> name, err |-> c.err, value |-> value, from |-> script_p]
    /\ failed' = (failed \/ c.err # "none")

\* A token that was given back is returned again.
ReturnsReady(name) ==
    /\ tokenready /\ tokenready' = FALSE
    /\ Returns(name, Cursor, token)
    /\ UNCHANGED <<macrolist, mark>>

CallGetToken(crossline) ==
    /\ Called
    /\ \/ ReturnsReady("Ready")
       \/ \E r \in {GetToken(Reading, crossline)} :
            /\ ~tokenready
            /\ Returns(IF crossline THEN "GetToken" ELSE "GetTokenOnLine", r.c, r.value)
            /\ macrolist' = r.list
            /\ UNCHANGED <<tokenready, mark>>

CallGetString(crossline, escape, allowMultiLines) ==
    /\ Called
    /\ \/ ReturnsReady("Ready")
       \/ \E c \in {GetString(Cursor, crossline, escape, allowMultiLines)} :
            /\ ~tokenready
            /\ Returns("GetString", c, c.token)
            /\ UNCHANGED <<tokenready, macrolist, mark>>

CallGetLine(crossline) ==
    /\ Called
    /\ \/ ReturnsReady("Ready")
       \/ \E c \in {GetLine(Cursor, crossline)} :
            /\ ~tokenready
            /\ Returns("GetLine", c, c.token)
            /\ UNCHANGED <<tokenready, macrolist, mark>>

\* A token that was given back is not looked at.
CallGetRaw ==
    \E c \in {GetRaw(Cursor)} :
        /\ Called
        /\ Returns("GetRaw", c, c.token)
        /\ UNCHANGED <<tokenready, macrolist, mark>>

CallTokenAvailable(crossline) ==
    \E a \in {TokenAvailable(Cursor, crossline)} :
        /\ Called
        /\ Returns(CASE a.value -> "Available"
                     [] ~a.value /\ crossline -> "NotAvailable"
                     [] OTHER -> "NotOnLine", a.c, <<>>)
        /\ UNCHANGED <<tokenready, macrolist, mark>>

\* AtString, AtOpenParen, AtCloseParen, AtComma, AtDot and AtAssignment move alike, and
\* tell what the character is; that it is a comma they cannot tell, for commas are skipped.
CallAt(crossline) ==
    \E c \in {SkipNonToken(Cursor, crossline)} :
        /\ Called
        /\ Returns("At", c, <<>>)
        /\ UNCHANGED <<tokenready, macrolist, mark>>

CallSkipToEOL ==
    /\ Called
    /\ Returns("SkipToEOL", SkipToEOL(Cursor), <<>>)
    /\ UNCHANGED <<tokenready, macrolist, mark>>

UnGetToken ==
    /\ Called
    /\ tokenready' = TRUE
    /\ result' = IF result.call = "GetToken" /\ result.err = "none"
                 THEN [result EXCEPT !.call = "UnGet"] ELSE NotCalled
    /\ UNCHANGED <<script_p, line, token, macrolist, mark, failed>>

MarkPosition ==
    /\ Called
    /\ mark' = [set |-> TRUE, tokenready |-> tokenready, offset |-> script_p,
                line |-> line, token |-> token]
    /\ UNCHANGED <<script_p, line, token, tokenready, macrolist, result, failed>>

\* The assertion that the mark is not behind the end is left out as in a release build, where
\* the position is moved to the end.  It fails for a mark made after an end of line behind the
\* text was passed.
RestorePosition ==
    /\ Called /\ mark.set
    /\ tokenready' = mark.tokenready /\ token' = mark.token /\ line' = mark.line
    /\ script_p' = IF mark.offset > end_p THEN end_p ELSE mark.offset
    /\ result' = NotCalled
    /\ UNCHANGED <<macrolist, mark, failed>>

Reset ==
    /\ Called
    /\ script_p' = 1 /\ line' = 1 /\ tokenready' = FALSE
    /\ result' = NotCalled
    /\ UNCHANGED <<token, macrolist, mark, failed>>

\* Reads tokens up to the one looked for; a token that was given back is the first.
RECURSIVE Specific(_, _, _)
Specific(r, word, ready) ==
    LET Compare(got) ==
            IF got.c.err # "none" \/ got.c.token = word
            THEN [r |-> got, ready |-> FALSE, value |-> got.c.err = "none"]
            ELSE Specific(got, word, FALSE)
        From(available, r1) ==
            IF ~available THEN [r |-> r1, ready |-> ready, value |-> FALSE]
            ELSE Compare(IF ready THEN r1 ELSE GetToken(r1, TRUE))
        Look(a) == From(a.value, [r EXCEPT !.c = a.c])
    IN  Look(TokenAvailable(r.c, TRUE))

GetSpecific(word) ==
    \E s \in {Specific(Reading, word, tokenready)} :
        /\ Called
        /\ Returns("Specific", s.r.c, s.value)
        /\ tokenready' = s.ready /\ macrolist' = s.r.list
        /\ UNCHANGED mark

\* Reads every line, and returns to where it was unless one of them throws.
RECURSIVE LinesFrom(_, _)
LinesFrom(c, n) ==
    LET Read(d) == IF d.err # "none" THEN [c |-> d, n |-> n] ELSE LinesFrom(d, n + 1)
        From(a) == IF a.value THEN Read(GetLine(a.c, TRUE)) ELSE [c |-> a.c, n |-> n]
    IN  From(TokenAvailable(c, TRUE))

LinesInFile ==
    \E lines \in {LinesFrom([p |-> 1, line |-> 1, token |-> token, err |-> "none"], 0)} :
        /\ Called
        /\ IF lines.c.err = "none"
           THEN Returns("Lines", Cursor, lines.n) /\ UNCHANGED tokenready
           ELSE Returns("Lines", lines.c, lines.n) /\ tokenready' = FALSE
        /\ UNCHANGED <<macrolist, mark>>

Next ==
    \/ \E crossline \in BOOLEAN :
        \/ CallGetToken(crossline) \/ CallGetLine(crossline)
        \/ CallTokenAvailable(crossline) \/ CallAt(crossline)
        \/ \E escape, allowMultiLines \in BOOLEAN :
              CallGetString(crossline, escape, allowMultiLines)
    \/ CallGetRaw \/ CallSkipToEOL \/ UnGetToken \/ MarkPosition \/ RestorePosition
    \/ Reset \/ LinesInFile \/ GetSpecific(<<"a">>)

Spec == Init /\ [][Next]_vars

----------------------------------------------------------------------------
(***************************************************************************)
(* What a text means, without a cursor                                     *)
(***************************************************************************)

Smallest(S) == CHOOSE i \in S : \A j \in S : i <= j

\* Position i belongs to a comment that starts at f or after it.
Commented(f, i) == \E j \in f .. i : AtComment(j) /\ \A k \in j .. i : text[k] # EOL

\* Where the words after f may start.
WordStarts(f) == {i \in f .. Len(text) : ~Separator(text[i]) /\ ~Commented(f, i)}

\* The character at k follows an odd number of backslashes, counted from i.
IsEscaped(i, k) ==
    \E n \in 1 .. k - i :
        /\ n % 2 = 1 /\ \A j \in k - n .. k - 1 : text[j] = ESCAPE
        /\ k - n = i \/ text[k - n - 1] # ESCAPE

\* The characters from i to k, with what the escapes stand for.
RECURSIVE Meaning(_, _, _)
Meaning(i, k, InString) ==
    IF k < i THEN <<>>
    ELSE Meaning(i, k - 1, InString) \o
            (IF IsEscaped(i, k) THEN (IF InString THEN EscapedInString(text[k])
                                                  ELSE Escaped(text[k]))
             ELSE IF text[k] = ESCAPE /\ k < Len(text) THEN <<>> ELSE <<text[k]>>)

WordAt(i) ==
    LET Ends(k) == ~IsEscaped(i, k) /\ (Separator(text[k]) \/ AtComment(k))
        last == Smallest({k \in i .. end_p : k = end_p \/ Ends(k)}) - 1
    IN  [err |-> "none", value |-> Meaning(i, last, FALSE)]

StringAt(i) ==
    LET ends == {k \in i + 1 .. Len(text) : ~IsEscaped(i + 1, k) /\ text[k] \in {QUOTE, EOL}}
        last == Smallest(ends)
    IN  IF ends = {} THEN [err |-> "EndOfFile", value |-> <<>>]
        ELSE IF text[last] = EOL THEN [err |-> "LineIncomplete", value |-> <<>>]
        ELSE [err |-> "none", value |-> Meaning(i + 1, last - 1, TRUE)]

TokenAfter(f) ==
    LET i == Smallest(WordStarts(f))
    IN  IF WordStarts(f) = {} THEN [err |-> "EndOfFile", value |-> <<>>]
        ELSE IF text[i] = QUOTE THEN StringAt(i) ELSE WordAt(i)

\* The next token starts with a quote that is the last character, and another character
\* than a null follows the text.
OpensAtTheEnd(f) ==
    /\ WordStarts(f) # {} /\ Smallest(WordStarts(f)) = Len(text)
    /\ text[Len(text)] = QUOTE /\ behind # NUL

LinesBefore(p) == Cardinality({i \in 1 .. p - 1 : Char(i) = EOL})
Plain(symbols) == \A i \in DOMAIN text : text[i] \notin symbols

----------------------------------------------------------------------------
(***************************************************************************)
(* Properties                                                              *)
(***************************************************************************)

\* GetToken returns the next word or string of the text, across lines and comments and
\* with its escapes, wherever the calls before it left the parser; or the exception that
\* belongs to it.  It does so whatever lies behind the text, except for a string that starts
\* with the last character of it.
TokensAreTheWords ==
    result.call = "GetToken" /\ Plain({SPECIAL}) /\ ~OpensAtTheEnd(result.from) =>
        LET expected == TokenAfter(result.from)
        IN  /\ result.err = expected.err
            /\ result.err = "none" => result.value = expected.value

\* TokenAvailable(true) says no only when no word of the text is left behind the position,
\* past whatever lines and comments.  A token that was given back is not one of
\* these: it lies before the position, and TokenAvailable does not look at tokenready.  So a
\* loop that stops here has left no word unread, but may have left one that it gave back.
NothingLeftUnread == result.call = "NotAvailable" => WordStarts(result.from) = {}

\* The number of the line is that of the position, until a call throws; strings and
\* escapes may hold lines that are not counted.  A mark behind the text is restored to the
\* end of it, with the line of the mark.
LineIsThePositions ==
    ~failed /\ Plain({QUOTE, ESCAPE}) =>
        \/ line = 1 + LinesBefore(script_p)
        \/ script_p = end_p /\ mark.set /\ mark.offset > end_p /\ line = mark.line

\* "while (parser.TokenAvailable(true))": a token that is available can be read.
AvailableMeansToken == result.call = "Available" => WordStarts(script_p) # {}

\* A token that is read with crossline off is on the line where the parser stood.
StaysOnTheLine ==
    result.call = "GetTokenOnLine" /\ result.err = "none" /\ Plain({QUOTE, ESCAPE, SPECIAL}) =>
        LinesBefore(script_p) = LinesBefore(result.from)

\* "Signals that the current token was not used, and should be reported for the next
\* GetToken."
UngetIsReported == [][result.call = "UnGet" /\ result'.call = "Ready" =>
                        result'.value = result.value]_vars

\* "while (parser.TokenAvailable(true))", with "parser.UnGetToken();" in its body: the
\* loop ends when there is no token for GetToken to return, a given back one included.
GivenBackIsAvailable == result.call = "NotAvailable" => ~tokenready
=============================================================================
