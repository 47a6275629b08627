----------------------------- MODULE CommandLine -----------------------------
(***************************************************************************)
(* How a pool writes the command line of its processes (ProcessPool.cpp:   *)
(* EscapeArgument, the constructor and CreateProcess) and how Windows and  *)
(* the C runtime read it.  A string is a sequence of characters, and a     *)
(* character is its class, as far as either side looks.                    *)
(***************************************************************************)
EXTENDS Naturals, SequencesExt

\* The characters above 255, told apart by their low byte.
Wide == {"wide letter", "wide space", "wide quote", "wide backslash", "wide nul"}

\* "space" is any of " \t\n\v", and "letter" any other character up to 255.
Characters == {"letter", "space", "quote", "backslash"} \cup Wide

Backslashes(n) == [i \in 1 .. n |-> "backslash"]

-----------------------------------------------------------------------------
(* Writing. *)

\* Mutant of Escapes: backslashes before a quote are copied only.
EscapesOfQuote(character, n) == IF character = "quote" THEN n + 1 ELSE n

\* n backslashes that precede a character: only a quote makes a difference to them.
Escapes(character, n) == IF character = "quote" THEN 2 * n + 1 ELSE n

\* One turn of the loop: backslashes are held back until it is known what they precede.
EscapeNext(walk, character) ==
    IF character = "backslash"
    THEN [walk EXCEPT !.num_backslashes = @ + 1]
    ELSE [escaped |-> walk.escaped \o Backslashes(Escapes(character, walk.num_backslashes))
                                   \o <<character>>,
          num_backslashes |-> 0]

\* Those left at the end precede the closing quote.
Quoted(argument) ==
    LET walk == FoldLeft(EscapeNext, [escaped |-> <<"quote">>, num_backslashes |-> 0],
                         argument)
    IN  walk.escaped \o Backslashes(2 * walk.num_backslashes) \o <<"quote">>

EscapeArgument(argument) ==
    IF ToSet(argument) \cap {"space", "quote"} = {} THEN argument ELSE Quoted(argument)

\* A wchar_t as a char.
LowByte(character) ==
    CASE character \in {"letter", "wide letter"}       -> "letter"
      [] character \in {"space", "wide space"}         -> "space"
      [] character \in {"quote", "wide quote"}         -> "quote"
      [] character \in {"backslash", "wide backslash"} -> "backslash"
      [] character = "wide nul"                        -> "nul"

\* The copy into a vector<char> keeps the low byte of a character, and the first NUL ends
\* what ::CreateProcess reads of it.
Narrow(line) ==
    LET bytes == [i \in DOMAIN line |-> LowByte(line[i])]
        nuls  == {i \in DOMAIN line : LowByte(line[i]) = "nul"}
    IN  SubSeq(bytes, 1, IF nuls = {} THEN Len(line) ELSE Min(nuls) - 1)

\* What ::CreateProcess is given; the arguments are taken to be escaped already.
CommandLine(executable, arguments) ==
    Narrow(EscapeArgument(executable) \o <<"space">> \o arguments)

-----------------------------------------------------------------------------
(* Reading (external). *)

\* The parsing rules of an argument: 2n backslashes and a quote are n backslashes and a
\* delimiter, 2n+1 are n and a quote, and others are themselves.  The first space
\* outside of quotes ends it.
ReadNext(parse, character) ==
    LET literal == parse.argument \o Backslashes(parse.backslashes) IN
    IF parse.ended THEN
        [parse EXCEPT !.rest = Append(@, character)]
    ELSE IF character = "backslash" THEN
        [parse EXCEPT !.backslashes = @ + 1]
    ELSE IF character = "quote" THEN
        LET half == parse.argument \o Backslashes(parse.backslashes \div 2) IN
        IF parse.backslashes % 2 = 1
        THEN [parse EXCEPT !.argument = Append(half, "quote"), !.backslashes = 0]
        ELSE [parse EXCEPT !.argument = half, !.backslashes = 0, !.quoted = ~@]
    ELSE IF character = "space" /\ ~parse.quoted THEN
        [parse EXCEPT !.argument = literal, !.backslashes = 0, !.ended = TRUE]
    ELSE
        [parse EXCEPT !.argument = Append(literal, character), !.backslashes = 0]

\* The first argument of a line and what follows it.
FirstArgument(line) ==
    FoldLeft(ReadNext, [argument |-> <<>>, backslashes |-> 0, quoted |-> FALSE,
                        ended |-> FALSE, rest |-> <<>>], line)

\* The name of the program follows a rule of its own: it goes up to the next quote if it
\* starts with one, up to the first space otherwise, and a backslash is a backslash.
ProgramName(line) ==
    LET quoted == line[1] = "quote"
        from   == IF quoted THEN 2 ELSE 1
        stop   == IF quoted THEN "quote" ELSE "space"
    IN  SubSeq(line, from, SelectInSubSeq(line, from, Len(line), LAMBDA ch : ch = stop) - 1)

=============================================================================
