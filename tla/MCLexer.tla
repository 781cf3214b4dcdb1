------------------------------- MODULE MCLexer -------------------------------
(* Small instances of Lexer: every file up to a length over the characters    *)
(* that matter for one part of the lexer each.                                *)
EXTENDS Lexer, TLC

MCSpaces == {" "}
MCLetters == {"a", "i", "n", "x"}
MCDigits == {"0", "1"}
MCHexLetters == {"a"}
MCDigitValue == "0" :> 0 @@ "1" :> 1 @@ "a" :> 10
MCOthers == {"#"}
MCKeywords == {<<"i", "n">>}

Files(S, n) == UNION {[1 .. k -> S] : k \in 0 .. n}

\* Text, white space, and comments with and without newlines.
Pieces == {<<"a">>, <<" ">>, <<NL>>, <<"/", "*", "*", "/">>, <<"/", "*", NL, "*", "/">>}

\* Comments, nested or not, and newlines; literals, words and operators;
\* strings and directives over several lines; #! lines; several comments in
\* a file; and more tokens than the arena has room for.
MCInputs ==
    Files({NL, "/", "*", "a"}, 6) \cup Files({"0", "1", "x", "a", ".", "="}, 4)
    \cup Files({"i", "n", "%", "_", NL}, 4) \cup Files({Quote, NL, "%", "a", " "}, 5)
    \cup {<<"#", "!">> \o f : f \in Files({"a", NL, "#"}, 3)}
    \cup {q \o r \o s \o t : q \in Pieces, r \in Pieces, s \in Pieces, t \in Pieces}
    \cup {[i \in 1 .. 7 |-> NL]}

ShebangInputs ==
    {<<"#", "!">> \o f : f \in Files({"a", NL, "#"}, 4)} \cup Files({"#", "!", NL}, 4)
==============================================================================
