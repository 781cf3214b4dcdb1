-------------------------------- MODULE Lexer --------------------------------
(***************************************************************************)
(* The lexer of src/lexer.c, driven by compiler_lex_file (src/compiler.c): *)
(* it skips a #! line, then calls lex_next until the end of the input and  *)
(* stores each token in a buffer that doubles when it is full.             *)
(*                                                                         *)
(* The input is a sequence of characters; only the characters the lexer    *)
(* tells apart matter, so that an instance needs a few of each class. All  *)
(* operators are one token type: their text tells which.                   *)
(*                                                                         *)
(* A definition whose comment begins with "Fault" is not the code: it is   *)
(* the code with a plausible bug, kept to show that the properties see it. *)
(***************************************************************************)
EXTENDS Numbers, FiniteSets

CONSTANTS Inputs,        \* the files to lex: sequences of characters
          Spaces,        \* is_space
          Letters,       \* is_alpha
          Digits,        \* is_digit
          HexLetters,    \* the letters is_hex_digit accepts
          Others,        \* characters no token begins with
          Keywords,      \* the words keyword_or_identifier knows
          InitialCap,    \* lexer->cap before the first token
          ArenaTokens    \* how many tokens the arena has room for

NL == "\n"
Quote == "\""
Eof == "eof"             \* lex_peek at the end of the input

Singles == {";", ",", "{", "}", "(", ")", "[", "]", "+", "-", "*", "/", "^", "?"}

\* The characters that may follow to make a two-character operator.
Second == [c \in {".", "=", "!", "<", ">", "|", "&", ":"} |->
              CASE c = "." -> {"."}      [] c = "=" -> {"=", ">"}
                [] c = "|" -> {"|", ">"} [] c = "&" -> {"&"}
                [] c = ":" -> {"=", ":"} [] OTHER  -> {"="}]

WordChars == Letters \cup Digits \cup {"_"}

Chars == Spaces \cup WordChars \cup Singles \cup DOMAIN Second
            \cup Others \cup {NL, Quote, "%"}

\* is_space, is_alpha and is_digit accept no character twice, nor one of those
\* lex_next compares with; what is_digit and is_hex_digit accept is a digit for
\* string_to_int64, too; the end of the input is no character of it (a NUL in a
\* file is left out).
ASSUME LexerAssumption ==
    /\ Inputs \subseteq Seq(Chars) /\ Eof \notin Chars
    /\ Letters \cap Digits = {} /\ HexLetters \subseteq Letters
    /\ (Spaces \cup Letters \cup Digits)
            \cap (Singles \cup DOMAIN Second \cup {NL, Quote, "%", "_", "#"}) = {}
    /\ Digits \subseteq DigitsOf(10) /\ HexLetters \subseteq DigitsOf(16)
    /\ {"x", "X"} \cap Digits = {}
    /\ InitialCap \in Nat \ {0} /\ ArenaTokens \in Nat

VARIABLES input,         \* lexer->input
          pos,           \* lexer->pos, counted from 1
          line,          \* lexer->line
          at_line_start, \* lexer->at_line_start
          pc,            \* where the lexer is, see Phases
          depth,         \* skip_block_comment's depth
          has_newline,   \* skip_block_comment's has_newline
          pending,       \* lex_next's has_newline_in_block_comment
          tokens,        \* lexer->tokens, lexer->size
          cap,           \* lexer->cap
          buffer,        \* tokens the buffer can hold; 0: there is none (NULL)
          room           \* tokens the rest of the arena can hold

vars == <<input, pos, line, at_line_start, pc, depth, has_newline, pending,
          tokens, cap, buffer, room>>
comment == <<depth, has_newline>>
store   == <<tokens, cap, buffer, room>>

Phases == {"shebang", "skip", "block", "done", "crashed"}

-----------------------------------------------------------------------------
Peek(i) == IF i <= Len(input) THEN input[i] ELSE Eof

\* while_lex: the end of the longest run of characters of S that starts at i.
RunEnd(i, S) == CHOOSE j \in i .. Len(input) + 1 :
                    /\ \A k \in i .. j - 1 : input[k] \in S
                    /\ Peek(j) \notin S

\* Where the operator, string, word, number or directive that starts at i ends:
\* the position of the character behind it.
OperatorEnd(i) ==
    IF input[i] \notin DOMAIN Second \/ Peek(i + 1) \notin Second[input[i]] THEN i + 1
    ELSE IF input[i] = "." /\ Peek(i + 2) = "=" THEN i + 3 ELSE i + 2

StringEnd(i) ==
    LET e == RunEnd(i + 1, Chars \ {Quote})
    IN  IF Peek(e) = Quote THEN e + 1 ELSE e

IsHex(i) == input[i] = "0" /\ Peek(i + 1) \in {"x", "X"}

NumberEnd(i) == IF IsHex(i) THEN RunEnd(i + 2, Digits \cup HexLetters)
                ELSE RunEnd(i + 1, Digits)

DirectiveEnd(i) == IF at_line_start THEN RunEnd(i + 1, WordChars) ELSE i + 1

\* The token at i: [type, end].
Scan(i) ==
    LET c == input[i]
        Tok(type, end) == [type |-> type, end |-> end]
    IN  CASE c = Quote -> Tok("STRING", StringEnd(i))
          [] c = "%" -> Tok(IF DirectiveEnd(i) > i + 1 THEN "CT_DIRECTIVE" ELSE "OPERATOR",
                            DirectiveEnd(i))
          [] c \in Letters \cup {"_"} ->
                Tok(IF SubSeq(input, i, RunEnd(i + 1, WordChars) - 1) \in Keywords
                    THEN "KEYWORD" ELSE "IDENT", RunEnd(i + 1, WordChars))
          [] c \in Digits -> Tok(IF IsHex(i) /\ NumberEnd(i) = i + 2 THEN "INVALID" ELSE "NUM",
                                 NumberEnd(i))
          [] c \in Singles \cup DOMAIN Second -> Tok("OPERATOR", OperatorEnd(i))
          [] OTHER -> Tok("INVALID", i + 1)

-----------------------------------------------------------------------------
Init ==
    /\ input \in Inputs
    /\ pos = 1 /\ line = 1 /\ at_line_start = TRUE
    /\ depth = 0 /\ has_newline = FALSE /\ pending = FALSE
    /\ tokens = << >> /\ cap = InitialCap
    /\ buffer = IF InitialCap <= ArenaTokens THEN InitialCap ELSE 0
    /\ room = ArenaTokens - buffer
    /\ pc = IF Len(input) > 2 /\ input[1] = "#" /\ input[2] = "!" THEN "shebang" ELSE "skip"

\* while (lex_peek(lexer) != '\n') lex_advance(lexer): at the end of the input
\* lex_peek never returns '\n' and lex_advance leaves pos alone.
Shebang ==
    /\ pc = "shebang"
    /\ IF Peek(pos) = NL THEN pc' = "skip" /\ pos' = pos
       ELSE /\ pos' = IF Peek(pos) = Eof THEN pos ELSE pos + 1
            /\ pc' = pc
    /\ UNCHANGED <<input, line, at_line_start, comment, pending, store>>

SkipSpace ==
    /\ pc = "skip" /\ Peek(pos) \in Spaces
    /\ pos' = pos + 1
    /\ UNCHANGED <<input, line, at_line_start, pc, comment, pending, store>>

AtLineComment  == Peek(pos) = "/" /\ Peek(pos + 1) = "/"
AtBlockComment == Peek(pos) = "/" /\ Peek(pos + 1) = "*"

LineComment ==
    /\ pc = "skip" /\ AtLineComment
    /\ pos' = RunEnd(pos + 2, Chars \ {NL})
    /\ UNCHANGED <<input, line, at_line_start, pc, comment, pending, store>>

\* Fault: has_newline keeps the value it had at the last comment.
BlockCommentKeepsFlag ==
    /\ pc = "skip" /\ AtBlockComment
    /\ pos' = pos + 2 /\ pc' = "block"
    /\ depth' = 1
    /\ UNCHANGED <<input, line, at_line_start, has_newline, pending, store>>

BlockComment ==
    /\ pc = "skip" /\ AtBlockComment
    /\ pos' = pos + 2 /\ pc' = "block"
    /\ depth' = 1 /\ has_newline' = FALSE
    /\ UNCHANGED <<input, line, at_line_start, pending, store>>

\* Fault: the loop goes on to the end of the input.
InCommentUnbounded ==
    /\ pc = "block" /\ Peek(pos) # Eof
    /\ LET closes == Peek(pos) = "*" /\ Peek(pos + 1) = "/"
       IN  /\ pos' = IF closes THEN pos + 2 ELSE pos + 1
           /\ depth' = IF closes THEN depth - 1 ELSE depth
    /\ has_newline' = (has_newline \/ Peek(pos) = NL)
    /\ line' = IF Peek(pos) = NL THEN line + 1 ELSE line
    /\ UNCHANGED <<input, at_line_start, pc, pending, store>>

\* Fault: newlines in comments are not counted.
InCommentUncounted ==
    /\ pc = "block" /\ Peek(pos) # Eof /\ depth > 0
    /\ LET opens  == AtBlockComment
           closes == Peek(pos) = "*" /\ Peek(pos + 1) = "/"
       IN  /\ pos' = IF opens \/ closes THEN pos + 2 ELSE pos + 1
           /\ depth' = IF opens THEN depth + 1 ELSE IF closes THEN depth - 1 ELSE depth
    /\ has_newline' = (has_newline \/ Peek(pos) = NL)
    /\ UNCHANGED <<input, line, at_line_start, pc, pending, store>>

\* Fault: the character behind the end of a comment is skipped with it.
InCommentTakesNext ==
    /\ pc = "block" /\ Peek(pos) # Eof /\ depth > 0
    /\ LET opens  == AtBlockComment
           closes == Peek(pos) = "*" /\ Peek(pos + 1) = "/"
       IN  /\ pos' = IF closes /\ depth = 1 /\ pos + 2 <= Len(input) THEN pos + 3
                     ELSE IF opens \/ closes THEN pos + 2 ELSE pos + 1
           /\ depth' = IF opens THEN depth + 1 ELSE IF closes THEN depth - 1 ELSE depth
    /\ has_newline' = (has_newline \/ Peek(pos) = NL)
    /\ line' = IF Peek(pos) = NL THEN line + 1 ELSE line
    /\ UNCHANGED <<input, at_line_start, pc, pending, store>>

\* One round of skip_block_comment's loop.
InComment ==
    /\ pc = "block" /\ Peek(pos) # Eof /\ depth > 0
    /\ LET opens  == AtBlockComment
           closes == Peek(pos) = "*" /\ Peek(pos + 1) = "/"
       IN  /\ pos' = IF opens \/ closes THEN pos + 2 ELSE pos + 1
           /\ depth' = IF opens THEN depth + 1 ELSE IF closes THEN depth - 1 ELSE depth
    /\ has_newline' = (has_newline \/ Peek(pos) = NL)
    /\ line' = IF Peek(pos) = NL THEN line + 1 ELSE line
    /\ UNCHANGED <<input, at_line_start, pc, pending, store>>

\* Fault: a comment without end is not given up at the end of the input.
CommentEndsClosed ==
    /\ pc = "block" /\ depth = 0
    /\ pc' = "skip" /\ pending' = has_newline
    /\ UNCHANGED <<input, pos, line, at_line_start, comment, store>>

\* It returns to lex_next, at depth 0 or at the end of the input.
CommentEnds ==
    /\ pc = "block" /\ (Peek(pos) = Eof \/ depth = 0)
    /\ pc' = "skip" /\ pending' = has_newline
    /\ UNCHANGED <<input, pos, line, at_line_start, comment, store>>

-----------------------------------------------------------------------------
\* Fault: the buffer grows one token too late.
PushLate(token) ==
    LET full == Len(tokens) > cap
        held == IF ~full THEN buffer ELSE IF 2 * cap <= room THEN 2 * cap ELSE 0
    IN  /\ cap' = IF full THEN 2 * cap ELSE cap
        /\ buffer' = held
        /\ room' = IF full THEN room - held ELSE room
        /\ tokens' = IF held = 0 THEN tokens ELSE Append(tokens, token)
        /\ pc' = IF held = 0 THEN "crashed" ELSE "skip"

\* lexer->tokens[lexer->size++] = token, in a buffer twice the size when it is
\* full. Without memory for it the buffer is the null pointer from then on.
Push(token) ==
    LET full == Len(tokens) >= cap
        held == IF ~full THEN buffer ELSE IF 2 * cap <= room THEN 2 * cap ELSE 0
    IN  /\ cap' = IF full THEN 2 * cap ELSE cap
        /\ buffer' = held
        /\ room' = IF full THEN room - held ELSE room
        /\ tokens' = IF held = 0 THEN tokens ELSE Append(tokens, token)
        /\ pc' = IF held = 0 THEN "crashed" ELSE "skip"

Token(type, length) == [type |-> type, start |-> pos, length |-> length, line |-> line]

AtToken == pc = "skip" /\ Peek(pos) \notin Spaces /\ ~AtLineComment /\ ~AtBlockComment

\* A comment that held a newline stands for a NEWLINE token without length.
CommentNewline ==
    /\ AtToken /\ pending
    /\ Push(Token("NEWLINE", 0))
    /\ pending' = FALSE
    /\ UNCHANGED <<input, pos, line, at_line_start, comment>>

Newline ==
    /\ AtToken /\ ~pending /\ Peek(pos) = NL
    /\ Push(Token("NEWLINE", 1))
    /\ pos' = pos + 1 /\ line' = line + 1 /\ at_line_start' = FALSE
    /\ UNCHANGED <<input, comment, pending>>

\* Fault: only a newline ends the start of a line.
OtherTokenKeepsStart ==
    /\ AtToken /\ ~pending /\ Peek(pos) \notin {NL, Eof}
    /\ LET t == Scan(pos)
       IN  /\ Push(Token(t.type, t.end - pos))
           /\ pos' = t.end
    /\ UNCHANGED <<input, line, at_line_start, comment, pending>>

OtherToken ==
    /\ AtToken /\ ~pending /\ Peek(pos) \notin {NL, Eof}
    /\ LET t == Scan(pos)
       IN  /\ Push(Token(t.type, t.end - pos))
           /\ pos' = t.end
    /\ at_line_start' = FALSE
    /\ UNCHANGED <<input, line, comment, pending>>

\* (Token) { .type = T_END }: written behind the last token without a look at
\* lexer->cap.
End ==
    /\ AtToken /\ ~pending /\ Peek(pos) = Eof
    /\ IF buffer = 0 THEN pc' = "crashed" /\ tokens' = tokens
       ELSE /\ pc' = "done"
            /\ tokens' = Append(tokens, [type |-> "END", start |-> 0, length |-> 0, line |-> 0])
    /\ UNCHANGED <<input, pos, line, at_line_start, comment, pending, cap, buffer, room>>

Next ==
    \/ Shebang \/ SkipSpace \/ LineComment \/ BlockComment \/ InComment \/ CommentEnds
    \/ CommentNewline \/ Newline \/ OtherToken \/ End

\* One thread: it takes its next step unless the system stops.
Spec == Init /\ [][Next]_vars /\ WF_vars(Next)
-----------------------------------------------------------------------------
\* Fault: the line begins with the newline before it.
source_lineEarly(lineno) ==
    LET newlines(i) == Cardinality({j \in 1 .. i : input[j] = NL})
        begin == {i \in DOMAIN input : newlines(i) + 1 = lineno}
        start == IF begin = {} THEN 1 ELSE CHOOSE i \in begin : \A j \in begin : i <= j
    IN  IF newlines(Len(input)) + 1 < lineno THEN << >> ELSE <<start, RunEnd(start, Chars \ {NL})>>

\* The line of that number, as [first, behind the last], or << >> if there is
\* none. The last line, when it is empty, is not found in the loop: start is 0.
source_line(lineno) ==
    LET newlines(i) == Cardinality({j \in 1 .. i - 1 : input[j] = NL})
        begin == {i \in DOMAIN input : newlines(i) + 1 = lineno}
        start == IF begin = {} THEN 1 ELSE CHOOSE i \in begin : \A j \in begin : i <= j
    IN  IF newlines(Len(input) + 1) + 1 < lineno THEN << >>
        ELSE <<start, RunEnd(start, Chars \ {NL})>>

TokenTypes == {"INVALID", "IDENT", "KEYWORD", "NUM", "STRING", "OPERATOR", "CT_DIRECTIVE",
               "NEWLINE", "END"}

TypeOK ==
    /\ input \in Inputs
    /\ pos \in 1 .. Len(input) + 1
    /\ line \in 1 .. Len(input) + 1
    /\ pc \in Phases
    /\ depth \in Nat
    /\ {at_line_start, has_newline, pending} \subseteq BOOLEAN
    /\ tokens \in Seq([type : TokenTypes, start : 0 .. Len(input) + 1,
                       length : 0 .. Len(input), line : 0 .. Len(input) + 1])
    /\ cap \in Nat \ {0} /\ buffer \in Nat /\ room \in Nat

TextTokens == {k \in DOMAIN tokens : tokens[k].type # "END"}

\* Where the text of token k ends, and the positions between it and the token
\* before it.
EndOf(k) == tokens[k].start + tokens[k].length

Gap(k) == (IF k = 1 THEN 1 ELSE EndOf(k - 1)) .. tokens[k].start - 1

Begins(i, first, second) == Peek(i) = first /\ Peek(i + 1) = second

CommentOpens(k) == {i \in Gap(k) : i + 1 \in Gap(k) /\ Begins(i, "/", "*")}

NewlinesIn(S) == {i \in S : input[i] = NL}

HasShebang == Len(input) > 2 /\ Begins(1, "#", "!")

\* Past the next piece of what is skipped before a token: the #! line, a comment
\* to the end of the line, a white space, and of a block comment, at a depth, its
\* begin or its end or one more character. Where none of these is, the place stays.
SkipPiece(place) ==
    LET i == place.at
        d == place.depth
        Past(to, depth_) == [at |-> to, depth |-> depth_]
    IN  CASE d = 0 /\ i = 1 /\ HasShebang      -> Past(RunEnd(i, Chars \ {NL}), 0)
          [] d = 0 /\ Begins(i, "/", "/")       -> Past(RunEnd(i + 2, Chars \ {NL}), 0)
          [] Begins(i, "/", "*")                -> Past(i + 2, d + 1)
          [] d = 0 /\ Peek(i) \in Spaces        -> Past(i + 1, 0)
          [] d > 0 /\ Begins(i, "*", "/")       -> Past(i + 2, d - 1)
          [] d > 0 /\ Peek(i) # Eof /\ ~Begins(i, "/", "*") /\ ~Begins(i, "*", "/")
                                                -> Past(i + 1, d)
          [] OTHER                              -> place

\* Where the text is that follows what is skipped from position a on.
SkipEnd(a) ==
    LET place[n \in 0 .. Len(input)] ==
            IF n = 0 THEN [at |-> a, depth |-> 0] ELSE SkipPiece(place[n - 1])
    IN  place[Len(input)].at

\* No character gets lost: each token begins behind the white space, the comments
\* and the #! line that follow the token before it, and END is stored behind those
\* that follow the last one, when nothing is left of the file.
NoCharLost ==
    \A k \in DOMAIN tokens :
        SkipEnd(IF k = 1 THEN 1 ELSE EndOf(k - 1)) =
            IF tokens[k].type = "END" THEN Len(input) + 1 ELSE tokens[k].start

\* A token's line is 1 more than the newlines before it, in the file and in
\* comments alike, except that those inside string tokens are not counted.
LinesCounted ==
    \A k \in TextTokens :
        LET inStrings == UNION {tokens[j].start .. EndOf(j) - 1 :
                                  j \in {i \in 1 .. k - 1 : tokens[i].type = "STRING"}}
            before == NewlinesIn((1 .. tokens[k].start - 1) \ inStrings)
        IN  tokens[k].line = 1 + Cardinality(before)

\* A block comment that spans lines ends the statement before it, as a newline
\* does, and nothing else yields a NEWLINE token without text. (Of several
\* comments in a row only the last one counts.)
NewlineFromComment ==
    \A k \in TextTokens :
        LET spans == NewlinesIn(Gap(k)) # {}
            isNewline == tokens[k].type = "NEWLINE" /\ tokens[k].length = 0
        IN  /\ isNewline => spans
            /\ (spans /\ \A i, j \in CommentOpens(k) : i = j) => isNewline

\* A %word is a directive only as the first text of the file, not wherever a
\* line starts: a newline ends at_line_start and nothing begins it again.
DirectiveOnlyFirst ==
    \A k \in DOMAIN tokens : tokens[k].type = "CT_DIRECTIVE" =>
        \A j \in 1 .. k - 1 : tokens[j].length = 0

\* Every token but END is stored within the buffer.
OnlyEndPastBuffer ==
    /\ Len(tokens) <= buffer + 1 \/ pc = "crashed"
    /\ (Len(tokens) = buffer + 1 /\ pc # "crashed") => tokens[Len(tokens)].type = "END"

\* Where the line at position i begins, and its text [first, behind the last].
LineStart(i) == CHOOSE j \in 1 .. i : (j = 1 \/ input[j - 1] = NL) /\ NewlinesIn(j .. i - 1) = {}

LineAt(i) == <<LineStart(i), RunEnd(LineStart(i), Chars \ {NL})>>

LinesAfterString(k) ==
    \E j \in 1 .. k - 1 : tokens[j].type = "STRING" /\ NewlinesIn(tokens[j].start .. EndOf(j) - 1) # {}

EmptyLastLine(k) ==
    /\ tokens[k].start = Len(input) + 1
    /\ LineAt(tokens[k].start) = <<Len(input) + 1, Len(input) + 1>>

\* debug_print_lexer prints the source line of each token before one of another
\* line: that is the line the token stands in, unless newlines in a string went
\* uncounted, or it is the empty last line, for which the first line is printed.
SourceLines ==
    pc = "done" =>
        \A k \in 1 .. Len(tokens) - 1 :
            (tokens[k + 1].line # tokens[k].line /\ ~LinesAfterString(k)) =>
                source_line(tokens[k].line) =
                    IF EmptyLastLine(k) THEN LineAt(1) ELSE LineAt(tokens[k].start)

\* What a number is worth: the sum of its digits times the powers of the base.
PlaceValue(s, n, base) ==
    LET power[i \in 0 .. Len(s)] == IF i = 0 THEN 1 ELSE base * power[i - 1]
        sum[i \in n .. Len(s)] ==
            IF i = n THEN 0 ELSE sum[i - 1] + DigitValue[s[i]] * power[Len(s) - i]
    IN  sum[Len(s)]

\* parse_number takes each number token for what its digits are worth, up to the
\* greatest int64_t, and refuses the others; it never takes one for a double.
NumbersExact ==
    \A k \in TextTokens : tokens[k].type = "NUM" =>
        LET text == SubSeq(input, tokens[k].start, EndOf(k) - 1)
            worth == IF IsHexNumber(text) THEN PlaceValue(text, 2, 16)
                     ELSE PlaceValue(text, 0, 10)
        IN  /\ string_to_int64(text) = IF worth <= IntMax THEN <<worth>> ELSE << >>
            /\ \A i \in DOMAIN text : text[i] # "."

UnendedShebang == HasShebang /\ NewlinesIn(DOMAIN input) = {}

\* Unless the file is a #! line without an end, lexing comes to an end: comments
\* and strings without an end do not keep it from doing so.
Terminates == ~UnendedShebang ~> pc \in {"done", "crashed"}

\* compiler.c:79 "Parse out the #!": lexing ends on every file.
AlwaysTerminates == <>(pc \in {"done", "crashed"})
=============================================================================
