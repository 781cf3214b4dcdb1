------------------------------- MODULE Unparse -------------------------------
(***************************************************************************)
(* Prints the parser's trees as token sequences, with parentheses where    *)
(* the operands of a construct need them. Which ones do depends on how     *)
(* binary operators and the ternary bind: LeftToRight is the way of        *)
(* parse_binary and parse_ternary (src/parser.c), ~LeftToRight the way of  *)
(* the grammar in its comments.                                            *)
(***************************************************************************)
EXTENDS Trees

CONSTANT LeftToRight

\* The precedence a tree has as an operand.
Level(n) ==
    CASE n.kind = "BINARY_OP"  -> Precedence(n.text[1])
      [] n.kind = "RANGE"      -> RANGE
      [] n.kind = "TERNARY"    -> TERNARY
      [] n.kind = "ASSIGNMENT" -> ASSIGN
      [] n.kind = "UNARY"      -> UNARY
      [] n.kind \in {"FUNC_CALL", "INDEX", "DOT_ACCESS"} -> CALL
      [] OTHER                 -> PRIMARY

\* The least precedence of the two operands of a binary operator, of the
\* condition and of the else expression of a ternary.
BinaryLeft(op)  == IF LeftToRight THEN CMP ELSE Precedence(op)
BinaryRight(op) == IF LeftToRight THEN UNARY ELSE Precedence(op) + 1
Condition       == IF LeftToRight THEN TERNARY ELSE RANGE
Alternative     == IF LeftToRight THEN RANGE ELSE TERNARY

RECURSIVE TokensOf(_), Operand(_, _), Listed(_, _, _), Params(_)

\* Parameters: their names, each with its type (or "").
Params(texts) ==
    IF texts = << >> THEN << >>
    ELSE <<texts[1]>> \o (IF texts[2] = "" THEN << >> ELSE <<":", texts[2]>>)
         \o (IF Len(texts) = 2 THEN << >> ELSE <<",">>) \o Params(SubSeq(texts, 3, Len(texts)))

Operand(n, least) == IF Level(n) < least THEN <<"(">> \o TokensOf(n) \o <<")">> ELSE TokensOf(n)

Listed(nodes, least, separator) ==
    IF nodes = << >> THEN << >>
    ELSE Operand(Head(nodes), least)
         \o (IF Len(nodes) = 1 THEN << >> ELSE <<separator>>)
         \o Listed(Tail(nodes), least, separator)

TokensOf(n) ==
    LET k == n.kids
        decl(word) == <<word>> \o TokensOf(k[1])
                      \o (IF k[2] = NullTree THEN << >> ELSE <<"=">> \o TokensOf(k[2]))
    IN CASE n.kind = "NULL" -> << >>
         [] n.kind \in {"LITERAL", "IDENTIFIER"} -> n.text
         [] n.kind = "BINARY_OP" ->
                Operand(k[1], BinaryLeft(n.text[1])) \o n.text \o Operand(k[2], BinaryRight(n.text[1]))
         [] n.kind = "RANGE" -> Operand(k[1], RANGE) \o n.text \o Operand(k[2], RANGE + 1)
         [] n.kind = "UNARY" -> n.text \o Operand(k[1], UNARY)
         [] n.kind = "TERNARY" ->
                Operand(k[1], Condition) \o <<"?">> \o TokensOf(k[2]) \o <<":">>
                \o Operand(k[3], Alternative)
         [] n.kind = "ASSIGNMENT" -> Operand(k[1], ASSIGN + 1) \o <<"=">> \o TokensOf(k[2])
         [] n.kind = "INDEX" -> Operand(k[1], CALL) \o <<"[">> \o TokensOf(k[2]) \o <<"]">>
         [] n.kind = "DOT_ACCESS" -> Operand(k[1], CALL) \o <<".">> \o n.text
         [] n.kind = "FUNC_CALL" ->
                Operand(k[1], CALL) \o <<"(">> \o Listed(Tail(k), TERNARY, ",") \o <<")">>
         [] n.kind = "ARRAY_LITERAL" ->
                <<"[">> \o Listed(Front(k), PRIMARY, ",")
                \o (IF k[Len(k)] = NullTree THEN << >> ELSE <<";">> \o TokensOf(k[Len(k)])) \o <<"]">>
         [] n.kind = "BLOCK" -> <<"{", "\n">> \o Listed(k, NONE, "\n") \o <<"}">>
         [] n.kind = "IF_EXPR" ->
                <<"if">> \o TokensOf(k[1]) \o TokensOf(k[2])
                \o (IF k[3] = NullTree THEN << >> ELSE <<"\n", "else">> \o TokensOf(k[3]))
         [] n.kind = "RETURN" -> <<"return">> \o TokensOf(k[1])
         [] n.kind = "VAR_DECL" -> decl("var")
         [] n.kind = "CONST_DECL" -> decl("const")
         [] n.kind = "FUNC_DECL" ->
                <<"func">> \o k[1].text
                \o (IF n.text = << >> THEN << >> ELSE <<"(">> \o Params(n.text) \o <<")">>)
                \o TokensOf(k[2])
         \* What the parser keeps of for a in e {} and of a, a = 1, 1.
         [] n.kind = "FOR_EXPR" -> <<"for", "a", "in">> \o TokensOf(k[2]) \o <<"{", "}">>
         [] n.kind = "AGGREGATE" -> <<"a", ",", "a", "=", "1", ",", "1">>

\* The tree without the operators of its BINARY_OPs: the parser never sets
\* binary_op.type, so there is nothing to compare them with.
RECURSIVE Erased(_)
Erased(n) == Node(n.kind, IF n.kind = "BINARY_OP" THEN << >> ELSE n.text,
                  [i \in DOMAIN n.kids |-> Erased(n.kids[i])])

\* A file with the given statements.
File(stmts) == [tree |-> Erased(Node("BLOCK", << >>, stmts)), tokens |-> Listed(stmts, NONE, "\n")]
=============================================================================
