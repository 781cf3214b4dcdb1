-------------------------------- MODULE Parser --------------------------------
(***************************************************************************)
(* The parser of src/parser.c: parse_program takes one statement after the *)
(* other, parse_stmt dispatches on its first token, and parse_expr_prec is *)
(* a Pratt parser driven by the table rules[].                             *)
(*                                                                         *)
(* A parse function maps the parser's state q (struct Parser: its          *)
(* position, node pool, errors and the words taken of its arena) to its    *)
(* state afterwards and the pointer it returns. A pointer to a node is the *)
(* node's index in the pool, NULL is 0. q.halt tells how the program ended *)
(* inside a parse function: "exit" (no node left), "crash" (a null pointer *)
(* is read) or "overrun" (it moved behind T_END, the last token, which     *)
(* nothing stops it from doing).                                           *)
(*                                                                         *)
(* The arrays of a node are its kids. While they grow, what GrowArray      *)
(* shows of their storage decides what is left in them; the arena is never *)
(* full here, and what a tuple assignment writes outside its arrays stays  *)
(* without effect.                                                         *)
(*                                                                         *)
(* A token is its text. A definition whose comment begins with "Fault" is  *)
(* not the code: it is the code with a plausible bug, kept to show that    *)
(* the properties see it.                                                  *)
(***************************************************************************)
EXTENDS Integers, Sequences

CONSTANTS Sources,       \* sets of files, with the trees they are printed from:
                         \* [tree, tokens]
          Identifiers,   \* tokens of type T_IDENT
          Literals,      \* tokens of type T_NUM, T_STRING, T_NIL, T_TRUE, T_FALSE
          OutOfRange,    \* the literals that string_to_int64 refuses
          NodeCap        \* parser->node_cap

VARIABLES tree,          \* history: what the file was printed from, if it was
          tokens,        \* parser->tokens, END last
          p,             \* the parser's state
          program,       \* the array of the statements of the program's block
          done           \* parse_program returned

vars == <<tree, tokens, p, program, done>>

\* The tokens of a fixed text, and the texts of all tokens; "" is no text.
Terminals ==
    {";", ":", "::", ":=", "=", "==", "!=", ",", "..", "..=", ".", "?", "{", "}", "[", "]", "(", ")",
     "|", "||", "&", "&&", "^", "!", "<", "<=", ">", ">=", "+", "-", "*", "/", "%", "=>", "#", "\n",
     "var", "const", "import", "cffi", "func", "return", "if", "else", "case", "main", "for", "in",
     "struct", "type", "ref", "END", "INVALID", ""}

TokenTexts == Identifiers \cup Literals \cup Terminals

ASSUME ParserAssumption ==
    /\ NodeCap \in Nat \ {0}
    /\ \A k \in DOMAIN Sources : \A s \in Sources[k] : s.tokens \in Seq(TokenTexts)

Kinds == {"NULL", "LITERAL", "IDENTIFIER", "BINARY_OP", "UNARY", "VAR_DECL", "CONST_DECL",
          "ASSIGNMENT", "BLOCK", "ARRAY_LITERAL", "FUNC_DECL", "IF_EXPR", "RETURN", "FUNC_CALL",
          "INDEX", "RANGE", "DOT_ACCESS", "AGGREGATE", "TERNARY", "FOR_EXPR"}

\* Nodes, arrays that grow in the arena, what a parse function is called with
\* (precedence, left operand and array where it has them), and what it returns: a
\* state, and a node or a list.
Nodes == [kind : Kinds, text : Seq(TokenTexts), kids : Seq(Nat)]

Node(kind, text, kids) == [kind |-> kind, text |-> text, kids |-> kids]

Arrays == [base : Nat, items : Seq(Nat)]

NoArray == [base |-> 0, items |-> << >>]

States == [pos : 1 .. Len(tokens) + 1, pool : Seq(Nodes), errors : Nat, top : Nat,
           halt : {"no", "exit", "crash", "overrun", "deep"}]

Calls == [fn : {"expr", "infixes", "arguments", "elements", "targets", "values",
                "parameters", "statements", "newlines", "if"},
          q : States, prec : Nat, lhs : Nat, array : Arrays]

Outs == [p : States, node : Nat, list : Seq(Nat)]

Call(fn, q) == [fn |-> fn, q |-> q, prec |-> 0, lhs |-> 0, array |-> NoArray]

\* The rest of a list, of which the array has what is parsed so far.
Rest(fn, q, array) == [Call(fn, q) EXCEPT !.array = array]

Result(q, node) == [p |-> q, node |-> node, list |-> << >>]

List(q, items) == [p |-> q, node |-> 0, list |-> items]

Separators == {"\n", ";"}

-----------------------------------------------------------------------------
\* Precedence, and rules[]: the precedence of a token as an infix operator.
NONE == 0
COMMA == 1
ASSIGN == 2
TERNARY == 3
RANGE == 4
CMP == 7
TERM == 8
FACTOR == 9
UNARY == 10
CALL == 11
PRIMARY == 12

Comparisons == {"<", ">", "<=", ">=", "==", "!="}
BinaryOps == Comparisons \cup {"+", "-", "*", "/"}

Precedence(t) ==
    CASE t \in {"(", "[", "."} -> CALL
      [] t \in {"*", "/"}      -> FACTOR
      [] t \in {"+", "-"}      -> TERM
      [] t \in Comparisons     -> CMP
      [] t \in {"..", "..="}   -> RANGE
      [] t = "?" -> TERNARY  [] t = "=" -> ASSIGN  [] t = "," -> COMMA
      [] OTHER   -> NONE

Prefixes == Identifiers \cup Literals \cup {"(", "[", "-", "!", "if", "for"}

-----------------------------------------------------------------------------
\* peek, previous, advance, match, expect, raise_error, new_node.
Tok(q) == IF q.pos <= Len(tokens) THEN tokens[q.pos] ELSE "INVALID"

Previous(q) == IF q.pos > 1 THEN tokens[q.pos - 1] ELSE "INVALID"

Running(q) == q.halt = "no"

Halt(q, why) == IF Running(q) THEN [q EXCEPT !.halt = why] ELSE q

Advance(q) ==
    IF ~Running(q) THEN q
    ELSE IF q.pos >= Len(tokens) THEN [q EXCEPT !.pos = Len(tokens) + 1, !.halt = "overrun"]
    ELSE [q EXCEPT !.pos = @ + 1]

Match(q, t) == Running(q) /\ Tok(q) = t

SkipIf(q, ts) == IF Tok(q) \in ts THEN Advance(q) ELSE q

Error(q) == IF Running(q) THEN [q EXCEPT !.errors = @ + 1] ELSE q

Expect(q, t) == IF Match(q, t) THEN Advance(q) ELSE Error(q)

Empty == Node("NULL", << >>, << >>)

\* Fault: the node pool's capacity is not looked at.
NewNodeUnchecked(q) == IF Running(q) THEN [q EXCEPT !.pool = Append(@, Empty)] ELSE q

\* A node is taken from the pool before its fields are known: Made(q, r, node)
\* returns, with the parser in state r, the node that was taken in state q.
NewNode(q) ==
    IF ~Running(q) THEN q
    ELSE IF Len(q.pool) >= NodeCap THEN Halt(Error(q), "exit")
    ELSE [q EXCEPT !.pool = Append(@, Empty)]

Made(q, r, node) ==
    Result(IF Running(r) THEN [r EXCEPT !.pool[Len(q.pool) + 1] = node] ELSE r, Len(q.pool) + 1)

-----------------------------------------------------------------------------
\* alloc, for a number of words; sizeof(FuncData), and of each half of a Param.
Alloc(q, words) == IF Running(q) THEN [q EXCEPT !.top = @ + words] ELSE q

FuncDataWords == 5
InternedStrWords == 3

\* realloc_array, for elements of so many words in all, the next one included: an
\* array that ends at the top stays there, any other moves to the top and gets
\* twice the room. Where it would overlap itself, its elements become zero words.
AtTop(q, a, words) == a.base # 0 /\ a.base + words = q.top

NextCapacity(words) == IF words # 0 THEN 2 * words ELSE 1

Realloc(q, a, words) == IF AtTop(q, a, words) THEN q ELSE Alloc(q, NextCapacity(words))

\* Fault: what is moved is not copied.
MovedEmpty(q, a, words) ==
    IF AtTop(q, a, words) THEN a
    ELSE [base |-> q.top, items |-> [i \in DOMAIN a.items |-> 0]]

Moved(q, a, words) ==
    IF AtTop(q, a, words) THEN a
    ELSE [base |-> q.top, items |-> IF a.base + words > q.top THEN [i \in DOMAIN a.items |-> 0]
                                    ELSE a.items]

Stored(a, k) == [a EXCEPT !.items = Append(@, k)]

\* An array of pointers with one more.
WithNext(a) == Len(a.items) + 1

-----------------------------------------------------------------------------
\* The parse functions call each other, and themselves, without a bound. Here
\* each gets "sub": the functions it calls, as a function from calls to what they
\* return (see parse).
Expr(sub, q, prec) == sub[[Call("expr", q) EXCEPT !.prec = prec]]

ParseExpr(sub, q) == Expr(sub, q, NONE)

\* F(out), with out computed once: TLC may evaluate a LET in it at every use.
With(out, F(_)) == [x \in Outs |-> F(x)][out]

\* parse_assign, parse_binary, parse_range, parse_unary: a node, then one operand.
ParseAssign(sub, q, lhs) ==
    With(Expr(sub, NewNode(q), NONE), LAMBDA rhs :
         Made(q, rhs.p, Node("ASSIGNMENT", << >>, <<lhs, rhs.node>>)))

\* binary_op.type is never set: it stays BINOP_INVALID, whatever the operator.
ParseBinary(sub, q, lhs) ==
    With(Expr(sub, NewNode(q), FACTOR), LAMBDA rhs :
         Made(q, rhs.p, Node("BINARY_OP", << >>, <<lhs, rhs.node>>)))

ParseRange(sub, q, lhs) ==
    With(Expr(sub, NewNode(q), RANGE), LAMBDA rhs :
         Made(q, rhs.p, Node("RANGE", <<Previous(q)>>, <<lhs, rhs.node>>)))

ParseUnary(sub, q) ==
    With(Expr(sub, NewNode(q), UNARY), LAMBDA operand :
         Made(q, operand.p, Node("UNARY", <<Previous(q)>>, <<operand.node>>)))

ParseTernary(sub, q, lhs) ==
    With(ParseExpr(sub, NewNode(q)), LAMBDA then :
    With(Expr(sub, Expect(then.p, ":"), TERNARY), LAMBDA else :
         Made(q, else.p, Node("TERNARY", << >>, <<lhs, then.node, else.node>>))))

\* The slot of an argument is reserved before it is parsed.
Arguments(sub, q, args) ==
    With(Expr(sub, Realloc(q, args, WithNext(args)), COMMA), LAMBDA arg :
    LET more == Stored(Moved(q, args, WithNext(args)), arg.node)
    IN  IF Match(arg.p, ",") THEN sub[Rest("arguments", Advance(arg.p), more)]
        ELSE List(arg.p, more.items))

ArgumentList(sub, r) == IF Tok(r) = ")" THEN List(r, << >>) ELSE sub[Call("arguments", r)]

\* Fault: the node is taken behind its arguments.
ParseCallLate(sub, q, lhs) ==
    With(ArgumentList(sub, q), LAMBDA args :
         Made(args.p, NewNode(Expect(args.p, ")")), Node("FUNC_CALL", << >>, <<lhs>> \o args.list)))

ParseCall(sub, q, lhs) ==
    With(ArgumentList(sub, NewNode(q)), LAMBDA args :
         Made(q, Expect(args.p, ")"), Node("FUNC_CALL", << >>, <<lhs>> \o args.list)))

ParseIndex(sub, q, lhs) ==
    With(ParseExpr(sub, NewNode(q)), LAMBDA index :
         Made(q, Expect(index.p, "]"), Node("INDEX", << >>, <<lhs, index.node>>)))

ParseDot(q, lhs) ==
    LET r == NewNode(q)
    IN  IF Tok(r) \in Identifiers THEN Made(q, Advance(r), Node("DOT_ACCESS", <<Tok(r)>>, <<lhs>>))
        ELSE Made(q, Error(r), Node("DOT_ACCESS", << >>, <<lhs>>))

ParseGrouping(sub, q) ==
    With(ParseExpr(sub, q), LAMBDA inner : Result(Expect(inner.p, ")"), inner.node))

\* The elements of an array literal: primaries only, a comma may come last.
Elements(sub, q, elems) ==
    IF Match(q, "]") THEN List(q, elems.items)
    ELSE With(Expr(sub, Realloc(q, elems, WithNext(elems)), PRIMARY), LAMBDA elem :
         LET more == Stored(Moved(q, elems, WithNext(elems)), elem.node)
         IN  IF Match(elem.p, ",") THEN sub[Rest("elements", Advance(elem.p), more)]
             ELSE List(elem.p, more.items))

\* The length in [value; length].
RepeatLength(sub, elems) ==
    IF ~Match(elems.p, ";") THEN Result(elems.p, 0)
    ELSE ParseExpr(sub, IF Len(elems.list) = 1 THEN Advance(elems.p) ELSE Error(Advance(elems.p)))

ParseArrayLit(sub, q) ==
    With(sub[Call("elements", NewNode(q))], LAMBDA elems :
    With(RepeatLength(sub, elems), LAMBDA length :
         Made(q, Expect(length.p, "]"),
              Node("ARRAY_LITERAL", << >>, Append(elems.list, length.node)))))

-----------------------------------------------------------------------------
\* parse_comma: the lists it collects are lost (collect_lhs_tuple and
\* collect_rhs_tuple get the pointers by value), only their lengths are used.
\* target->kind is read even if there is no target.
AsTarget(target) ==
    IF target.node = 0 THEN Halt(target.p, "crash")
    ELSE IF Running(target.p) /\ target.p.pool[target.node].kind # "IDENTIFIER"
         THEN Error(target.p) ELSE target.p

\* Both lists are grown to the elements they have, before the next one is parsed.
Targets(sub, q, targets) ==
    With(Expr(sub, Realloc(q, targets, Len(targets.items)), ASSIGN), LAMBDA target :
    LET more == Stored(Moved(q, targets, Len(targets.items)), target.node)
        r    == AsTarget(target)
    IN  IF Match(r, ",") THEN sub[Rest("targets", Advance(r), more)] ELSE List(r, more.items))

Values(sub, q, values) ==
    With(Expr(sub, Realloc(q, values, Len(values.items)), ASSIGN), LAMBDA value :
    LET more == Stored(Moved(q, values, Len(values.items)), value.node)
    IN  IF Match(value.p, ",") THEN sub[Rest("values", Advance(value.p), more)]
        ELSE List(value.p, more.items))

ParseComma(sub, q, lhs) ==
    LET targets(r) == Rest("targets", Alloc(r, 1), [base |-> r.top, items |-> <<lhs>>])
        values(r)  == Rest("values", Alloc(r, 1), [base |-> r.top, items |-> << >>])
    IN  With(sub[targets(q)], LAMBDA left :
        With(sub[values(Expect(left.p, "="))], LAMBDA right :
             IF Len(left.list) # Len(right.list) THEN Result(Error(right.p), 0)
             ELSE Made(right.p, NewNode(right.p), Node("AGGREGATE", << >>, << >>))))

-----------------------------------------------------------------------------
\* parse_identifier takes the token before the current one.
ParseIdentifier(q) == Made(q, NewNode(q), Node("IDENTIFIER", <<Previous(q)>>, << >>))

ParseConstVarDecl(sub, q, kind) ==
    With(ParseIdentifier(Advance(NewNode(q))), LAMBDA ident :
    With(IF Match(ident.p, "=") THEN ParseExpr(sub, Advance(ident.p)) ELSE Result(ident.p, 0),
         LAMBDA rhs : Made(q, rhs.p, Node(kind, << >>, <<ident.node, rhs.node>>))))

ParseReturn(sub, q) ==
    With(ParseExpr(sub, NewNode(q)), LAMBDA expr :
         Made(q, expr.p, Node("RETURN", << >>, <<expr.node>>)))

\* The type of a parameter, if there is a colon: for anything but an identifier
\* str_intern reads a null pointer.
ParamType(named) ==
    IF ~Match(named, ":") THEN named
    ELSE IF Tok(Advance(named)) \in Identifiers THEN Advance(Advance(named))
    ELSE Halt(Error(Advance(named)), "crash")

\* A parameter's name is whatever token comes next. For each parameter the places
\* of its name and its type (or 0).
Parameters(sub, q, params) ==
    LET words == InternedStrWords * (Len(params.items) + 2)
        typed == ParamType(Advance(Realloc(q, params, words)))
        type  == IF typed.pos = q.pos + 1 THEN 0 ELSE typed.pos - 1
        more  == Stored(Stored(Moved(q, params, words), q.pos), type)
    IN  IF Match(typed, ",") THEN sub[Rest("parameters", Advance(typed), more)]
        ELSE List(typed, more.items)

ParameterList(sub, r) ==
    IF ~Match(r, "(") THEN List(r, << >>)
    ELSE With(sub[Call("parameters", Advance(r))], LAMBDA params :
              List(Expect(params.p, ")"), params.list))

TextsAt(places) ==
    [i \in 1 .. Len(places) |-> IF places[i] \in 1 .. Len(tokens) THEN tokens[places[i]] ELSE ""]

ParseBlock(sub, q) ==
    With(sub[Call("statements", NewNode(q))], LAMBDA block :
         Made(q, Expect(block.p, "}"), Node("BLOCK", << >>, block.list)))

ParseFuncDecl(sub, q) ==
    With(ParseIdentifier(SkipIf(NewNode(q), Identifiers)), LAMBDA ident :
    With(ParameterList(sub, ident.p), LAMBDA params :
    With(ParseBlock(sub, Expect(Alloc(params.p, FuncDataWords), "{")), LAMBDA block :
         Made(q, block.p, Node("FUNC_DECL", TextsAt(params.list), <<ident.node, block.node>>)))))

ParseStmt(sub, q) ==
    CASE Tok(q) = "return"           -> ParseReturn(sub, Advance(q))
      [] Tok(q) \in {"func", "main"} -> ParseFuncDecl(sub, Advance(q))
      [] Tok(q) = "var"              -> ParseConstVarDecl(sub, Advance(q), "VAR_DECL")
      [] Tok(q) = "const"            -> ParseConstVarDecl(sub, Advance(q), "CONST_DECL")
      [] OTHER                       -> ParseExpr(sub, q)

\* block_add_stmt.
AddStmt(q, stmts) == Realloc(q, stmts, WithNext(stmts))
Added(q, stmts, stmt) == Stored(Moved(q, stmts, WithNext(stmts)), stmt)

\* The loop of parse_block; only the block's end stops it, T_END does not.
BlockStatements(sub, q, stmts) ==
    IF ~Running(q) \/ Tok(q) = "}" THEN List(q, stmts.items)
    ELSE IF Tok(q) \in Separators THEN sub[Rest("statements", Advance(q), stmts)]
    ELSE With(ParseStmt(sub, q), LAMBDA stmt :
         LET r == AddStmt(stmt.p, stmts)
         IN  sub[Rest("statements",
                      IF Running(r) /\ Tok(r) \in Separators THEN Advance(r)
                      ELSE IF Match(r, "}") THEN r ELSE Error(r),
                      Added(stmt.p, stmts, stmt.node))])

-----------------------------------------------------------------------------
SkipNewlines(sub, q) == IF Match(q, "\n") THEN sub[Call("newlines", Advance(q))] ELSE Result(q, 0)

\* The block behind a condition.
ThenBranch(sub, q) ==
    With(SkipNewlines(sub, q), LAMBDA open : ParseBlock(sub, Expect(open.p, "{")))

\* What comes behind "else": another if, or a block.
ElseBranch(sub, q) ==
    With(SkipNewlines(sub, q), LAMBDA r :
         IF Tok(r.p) = "if" THEN sub[Call("if", Advance(r.p))]
         ELSE ParseBlock(sub, Expect(r.p, "{")))

IfNode(cond, then, else) ==
    Made(else.p, NewNode(else.p), Node("IF_EXPR", << >>, <<cond.node, then.node, else.node>>))

\* Fault: without an else, the newlines looked past are not given back.
ParseIfForgets(sub, q) ==
    With(ParseExpr(sub, q), LAMBDA cond :
    With(ThenBranch(sub, cond.p), LAMBDA then :
    With(SkipNewlines(sub, then.p), LAMBDA after :
    With(IF Match(after.p, "else") THEN ElseBranch(sub, Advance(after.p)) ELSE Result(after.p, 0),
         LAMBDA else : IfNode(cond, then, else)))))

ParseIf(sub, q) ==
    With(ParseExpr(sub, q), LAMBDA cond :
    With(ThenBranch(sub, cond.p), LAMBDA then :
    With(SkipNewlines(sub, then.p), LAMBDA after :
    With(IF Match(after.p, "else") THEN ElseBranch(sub, Advance(after.p)) ELSE Result(then.p, 0),
         LAMBDA else : IfNode(cond, then, else)))))

\* The identifier is that of the token before the variable, "for" itself; the
\* body is parsed and dropped.
ParseFor(sub, q) ==
    With(ParseIdentifier(q), LAMBDA ident :
    With(ParseExpr(sub, Expect(Advance(ident.p), "in")), LAMBDA iter :
    With(ParseBlock(sub, Expect(iter.p, "{")), LAMBDA body :
         Made(body.p, NewNode(body.p), Node("FOR_EXPR", << >>, <<ident.node, iter.node>>)))))

-----------------------------------------------------------------------------
\* rules[t].prefix and rules[t].infix, after t was consumed.
ParseLiteral(q, t) ==
    Made(q, IF t \in OutOfRange THEN Error(NewNode(q)) ELSE NewNode(q),
         Node("LITERAL", <<t>>, << >>))

Prefix(sub, q, t) ==
    CASE t \in Identifiers -> ParseIdentifier(q)
      [] t \in Literals \ Identifiers -> ParseLiteral(q, t)
      [] t = "(" -> ParseGrouping(sub, q)   [] t = "[" -> ParseArrayLit(sub, q)
      [] t = "if" -> ParseIf(sub, q)        [] t = "for" -> ParseFor(sub, q)
      [] OTHER -> ParseUnary(sub, q)

Infix(sub, q, t, lhs) ==
    CASE t = "(" -> ParseCall(sub, q, lhs)    [] t = "[" -> ParseIndex(sub, q, lhs)
      [] t = "." -> ParseDot(q, lhs)          [] t = "=" -> ParseAssign(sub, q, lhs)
      [] t = "?" -> ParseTernary(sub, q, lhs) [] t = "," -> ParseComma(sub, q, lhs)
      [] t \in {"..", "..="} -> ParseRange(sub, q, lhs)
      [] OTHER -> ParseBinary(sub, q, lhs)

\* The loop of parse_expr_prec.
InfixesOf(sub, lhs, prec) == sub[[Call("infixes", lhs.p) EXCEPT !.lhs = lhs.node, !.prec = prec]]

Infixes(sub, q, lhs, prec) ==
    IF ~Running(q) \/ prec >= Precedence(Tok(q)) THEN Result(q, lhs)
    ELSE With(Infix(sub, Advance(q), Tok(q), lhs), LAMBDA r : InfixesOf(sub, r, prec))

\* Fault: a token that begins no expression is passed over in silence.
ParseExprPrecSilent(sub, q, prec) ==
    IF ~Running(q) THEN Result(q, 0)
    ELSE IF Tok(q) \notin Prefixes THEN Result(Advance(q), 0)
    ELSE With(Prefix(sub, Advance(q), Tok(q)), LAMBDA lhs : InfixesOf(sub, lhs, prec))

ParseExprPrec(sub, q, prec) ==
    IF ~Running(q) THEN Result(q, 0)
    ELSE IF Tok(q) \notin Prefixes THEN Result(Error(Advance(q)), 0)
    ELSE With(Prefix(sub, Advance(q), Tok(q)), LAMBDA lhs : InfixesOf(sub, lhs, prec))

Called(sub, c) ==
    CASE c.fn = "expr"       -> ParseExprPrec(sub, c.q, c.prec)
      [] c.fn = "infixes"    -> Infixes(sub, c.q, c.lhs, c.prec)
      [] c.fn = "arguments"  -> Arguments(sub, c.q, c.array)
      [] c.fn = "elements"   -> Elements(sub, c.q, c.array)
      [] c.fn = "targets"    -> Targets(sub, c.q, c.array)
      [] c.fn = "values"     -> Values(sub, c.q, c.array)
      [] c.fn = "parameters" -> Parameters(sub, c.q, c.array)
      [] c.fn = "statements" -> BlockStatements(sub, c.q, c.array)
      [] c.fn = "newlines"   -> SkipNewlines(sub, c.q)
      [] OTHER               -> ParseIf(sub, c.q)

\* No function calls another twice without taking a token.
Depth == 2 * Len(tokens) + 1

\* The parse functions of the code, calls nested up to n deep: below that the
\* program would end "deep", which TypeOK rules out for Depth.
parse[n \in 0 .. Depth] ==
    [c \in Calls |-> IF n = 0 THEN Result(Halt(c.q, "deep"), 0) ELSE Called(parse[n - 1], c)]

-----------------------------------------------------------------------------
Init ==
    /\ \E k \in DOMAIN Sources : \E s \in Sources[k] : tree = s.tree /\ tokens = Append(s.tokens, "END")
    /\ p = [pos |-> 1, pool |-> <<Node("BLOCK", << >>, << >>)>>, errors |-> 0, top |-> 1,
            halt |-> "no"]
    /\ program = NoArray /\ done = FALSE

\* parse_program's loop: separators are skipped,
Separator ==
    /\ ~done /\ Running(p) /\ Tok(p) \in Separators
    /\ p' = Advance(p)
    /\ UNCHANGED <<tree, tokens, program, done>>

\* a statement is parsed and added, and must be followed by one,
Statement ==
    /\ ~done /\ Running(p) /\ Tok(p) \notin Separators \cup {"END"}
    /\ \E stmt \in {ParseStmt(parse[Depth], p)} :
          LET r == AddStmt(stmt.p, program)
          IN  /\ p' = IF Running(r) /\ Tok(r) \in Separators THEN Advance(r)
                      ELSE IF Match(r, "END") THEN r ELSE Error(r)
              /\ program' = Added(stmt.p, program, stmt.node)
    /\ UNCHANGED <<tree, tokens, done>>

\* Fault: the program's end is only seen when there were no errors.
ReturnWithoutErrors ==
    /\ ~done /\ Running(p) /\ Tok(p) = "END" /\ p.errors = 0
    /\ done' = TRUE
    /\ UNCHANGED <<tree, tokens, p, program>>

\* and T_END ends it.
Return ==
    /\ ~done /\ Running(p) /\ Tok(p) = "END"
    /\ done' = TRUE
    /\ UNCHANGED <<tree, tokens, p, program>>

Next == Separator \/ Statement \/ Return

Spec == Init /\ [][Next]_vars /\ WF_vars(Next)
-----------------------------------------------------------------------------
\* The parse functions never nest deeper than Depth, and the pool never grows
\* beyond its capacity.
TypeOK ==
    /\ tokens \in Seq(TokenTexts) /\ Len(tokens) > 0
    /\ p \in States /\ p.halt # "deep" /\ Len(p.pool) \in 1 .. NodeCap
    /\ program \in Arrays /\ Len(program.items) < Len(tokens)
    /\ done \in BOOLEAN

Ended == done \/ ~Running(p)

\* The parser reads a null pointer, if at all, only after it reported an error:
\* a file without errors cannot crash it.
CrashOnlyAfterError == p.halt = "crash" => p.errors > 0

\* Parsing comes to an end on every file, be it by leaving the token array.
Terminates == <>Ended

\* parser.c:504 "T_RBRACE and others to catch errors instead of segfault": the
\* parser never moves behind the last token.
StaysInTokens == p.halt # "overrun"
=============================================================================
