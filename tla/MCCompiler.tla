------------------------------ MODULE MCCompiler ------------------------------
(* Small instances of Compiler: the files of MCParser, declarations and calls  *)
(* in every construct that keeps them, and files with missing operands.        *)
EXTENDS MCParser, CompilerTrees, TLC

\* With words of one decimal digit the words of a number are its digits.
MCNumberValue == "1" :> 1280 @@ "L" :> 42 @@ "9" :> 0
MCDigits == "1" :> 4 @@ "L" :> 19 @@ "9" :> 1
MCGarbage == {0, 7}

Literal(t) == Node("LITERAL", <<t>>, << >>)
Declared == {Node("VAR_DECL", << >>, <<A, e>>) : e \in {One, Literal("L"), Literal("s"), NullTree, A}}
Sum == Node("BINARY_OP", <<"+">>, <<A, A>>)
Calling == {Node("FUNC_CALL", << >>, <<f>> \o args) :
              f \in {A, Node("FUNC_CALL", << >>, <<A>>)},
              args \in {<< >>, <<One>>, <<Sum, A>>, <<Node("FUNC_CALL", << >>, <<A, Sum>>)>>}}
Emitting == Declared \cup Calling \cup {Sum, Node("ASSIGNMENT", << >>, <<A, Literal("L")>>)}

Nested(s, t) ==
    {<<s, t>>,
     <<Node("FUNC_DECL", << >>, <<A, Block(<<s, t>>)>>)>>,
     <<Node("IF_EXPR", << >>, <<Sum, Block(<<s>>), Block(<<t>>)>>)>>,
     <<Node("FUNC_DECL", << >>, <<A, Block(<<s>>)>>), t>>,
     <<s, t, A>>}

CompilerSources == MCSources \o <<
    UNION {{File(f) : f \in Nested(s, t)} : s \in Emitting, t \in Emitting},
    Texts({"a", "(", ")", "+", "=", "L"}, 4), Texts({"var", "=", "a", "9", "s"}, 4)>>

\* The example of the generator's comment.
ExampleSources == <<{[tree |-> NullTree, tokens |-> Example]}>>
ExampleNames == {"width", "height", "puts"}
ExampleNumbers == {"1280", "720"}
ExampleValue == "1280" :> 1280 @@ "720" :> 720
ExampleDigits == "1280" :> 4 @@ "720" :> 3
NoLiteral == {}
===============================================================================
