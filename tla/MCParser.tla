------------------------------- MODULE MCParser -------------------------------
(* Small instances of Parser: files printed from all trees of a depth, and    *)
(* all files of a length.                                                     *)
EXTENDS Unparse

MCIdentifiers == {"a"}
MCLiterals == {"1", "s", "9", "L"}
MCOutOfRange == {"9"}

A == Node("IDENTIFIER", <<"a">>, << >>)
One == Node("LITERAL", <<"1">>, << >>)
Block(stmts) == Node("BLOCK", << >>, stmts)

Binaries(ops, S, T) == {Node("BINARY_OP", <<op>>, <<l, r>>) : op \in ops, l \in S, r \in T}

\* Every other construct over operands from S, with few operands.
Form(k, l, r) ==
    CASE k = 1  -> Node("UNARY", <<"-">>, <<l>>)
      [] k = 2  -> Node("RANGE", <<"..">>, <<l, r>>)
      [] k = 3  -> Node("INDEX", << >>, <<l, r>>)
      [] k = 4  -> Node("ASSIGNMENT", << >>, <<l, r>>)
      [] k = 5  -> Node("DOT_ACCESS", <<"a">>, <<l>>)
      [] k = 6  -> Node("FUNC_CALL", << >>, <<l>>)
      [] k = 7  -> Node("FUNC_CALL", << >>, <<l, r>>)
      [] k = 8  -> Node("FUNC_CALL", << >>, <<A, l, r>>)
      [] k = 9  -> Node("ARRAY_LITERAL", << >>, <<l, NullTree>>)
      [] k = 10 -> Node("ARRAY_LITERAL", << >>, <<l, r>>)
      [] k = 11 -> Node("ARRAY_LITERAL", << >>, <<l, r, NullTree>>)
      [] k = 12 -> Node("TERNARY", << >>, <<l, A, r>>)
      [] k = 13 -> Node("TERNARY", << >>, <<A, l, A>>)
      [] k = 14 -> Node("IF_EXPR", << >>, <<l, Block(<<r>>), NullTree>>)
      [] k = 15 -> Node("IF_EXPR", << >>, <<A, Block(<<l, A>>), Block(<<r>>)>>)
      [] k = 16 -> Node("IF_EXPR", << >>, <<A, Block(<< >>),
                                         Node("IF_EXPR", << >>, <<A, Block(<<l>>), NullTree>>)>>)
      [] k = 17 -> Node("ARRAY_LITERAL", << >>, <<NullTree>>)
      [] k = 18 -> Node("FUNC_CALL", << >>, <<A, l, r, A>>)
      [] k = 19 -> Node("FUNC_CALL", << >>, <<A, A, One, l, r, A>>)
      [] k = 20 -> Node("ARRAY_LITERAL", << >>, <<l, r, A, NullTree>>)
      [] k = 21 -> Node("IF_EXPR", << >>, <<A, Block(<<One, l, r, A>>), NullTree>>)

Forms(S) == {Form(k, l, r) : k \in 1 .. 21, l \in S, r \in S}

Small == {A, One} \cup Binaries({"+", "*", "<"}, {A}, {A}) \cup Forms({A})

\* Binary operators four deep.
Chains(S) == {A} \cup Binaries({"+", "*"}, S, S)

ParamLists == {<< >>, <<"a", "">>, <<"a", "", "a", "a">>, <<"a", "", "a", "a", "a", "a">>}

Declarations ==
    {Node(kind, << >>, <<A, e>>) : kind \in {"VAR_DECL", "CONST_DECL"}, e \in Small \cup {NullTree}}
    \cup {Node("RETURN", << >>, <<e>>) : e \in Small}
    \cup {Node("FUNC_DECL", params, <<A, Block(body)>>) : params \in ParamLists,
            body \in {<< >>, <<A>>, <<Node("RETURN", << >>, <<One>>), A>>}}
    \cup {Node("FOR_EXPR", << >>, <<Node("IDENTIFIER", <<"for">>, << >>), e>>) : e \in Small}
    \cup {Node("AGGREGATE", << >>, << >>)}

Files(S) == {File(<<s>>) : s \in S}

Texts(S, n) == {[tree |-> NullTree, tokens |-> t] : t \in UNION {[1 .. k -> S] : k \in 0 .. n}}

Others == {"a", "=", ",", "(", ")", "\n", "{", "}", "if", "func", "for", "in", ":", ";"}

\* Every construct in every other; all short files.
MCSources == <<
    Files(Small), Files(Forms(Small)), Files(Binaries({"+", "*", "<"}, Small, Small)),
    Files(Chains(Chains(Chains({A})))), Files(Declarations),
    {File(<<s, t>>) : s \in Declarations \cup Small, t \in {A, Node("RETURN", << >>, <<A>>)}},
    Texts(Others, 3),
    Texts({"a", "1", "(", ")", ",", "="}, 4),
    Texts({"a", "[", "]", ",", "+", ";"}, 4),
    {[s EXCEPT !.tokens = <<"a", "(", "1", ",", "a", ",">> \o @] : s \in Texts({"a", "(", ")", ",", "\n"}, 4)},
    {[s EXCEPT !.tokens = <<"a", "\n">> \o @] : s \in Texts({"a", "(", ")", "\n"}, 5)},
    {[s EXCEPT !.tokens = <<"func", "a", "(">> \o @] : s \in Texts({"a", ",", ":", ")", "{", "}"}, 4)}>>

\* Operators of the three binary levels in each other.
Binary == {A} \cup Binaries({"+", "*", "<"}, {A}, {A})
GrammarSources == <<Files(Binaries({"+", "*", "<"}, Binary, Binary))>>

EndSources == <<Texts(Others, 3)>>
==============================================================================
