----------------------------- MODULE CompilerTrees -----------------------------
(***************************************************************************)
(* What the compiler (Compiler) makes of the trees that the parser built.  *)
(***************************************************************************)
EXTENDS Compiler, Trees

\* The tree of a file: what it was printed from, or what the parser made of it
\* (Program), unless something of that is lost.
Source == IF tree # NullTree THEN tree ELSE Program

Accepted ==
    /\ done /\ p.errors = 0
    /\ ~Lossy(Source) /\ (tree = NullTree => ~Torn(Program))

RECURSIVE PoolOrder(_), PoolOrders(_), Instructions(_, _), Decoded(_)

\* The nodes of a tree in the order in which the parser meets them: a binary
\* operator or a call behind its first operand, an if behind all it consists of,
\* anything else in front of its parts.
PoolOrders(ns) == IF ns = << >> THEN << >> ELSE PoolOrder(Head(ns)) \o PoolOrders(Tail(ns))
PoolOrder(n) ==
    CASE n.kind = "NULL" -> << >>
      [] n.kind \in {"BINARY_OP", "ASSIGNMENT", "RANGE", "TERNARY", "INDEX", "DOT_ACCESS",
                     "FUNC_CALL"} -> PoolOrder(n.kids[1]) \o <<n>> \o PoolOrders(Tail(n.kids))
      [] n.kind = "IF_EXPR" -> PoolOrders(n.kids) \o <<n>>
      [] OTHER -> <<n>> \o PoolOrders(n.kids)

\* What a program means to the generator: each declaration loads its value into
\* the next slot, each call passes on its number of arguments.
Instructions(ns, slot) ==
    IF ns = << >> THEN << >>
    ELSE CASE Head(ns).kind = "VAR_DECL" ->
                  <<<<"loadk_int", slot, NumberValue[Head(ns).kids[2].text[1]]>>>>
                  \o Instructions(Tail(ns), slot + 1)
           [] Head(ns).kind = "BINARY_OP" -> Instructions(Tail(ns), slot + 1)
           [] Head(ns).kind = "FUNC_CALL" ->
                  <<<<"call", 0, Len(Head(ns).kids) - 1>>>> \o Instructions(Tail(ns), slot)
           [] OTHER -> Instructions(Tail(ns), slot)

\* The instructions a disassembler finds in the code.
Decoded(words) ==
    IF words = << >> THEN << >>
    ELSE IF words[1] = Gen!LOADK_INT
         THEN <<<<"loadk_int", words[2],
                  ((words[3] * Half + words[4]) * Half + words[5]) * Half + words[6]>>>>
              \o Decoded(SubSeq(words, 7, Len(words)))
         ELSE <<<<"call", words[2], words[3], words[4]>>>> \o Decoded(SubSeq(words, 5, Len(words)))

\* The code of an accepted file holds the declarations and calls of the file, each
\* once, in the order of the text but for the callee of a call, with slots of
\* their own: all of them, because it is made from the pool and not from the
\* tree, whose lists may have lost some. Two things are missing from it (see
\* CodeAsDocumented): a binary operator only takes a slot, and the last word of a
\* call is left as it was found.
CodeFollowsTree ==
    (Accepted /\ outcome = "done") =>
        LET found == Decoded(code)
        IN  [i \in DOMAIN found |-> SubSeq(found[i], 1, 3)] = Instructions(PoolOrders(Source.kids), 0)

\* bootstrap_codegen.c:18-28: the example source and its output.
Example == <<"var", "width", "=", "1280", "\n", "var", "height", "=", "720", "\n",
             "puts", "(", "width", "*", "height", ")">>

ExampleOutput == <<<<"loadk_int", 0, 1280>>, <<"loadk_int", 1, 720>>,
                   <<"mul_int", 2, 0, 1>>, <<"call", 0, 1, 2>>>>

\* bootstrap_codegen.c:24 "Output:": the code of the example is what is given
\* there, with a multiplication, whose slot is what the call passes on.
CodeAsDocumented ==
    (stage = "RAN" /\ tokens = Append(Example, "END")) => Decoded(code) = ExampleOutput

\* Where the generator stops for an accepted file: exactly when a variable is
\* declared without a value or with one that is no number, or a binary operator
\* has a number as an operand; and through a null pointer only in the first case.
RefusedOnlyFor ==
    LET built == PoolOrders(Source.kids)
        some(Q(_)) == \E i \in DOMAIN built : Q(built[i])
        unset(n) == n.kind = "VAR_DECL" /\ n.kids[2] = NullTree
        other(n) == \/ n.kind = "VAR_DECL" /\ n.kids[2] # NullTree /\ ~IsNumber(n.kids[2])
                    \/ n.kind = "BINARY_OP" /\ \E i \in 1 .. 2 : IsNumber(n.kids[i])
    IN  (Accepted /\ outcome # "on") =>
            /\ outcome = "done" <=> ~some(unset) /\ ~some(other)
            /\ outcome = "crash" => some(unset)
            /\ outcome = "assert" => some(other)
=============================================================================
