-------------------------------- MODULE Trees --------------------------------
(***************************************************************************)
(* The trees that the nodes of the parser's pool form, and what a file has *)
(* to do with the trees made from it.                                      *)
(***************************************************************************)
EXTENDS Parser

\* A tree is a node whose kids are trees.
NullTree == Node("NULL", << >>, << >>)

RECURSIVE Tree(_)
Tree(k) == IF k = 0 THEN NullTree
           ELSE [p.pool[k] EXCEPT !.kids = [i \in DOMAIN @ |-> Tree(@[i])]]

Program ==
    Node("BLOCK", << >>, [i \in DOMAIN program.items |-> Tree(program.items[i])])

\* The part of a node's kids that comes from an array in the arena.
Front(s) == SubSeq(s, 1, Len(s) - 1)

Items(n) == CASE n.kind = "FUNC_CALL"     -> Tail(n.kids)
              [] n.kind = "ARRAY_LITERAL" -> Front(n.kids)
              [] n.kind = "BLOCK"         -> n.kids
              [] OTHER                    -> << >>

RECURSIVE Size(_), Leaves(_), Total(_), AllLeaves(_), Lossy(_), Allocates(_), Kept(_), Torn(_), OnlyTorn(_)

\* The nodes of a tree that come from the pool. Those of a for's body and of the
\* lists of a tuple assignment (here two targets, two values) are taken, too.
Total(nodes) == IF nodes = << >> THEN 0 ELSE Size(Head(nodes)) + Total(Tail(nodes))
Size(n) ==
    CASE n.kind = "NULL"      -> 0
      [] n.kind = "AGGREGATE" -> 5
      [] n.kind = "FOR_EXPR"  -> 2 + Total(n.kids)
      [] OTHER -> 1 + Total(n.kids)

\* The texts in a tree, from left to right: those of a node behind its first kid.
AllLeaves(nodes) ==
    IF nodes = << >> THEN << >> ELSE Leaves(Head(nodes)) \o AllLeaves(Tail(nodes))
Leaves(n) ==
    IF n.kids = << >> THEN n.text ELSE Leaves(Head(n.kids)) \o n.text \o AllLeaves(Tail(n.kids))

Some(nodes, Q(_)) == \E i \in DOMAIN nodes : Q(nodes[i])

\* The two constructs whose node keeps only part of what was parsed.
Lossy(n) == n.kind \in {"FOR_EXPR", "AGGREGATE"} \/ Some(n.kids, Lossy)

\* To parse this takes words of the arena.
Allocates(n) ==
    Items(n) # << >> \/ n.kind \in {"FUNC_DECL", "AGGREGATE"} \/ Some(n.kids, Allocates)

\* A list of three or more loses its first two elements (memory.c:58): when a
\* third is to be stored the room for two still ends at the top, if what was
\* parsed since the first slot was reserved took nothing from the arena. The slot
\* of a statement is reserved behind it. Parameters, each with a name and a type,
\* take nothing.
LosesTwo(n) ==
    LET from == IF n.kind = "BLOCK" THEN 2 ELSE 1
    IN  Len(Items(n)) > 2 /\ \A i \in from .. from + 1 : ~Allocates(Items(n)[i])

LosesNames(n) == n.kind = "FUNC_DECL" /\ Len(n.text) > 4

\* What the parser keeps of a tree.
Kept(n) ==
    LET before == IF n.kind = "FUNC_CALL" THEN 1 ELSE 0
        lost   == IF LosesTwo(n) THEN before + 1 .. before + 2 ELSE {}
        names  == IF LosesNames(n) THEN 1 .. 4 ELSE {}
    IN  Node(n.kind, [i \in DOMAIN n.text |-> IF i \in names THEN "" ELSE n.text[i]],
             [i \in DOMAIN n.kids |-> IF i \in lost THEN NullTree ELSE Kept(n.kids[i])])

Operands(texts) == SelectSeq(texts, LAMBDA t : t \in Identifiers \cup Literals)

\* Of a tree made by the parser: a list lost two elements; no list lost any others.
LostTwo(n) == Len(Items(n)) > 2 /\ Items(n)[1] = NullTree /\ Items(n)[2] = NullTree
Torn(n) == LostTwo(n) \/ LosesNames(n) \/ Some(n.kids, Torn)
OnlyTorn(n) ==
    /\ \A i \in DOMAIN Items(n) : Items(n)[i] = NullTree => i <= 2 /\ LostTwo(n)
    /\ \A i \in DOMAIN n.kids : OnlyTorn(n.kids[i])

\* A file printed from a tree is parsed back to what Kept says of that tree,
\* without errors and with one pool node for each of its nodes, unless the pool is
\* too small for it. With parentheses only where the left to right parsing of all
\* binary operators needs them this says how every construct nests in every
\* other, and exactly which list elements and parameters are lost while lists in
\* lists grow. The trees are compared without the operators of binary operations:
\* binary_op.type is never set.
RoundTrip ==
    (Ended /\ tree # NullTree) =>
        IF Size(tree) > NodeCap THEN p.halt = "exit"
        ELSE done /\ p.errors = 0 /\ Len(p.pool) = Size(tree) /\ Program = Kept(tree)

\* When a file is accepted, its lists lost at most their first two elements, both
\* and only when there is a third; and when none did and no function has a third
\* parameter, the nodes hold all identifiers and literals in their order, whatever
\* the file. Only a for expression (its variable and body) and a tuple assignment
\* lose others.
OperandsKept ==
    (done /\ p.errors = 0 /\ ~Lossy(Program)) =>
        /\ OnlyTorn(Program)
        /\ ~Torn(Program) => Operands(AllLeaves(Program.kids)) = Operands(tokens)
=============================================================================
