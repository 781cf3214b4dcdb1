------------------------------ MODULE GrowArray ------------------------------
(***************************************************************************)
(* The arrays the parser grows in its arena (src/parser.c over             *)
(* src/memory.c): statements of blocks, arguments of calls and elements of *)
(* array literals, parameters of functions, and the target and value lists *)
(* of a tuple assignment. Parsing one element of an array may grow and     *)
(* finish arrays of its own, so that the arrays under construction form a  *)
(* stack and their blocks interleave in the arena.                         *)
(*                                                                         *)
(* The unit is the machine word: all these arrays are word aligned. A node *)
(* pointer is a number of its own, 0 the null pointer and a word that was  *)
(* never written (the platform hands out zeroed pages); Scrambled is what  *)
(* memcpy may make of the bytes of others.                                 *)
(***************************************************************************)
EXTENDS Memory, Sequences

CONSTANTS Capacity,      \* words in the parser's arena
          Taken,         \* of which taken before the parsing: the tokens, the nodes
          ParamWords,    \* words in a Param
          FuncDataWords, \* words in a FuncData
          Constructs,    \* which of "list", "func", "tuple" the input uses
          MaxDepth,      \* bound: arrays under construction at a time
          MaxStored      \* bound: elements stored in all

\* FuncData is a structure of several pointers and numbers. What the arrays of a
\* program ask for stays far below the greatest size_t.
ASSUME GrowAssumption ==
    /\ Capacity \in Nat \ {0} /\ Taken \subseteq 0 .. Capacity
    /\ ParamWords \in Nat \ {0} /\ FuncDataWords \in Nat \ {0, 1}
    /\ Constructs \subseteq {"list", "func", "tuple"}
    /\ MaxDepth \in Nat /\ MaxStored \in Nat
    /\ Capacity + FuncDataWords + ParamWords * (2 * (MaxStored + 1)) + 1 < WordMod

VARIABLES arena,         \* struct Arena
          mem,           \* the words of the arena, and two words behind it
          open,          \* the arrays under construction, innermost last
          finished,      \* history: arrays the AST points to, [base, width, elems]
          stored,        \* history: number of elements stored so far
          tupled,        \* history: a tuple assignment was parsed
          crashed        \* the use of a null pointer ended the program

vars == <<arena, mem, open, finished, stored, tupled, crashed>>

-----------------------------------------------------------------------------
\* kind: which parser function grows the array; base, count: its local
\* variables; awaiting: its slot is reserved and the element is being parsed.
\* cap and elems are history: the elements its block can hold, those stored.
Array(kind) == [kind |-> kind, base |-> NULL, count |-> 0, awaiting |-> FALSE,
                cap |-> 0, elems |-> << >>]

Width(kind) == IF kind = "params" THEN ParamWords ELSE 1

Inner == open[Len(open)]

Outer == SubSeq(open, 1, Len(open) - 1)

Running(kinds) == ~crashed /\ open # << >> /\ Inner.kind \in kinds

Fill(m, at, width, value) ==
    [c \in DOMAIN m |-> IF c \in at .. at + width - 1 THEN value ELSE m[c]]

\* realloc_array(arena, base, type, count): the array and memory afterwards.
Realloc(a, count) ==
    LET w   == Width(a.kind)
        ptr == ReallocPtr(arena, a.base, w, 1, count)
    IN  [array |-> [a EXCEPT !.base = ptr,
                             !.cap = IF AtTop(arena, a.base, w, count) THEN @
                                     ELSE IF ptr = NULL THEN 0 ELSE NextCapacity(count)],
         mem   |-> IF AtTop(arena, a.base, w, count) THEN mem
                   ELSE MemCpy(mem, ptr, a.base, w * count),
         arena |-> ReallocArena(arena, a.base, w, 1, count)]

\* base[index] = the element just parsed, into memory m.
Put(m, a, index) == Fill(m, a.base + index * Width(a.kind), Width(a.kind), stored + 1)

Stored(a) == [a EXCEPT !.elems = Append(@, stored + 1), !.awaiting = FALSE]

Record(a) == [base |-> a.base, width |-> Width(a.kind), elems |-> a.elems]

\* The null pointer is written or read through.
Crash == crashed' = TRUE /\ UNCHANGED <<mem, open, finished, stored>>

-----------------------------------------------------------------------------
Init ==
    /\ \E used \in Taken : arena = [base |-> 1, size |-> Capacity, used |-> used]
    /\ mem = [c \in 1 .. Capacity + 2 |-> 0]
    /\ open = <<Array("stmts")>>              \* parse_program
    /\ finished = {}
    /\ stored = 0 /\ tupled = FALSE
    /\ crashed = FALSE

\* An expression is being parsed: a statement, or the element of an array
\* whose slot is reserved.
InExpression ==
    /\ Running({"stmts", "list", "targets", "values"})
    /\ Inner.kind = "stmts" \/ Inner.awaiting
    /\ Len(open) < MaxDepth /\ stored < MaxStored

\* A nested array begins; the statement or element it belongs to is pending.
Nest(a) == Append(Append(Outer, [Inner EXCEPT !.awaiting = TRUE]), a)

\* parse_call, parse_array_lit: no element yet.
OpenList ==
    /\ "list" \in Constructs /\ InExpression
    /\ open' = Nest(Array("list"))
    /\ UNCHANGED <<arena, mem, finished, stored, tupled, crashed>>

\* parse_block of an if or for expression.
OpenBlock ==
    /\ InExpression
    /\ open' = Nest(Array("stmts"))
    /\ UNCHANGED <<arena, mem, finished, stored, tupled, crashed>>

\* parse_call, parse_array_lit: args = realloc_array(.., count + 1), before the
\* element is parsed. The result is not compared with NULL.
ReserveElement ==
    /\ Running({"list"}) /\ ~Inner.awaiting /\ stored < MaxStored
    /\ LET r == Realloc(Inner, Inner.count + 1)
       IN  /\ open' = Append(Outer, [r.array EXCEPT !.awaiting = TRUE])
           /\ mem' = r.mem /\ arena' = r.arena
    /\ UNCHANGED <<finished, stored, tupled, crashed>>

\* args[count++] = the element.
StoreElement ==
    /\ Running({"list"}) /\ Inner.awaiting /\ stored < MaxStored
    /\ UNCHANGED <<arena, tupled>>
    /\ IF Inner.base = NULL THEN Crash
       ELSE /\ mem' = Put(mem, Inner, Inner.count)
            /\ open' = Append(Outer, [Stored(Inner) EXCEPT !.count = @ + 1])
            /\ stored' = stored + 1
            /\ UNCHANGED <<finished, crashed>>

\* block_add_stmt, and the loop over parameters in parse_func_decl: growing the
\* array and storing the element happen with no parsing in between.
AddElement ==
    /\ Running({"stmts", "params"}) /\ stored < MaxStored
    /\ UNCHANGED tupled
    /\ LET r == Realloc(Inner, Inner.count + 1)
       IN  /\ arena' = r.arena
           /\ IF r.array.base = NULL THEN Crash
              ELSE /\ mem' = Put(r.mem, r.array, r.array.count)
                   /\ open' = Append(Outer, [Stored(r.array) EXCEPT !.count = @ + 1])
                   /\ stored' = stored + 1
                   /\ UNCHANGED <<finished, crashed>>

\* The node of the call, literal or block receives the array.
Close ==
    /\ Running({"list", "stmts"}) /\ ~Inner.awaiting
    /\ open' = Outer
    /\ finished' = finished \cup {Record(Inner)}
    /\ UNCHANGED <<arena, mem, stored, tupled, crashed>>

-----------------------------------------------------------------------------
\* parse_func_decl: a statement; its parameters come first.
OpenParams ==
    /\ "func" \in Constructs /\ Running({"stmts"})
    /\ Len(open) < MaxDepth /\ stored < MaxStored
    /\ open' = Nest(Array("params"))
    /\ UNCHANGED <<arena, mem, finished, stored, tupled, crashed>>

\* The FuncData is allocated and filled, then the body's block begins.
CloseParams ==
    /\ Running({"params"}) /\ stored < MaxStored
    /\ UNCHANGED tupled
    /\ LET r    == [size |-> FuncDataWords, align |-> 1, count |-> 1]
           data == AllocPtr(arena, r)
       IN  /\ arena' = AllocArena(arena, r)
           /\ IF data = NULL THEN Crash
              ELSE /\ mem' = Fill(mem, data, FuncDataWords, stored + 1)
                   /\ stored' = stored + 1
                   /\ finished' = finished \cup
                        {Record(Inner),
                         [base |-> data, width |-> FuncDataWords, elems |-> <<stored + 1>>]}
                   /\ open' = Append(Outer, Array("stmts"))
                   /\ UNCHANGED crashed

-----------------------------------------------------------------------------
(* parse_comma: collect_lhs_tuple, then collect_rhs_tuple. Both allocate    *)
(* one word, pass realloc_array the count so far, and drop the array when   *)
(* they return (targets and values are passed by value).                    *)

OneWord == [size |-> 1, align |-> 1, count |-> 1]

NewTuple(kind) ==
    LET ptr == AllocPtr(arena, OneWord)
    IN  [Array(kind) EXCEPT !.base = ptr, !.cap = IF ptr = NULL THEN 0 ELSE 1]

\* nodes[len++] = first.
OpenTargets ==
    /\ "tuple" \in Constructs /\ InExpression
    /\ tupled' = TRUE
    /\ LET a == NewTuple("targets")
       IN  /\ arena' = AllocArena(arena, OneWord)
           /\ IF a.base = NULL THEN Crash
              ELSE /\ mem' = Put(mem, a, 0)
                   /\ open' = Nest([Stored(a) EXCEPT !.count = 1])
                   /\ stored' = stored + 1
                   /\ UNCHANGED <<finished, crashed>>

\* realloc_array(.., len++) for targets, realloc_array(.., len) for values; a
\* null result ends the list and the caller goes on.
ReserveInTuple ==
    /\ Running({"targets", "values"}) /\ ~Inner.awaiting /\ stored < MaxStored
    /\ LET r == Realloc(Inner, Inner.count)
       IN  /\ r.array.base # NULL
           /\ arena' = r.arena /\ mem' = r.mem
           /\ open' = Append(Outer, [r.array EXCEPT !.awaiting = TRUE,
                                 !.count = IF Inner.kind = "targets" THEN @ + 1 ELSE @])
    /\ UNCHANGED <<finished, stored, tupled, crashed>>

\* nodes[len] = target, nodes[len++] = value.
StoreInTuple ==
    /\ Running({"targets", "values"}) /\ Inner.awaiting /\ stored < MaxStored
    /\ mem' = Put(mem, Inner, Inner.count)
    /\ open' = Append(Outer, [Stored(Inner) EXCEPT
                          !.count = IF Inner.kind = "values" THEN @ + 1 ELSE @])
    /\ stored' = stored + 1
    /\ UNCHANGED <<arena, finished, tupled, crashed>>

\* target->kind is read before it is stored, of no target too: the null pointer
\* of an expression that could not be parsed.
NoTarget == Running({"targets"}) /\ Inner.awaiting /\ UNCHANGED <<arena, tupled>> /\ Crash

\* A list is left after at least one round of its loop, or when it cannot grow.
TupleListEnds(kind) ==
    /\ Running({kind}) /\ ~Inner.awaiting
    /\ \/ Inner.elems # << >> /\ (kind = "targets" => Inner.count > 1)
       \/ Realloc(Inner, Inner.count).array.base = NULL

CloseTargets ==
    /\ TupleListEnds("targets")
    /\ open' = Append(Outer, NewTuple("values"))
    /\ arena' = AllocArena(arena, OneWord)
    /\ UNCHANGED <<mem, finished, stored, tupled, crashed>>

CloseValues ==
    /\ TupleListEnds("values")
    /\ open' = Outer
    /\ UNCHANGED <<arena, mem, finished, stored, tupled, crashed>>

-----------------------------------------------------------------------------
Next ==
    \/ OpenList \/ OpenBlock \/ ReserveElement \/ StoreElement \/ AddElement \/ Close
    \/ OpenParams \/ CloseParams
    \/ OpenTargets \/ ReserveInTuple \/ StoreInTuple \/ NoTarget \/ CloseTargets \/ CloseValues

Spec == Init /\ [][Next]_vars
-----------------------------------------------------------------------------
Kinds == {"stmts", "list", "params", "targets", "values"}

TypeOK ==
    /\ arena \in [base : {1}, size : {Capacity}, used : 0 .. Capacity]
    /\ mem \in [1 .. Capacity + 2 -> 0 .. MaxStored \cup {Scrambled}]
    /\ \A i \in DOMAIN open :
          /\ open[i].kind \in Kinds /\ open[i].awaiting \in BOOLEAN
          /\ open[i].base \in 0 .. Capacity /\ open[i].count \in 0 .. MaxStored + 1
          /\ open[i].cap \in 0 .. 2 * (MaxStored + 1)
          /\ Len(open[i].elems) <= MaxStored
    /\ \A a \in finished : a.base \in 0 .. Capacity /\ a.width \in Nat
    /\ stored \in 0 .. MaxStored /\ tupled \in BOOLEAN /\ crashed \in BOOLEAN

CellsOf(a, i) == a.base + (i - 1) * a.width .. a.base + i * a.width - 1

Holds(a, i, values) == \A c \in CellsOf(a, i) : mem[c] \in values

InUse == finished \cup {Record(open[i]) : i \in {j \in DOMAIN open : open[j].base # NULL}}

\* realloc_array_ keeps no capacity: it leaves an array in place when its end
\* happens to be the arena's top. Whatever is parsed between two elements, an
\* array of statements, arguments, elements or parameters is only left in
\* place, or moved, to where its next element fits in its own block. (This,
\* and IntactOrNull to FinishedStable below, until a tuple assignment is parsed.)
StoreHasRoom ==
    ~tupled => \A i \in DOMAIN open :
        LET a == open[i]
        IN  (a.kind \in {"stmts", "list", "params"} /\ a.base # NULL)
              => a.count + (IF a.kind = "list" /\ a.awaiting THEN 1 ELSE 0) <= a.cap

\* The arrays of a tuple assignment do leave their blocks (collect_lhs_tuple
\* skips a slot, collect_rhs_tuple asks for one element too few), by at most
\* two words; by a third only when a tuple assignment inside a target took the
\* very last word of the arena, and the array seems to end at the top again.
TupleOverrunBounded ==
    \A i \in DOMAIN open :
        LET a == open[i]
        IN  (a.kind \in {"targets", "values"} /\ a.awaiting) =>
              \/ a.count <= a.cap + 1
              \/ a.kind = "targets" /\ arena.used = Capacity /\ a.count = a.cap + 2

\* The elements of an array, once stored, are found again or lost (null); an
\* array never yields an element of another array.
IntactOrNull ==
    ~tupled => \A a \in InUse : \A i \in DOMAIN a.elems : Holds(a, i, {0, a.elems[i]})

\* Only the first two elements can be lost: everything stored from the third
\* element on survives all later growth of this and other arrays.
ThirdOnIntact ==
    ~tupled => \A a \in InUse : \A i \in DOMAIN a.elems : i > 2 => Holds(a, i, {a.elems[i]})

\* Memory above the arena's top was never written: what alloc hands out is
\* zeroed, as the parser assumes of fresh nodes and arrays.
FreshIsZero == ~tupled => \A c \in DOMAIN mem : c >= arena.base + arena.used => mem[c] = 0

\* An array that the AST points to is never written again, whatever arrays
\* grow after it.
FinishedStable ==
    [][~tupled' => \A a \in finished : \A i \in DOMAIN a.elems :
          \A c \in CellsOf(a, i) : mem'[c] = mem[c]]_vars

\* memory.c:79: "Need to handle overlapping memory regions", when an array
\* moves to a block that overlaps the one it leaves: all its elements survive.
ElementsIntact ==
    \A a \in InUse : \A i \in DOMAIN a.elems : Holds(a, i, {a.elems[i]})
=============================================================================
