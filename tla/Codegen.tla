------------------------------- MODULE Codegen -------------------------------
(***************************************************************************)
(* The bytecode generator of src/bootstrap_codegen.c: bootstrap_codegen    *)
(* visits the nodes of the parser's pool in the order they were taken from *)
(* it, and bootstrap_codegen_inner appends the code of one node, without a *)
(* look at the size of the array.                                          *)
(*                                                                         *)
(* binary_op.type is not set by the parser: the cases that emit arithmetic *)
(* are never taken. get_func_slot always returns 0.                        *)
(***************************************************************************)
EXTENDS Integers, Sequences, FiniteSets

CONSTANTS PoolCap,       \* the capacity of the pool the nodes come from
          CodeCap,       \* countof(bytecode)
          NumberValue,   \* T_NUM literals -> their int_value
          Half,          \* a word of code is an integer modulo Half
          Garbage        \* what an uninitialized uint16_t may hold

VARIABLES nodes,         \* p->nodes: [kind, text, kids], kids are their places or 0
          next,          \* i of bootstrap_codegen, counted from 1
          code,          \* bytecode, code_size
          var_slots,
          outcome        \* "on", or how it ended

genvars == <<nodes, next, code, var_slots, outcome>>

\* What the module expects of its constants; the modules that instantiate it
\* assume it. (4096 words of code, 256 nodes; an int64_t, never negative here, in
\* four words of 16 bits.)
CodegenAssumption ==
    /\ PoolCap \in Nat
    /\ CodeCap \in Nat
    /\ 6 * PoolCap <= CodeCap
    /\ Half \in Nat \ {0}
    /\ NumberValue \in [DOMAIN NumberValue -> 0 .. (Half * Half * Half * Half) - 1]
    /\ Garbage \subseteq 0 .. Half - 1

\* The enum of opcodes.
LOADK_INT == 2
CALL_OP == 7

\* Of pointers: a NODE_NUMBER, its int_value, no node.
IsNumber(k) == k # 0 /\ nodes[k].kind = "LITERAL" /\ nodes[k].text[1] \in DOMAIN NumberValue

NumberOf(k) == NumberValue[nodes[k].text[1]]

IsNull(k) == k = 0

\* Fault: the least significant word first.
WordsLowFirst(value) ==
    <<value % Half, (value \div Half) % Half, (value \div (Half * Half)) % Half,
      (value \div (Half * Half * Half)) % Half>>

\* bytecode_emit_64: the most significant word first.
Words(value) ==
    <<(value \div (Half * Half * Half)) % Half, (value \div (Half * Half)) % Half,
      (value \div Half) % Half, value % Half>>

\* Fault: one operand that is no number is enough.
BinaryVerdictEither(lhs, rhs) ==
    IF IsNull(lhs) \/ IsNull(rhs) THEN "crash"
    ELSE IF IsNumber(lhs) /\ IsNumber(rhs) THEN "assert" ELSE "on"

\* assert(lhs->kind && rhs->kind), where NODE_NUMBER is 0: the right operand is
\* not looked at when the left one is a number.
BinaryVerdict(lhs, rhs) ==
    IF IsNull(lhs) \/ (IsNull(rhs) /\ ~IsNumber(lhs)) THEN "crash"
    ELSE IF IsNumber(lhs) \/ IsNumber(rhs) THEN "assert" ELSE "on"

\* What a node does to the generator: an assertion fails, or a kind is read
\* through a null pointer, or neither.
Verdict(n) ==
    CASE n.kind = "VAR_DECL" /\ IsNull(n.kids[2])    -> "crash"
      [] n.kind = "VAR_DECL" /\ ~IsNull(n.kids[2])   -> IF IsNumber(n.kids[2]) THEN "on" ELSE "assert"
      [] n.kind = "BINARY_OP"                        -> BinaryVerdict(n.kids[1], n.kids[2])
      [] n.kind = "FUNC_CALL"                        -> IF IsNull(n.kids[1]) THEN "assert" ELSE "on"
      [] OTHER                                       -> "on"

node == nodes[next]

Visiting == outcome = "on" /\ next <= Len(nodes)

\* Appends code and goes on to the next node.
Emit(words) ==
    /\ code' = code \o words
    /\ outcome' = IF Len(code) + Len(words) > CodeCap THEN "overflow" ELSE "on"
    /\ next' = next + 1
    /\ UNCHANGED nodes

Stop(how) == outcome' = how /\ UNCHANGED <<nodes, next, code, var_slots>>
-----------------------------------------------------------------------------
Init == next = 1 /\ code = << >> /\ var_slots = 0 /\ outcome = "on"

VarDecl ==
    /\ Visiting /\ node.kind = "VAR_DECL" /\ Verdict(node) = "on"
    /\ Emit(<<LOADK_INT, var_slots>> \o Words(NumberOf(node.kids[2])))
    /\ var_slots' = var_slots + 1

\* A slot is taken, "Incorrect binary operation" printed.
BinaryOp ==
    /\ Visiting /\ node.kind = "BINARY_OP" /\ Verdict(node) = "on"
    /\ Emit(<< >>)
    /\ var_slots' = var_slots + 1

FuncCall ==
    /\ Visiting /\ node.kind = "FUNC_CALL" /\ Verdict(node) = "on"
    /\ \E arg_slot_start \in Garbage :
          Emit(<<CALL_OP, 0, Len(node.kids) - 1, arg_slot_start>>)
    /\ UNCHANGED var_slots

\* "Not yet implemented."
OtherNode ==
    /\ Visiting /\ node.kind \notin {"VAR_DECL", "BINARY_OP", "FUNC_CALL"}
    /\ Emit(<< >>)
    /\ UNCHANGED var_slots

Fail == Visiting /\ Verdict(node) # "on" /\ Stop(Verdict(node))

Return == outcome = "on" /\ next > Len(nodes) /\ Stop("done")

Next == VarDecl \/ BinaryOp \/ FuncCall \/ OtherNode \/ Fail \/ Return

\* What the parser leaves to the generator: a pool within its capacity, in which
\* a call has a place for its callee. Compiler checks it.
PoolOK ==
    /\ Len(nodes) \in 0 .. PoolCap
    /\ \A i \in 1 .. Len(nodes) :
          nodes[i].kind = "FUNC_CALL" => Len(nodes[i].kids) \in Nat \ {0}

GenSpec == PoolOK /\ Init /\ [][Next]_genvars
-----------------------------------------------------------------------------
GenTypeOK ==
    /\ next \in 1 .. Len(nodes) + 1
    /\ code \in Seq(Nat)
    /\ var_slots \in 0 .. Len(nodes)
    /\ outcome \in {"on", "done", "crash", "assert", "overflow"}

\* The code of a whole pool fits the bytecode array, which nothing checks while
\* emitting: no node has more than 6 words of code.
CodeFits == outcome # "overflow"

\* Among the first n nodes of the pool: those of some kinds, the variable slots
\* they take and the words of code they have.
HowMany(n, kinds) == Cardinality({i \in 1 .. n : nodes[i].kind \in kinds})
Slots(n) == HowMany(n, {"VAR_DECL", "BINARY_OP"})
Offset(n) == 6 * HowMany(n, {"VAR_DECL"}) + 4 * HowMany(n, {"FUNC_CALL"})

\* The number a reader of the code finds in the four words behind a place.
NumberAt(place) ==
    ((code[place + 1] * Half + code[place + 2]) * Half + code[place + 3]) * Half + code[place + 4]

\* The code of a node begins where that of the nodes in front of it ends: a
\* declaration loads exactly its value, all 64 bits of it, into a slot that no
\* other declaration or operator has, a call passes on its number of arguments.
Coded(i) ==
    LET n == nodes[i]
        place == Offset(i - 1)
    IN  /\ n.kind = "VAR_DECL" =>
              /\ code[place + 1] = LOADK_INT
              /\ code[place + 2] = Slots(i - 1)
              /\ NumberAt(place + 2) = NumberOf(n.kids[2])
        /\ n.kind = "FUNC_CALL" =>
              /\ code[place + 1] = CALL_OP
              /\ code[place + 2] = 0
              /\ code[place + 3] = Len(n.kids) - 1

\* Every node visited so far has its code and keeps it, whatever is emitted behind
\* it and wherever the generator stops; nothing else has code, and all of it fits.
CodeOfNodes ==
    /\ CodeFits
    /\ Len(code) = Offset(next - 1)
    /\ \A i \in 1 .. next - 1 : Coded(i)
=============================================================================
