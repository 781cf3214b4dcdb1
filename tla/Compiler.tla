------------------------------ MODULE Compiler ------------------------------
(***************************************************************************)
(* What main (src/main.c) does with the tokens of a file: compiler_parse,  *)
(* debug_print_parser and compiler_codegen of src/compiler.c, one after    *)
(* the other, over the pool of nodes that the parser fills. Nothing looks  *)
(* at the number of errors: a file with errors is printed and generated    *)
(* code for like any other.                                                *)
(***************************************************************************)
EXTENDS Parser

CONSTANTS CodeCap, NumberValue, Half, Garbage,    \* see Codegen
          Digits         \* NumberValue's literals -> how many digits the value has

VARIABLES stage,         \* c->stage
          printed,       \* debug_print_parser: "no", "yes", "damaged", "crashed"
          next, code, var_slots, outcome

genvars == <<next, code, var_slots, outcome>>
compilervars == <<vars, stage, printed, genvars>>

Gen == INSTANCE Codegen WITH nodes <- p.pool, PoolCap <- NodeCap

ASSUME CompilerAssumption ==
    /\ Gen!CodegenAssumption
    /\ DOMAIN NumberValue \subseteq Literals
    /\ Digits \in [DOMAIN NumberValue -> Nat \ {0}]

-----------------------------------------------------------------------------
\* debug_print_node_info puts numbers into the text with sb_build_u64, whose
\* array holds 16 digits (src/string.c): the index of an operand among at most
\* 256 nodes, or the value of a literal. The distance from a null operand to the
\* pool is a negative number, as uint64_t one of 20 digits.
TempDigits == 16

IndexDigits(k) == IF k = 0 THEN 20 ELSE 3

IsNumber(n) == n.kind = "LITERAL" /\ n.text[1] \in DOMAIN Digits

PrintedDigits(n) ==
    CASE n.kind \in {"ASSIGNMENT", "BINARY_OP"} -> {IndexDigits(n.kids[1]), IndexDigits(n.kids[2])}
      [] n.kind = "FUNC_CALL" -> {IndexDigits(n.kids[1])}
      [] IsNumber(n) -> {Digits[n.text[1]]}
      [] OTHER -> {}

Overlong(n) == \E d \in PrintedDigits(n) : d > TempDigits

-----------------------------------------------------------------------------
CompilerInit ==
    /\ Init
    /\ stage = "PARSED" /\ printed = "no"
    /\ Gen!Init

\* compiler_parse,
Parse ==
    /\ Next
    /\ UNCHANGED <<stage, printed, genvars>>

\* debug_print_parser: digits behind temp overwrite the stack, which may go
\* unnoticed or end the program,
DebugPrint ==
    /\ done /\ printed = "no"
    /\ printed' \in IF \E i \in DOMAIN p.pool : Overlong(p.pool[i])
                    THEN {"damaged", "crashed"} ELSE {"yes"}
    /\ UNCHANGED <<vars, stage, genvars>>

\* compiler_codegen,
StartCodegen ==
    /\ printed \in {"yes", "damaged"} /\ stage = "PARSED"
    /\ stage' = "CODEGEN"
    /\ UNCHANGED <<vars, printed, genvars>>

Codegen ==
    /\ stage = "CODEGEN"
    /\ UNCHANGED <<vars, stage, printed>>
    /\ Gen!Next

\* and compiler_run, which has no body yet.
Run ==
    /\ outcome = "done" /\ stage = "CODEGEN"
    /\ stage' = "RAN"
    /\ UNCHANGED <<vars, printed, genvars>>

CompilerNext == Parse \/ DebugPrint \/ StartCodegen \/ Codegen \/ Run

\* One thread: it takes its next step unless it ended.
CompilerSpec == CompilerInit /\ [][CompilerNext]_compilervars /\ WF_compilervars(CompilerNext)
-----------------------------------------------------------------------------
\* The parser's state and the generator's, and what the generator counts on (see
\* PoolOK) once it has begun.
CompilerTypeOK ==
    /\ TypeOK
    /\ Gen!GenTypeOK
    /\ stage \in {"PARSED", "CODEGEN", "RAN"}
    /\ printed \in {"no", "yes", "damaged", "crashed"}
    /\ stage # "PARSED" => Gen!PoolOK

\* Only a file with errors, or one with a literal of more than 16 digits, makes
\* the debug output write behind its array of digits: no operand of an accepted
\* file is missing, not even in the parts the tree does not keep.
PrintSafe ==
    printed \in {"damaged", "crashed"} =>
        \/ p.errors > 0
        \/ \E i \in DOMAIN tokens : tokens[i] \in DOMAIN Digits /\ Digits[tokens[i]] > TempDigits

\* The code of all nodes fits, and each node's is where it belongs, with all bits of
\* its number, however the parser or the generator ends.
CodeOfNodes == Gen!CodeOfNodes

Stopped == ~Running(p) \/ printed = "crashed" \/ outcome \in {"crash", "assert", "overflow"}

\* The compiler comes to an end on every file, be it by stopping half-way.
Ends == <>(stage = "RAN" \/ Stopped)
=============================================================================
