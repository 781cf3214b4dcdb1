# A verification project for tira

tira is a small compiler for a language of its own: one single-threaded C program without a C
library. It reads a file, lexes it into a token buffer, parses the tokens into a tree of nodes,
prints the tree and walks it once to emit bytecode. All memory comes from arenas that only grow.

There are no threads, no messages and nothing persistent. What is hard here is sequential: which
of several arrays that grow in one arena may stay where it is, what is left of an array that
moved, what a parser does with the rest of a file after an error, what happens at the end of the
file, of a buffer, of a pool.

## Inventory

| Part | State | Operations | Interacts with | What makes it correct | Modelled |
|---|---|---|---|---|---|
| Arena (`memory.c`) | base, size, used | `arena_create_ex`, `alloc`, (`arena_push`) | every other part allocates; the platform gives the memory | blocks are aligned, inside, disjoint; refused only when full | `Memory`, `Arena` |
| Growing arrays (`memory.c`, `parser.c`) | an array's base and count, in local variables of the parser | `realloc_array_`, `memcpy`; `block_add_stmt`, `parse_call`, `parse_array_lit`, `parse_func_decl`, `collect_*_tuple` | several arrays grow at a time in one arena | room for what is stored; nothing stored is lost or overwritten | `GrowArray` |
| Lexer (`lexer.c`, `compiler_lex_file`) | position, line, at_line_start, token buffer | `lex_next`, comment skippers, growth of the buffer | reads the file, writes the parser's input | no text lost, lines counted, newline tokens where statements end, termination | `Lexer` |
| Number conversion (`string.c`) | none | `string_to_int64` (`string_to_double`) | called with number tokens | exact, or refused at the overflow boundary | `Numbers` |
| Parser (`parser.c`) | position, node pool, error count | `parse_program`, `parse_stmt`, the Pratt parser and its prefix and infix functions | reads tokens; nodes and arrays go to the arena | the tree is the file's; nothing dropped in silence; stays in the tokens; ends | `Parser`, `Trees`, `Unparse` |
| Bytecode generator (`bootstrap_codegen.c`) | `bytecode[4096]`, `code_size`, `var_slots` | one case per node kind | walks the parser's pool | code is that of the tree; fits the array; what it refuses | `Codegen`, `Compiler`, `CompilerTrees` |
| String builders (`string.c`) | a buffer's length and capacity | `sb_build_*` | debug output | within the buffer; pieces whole or left out | `StringBuilder` |
| Formatted printing (`print.c`) | place in the format, arguments left, bytes left | `vsnprintf` (`error`, `printf`) | error messages, the generator's trace | within the buffer; output whole; own arguments; returns | `Format` |
| Pipeline, debug printing (`compiler.c`, `main.c`) | `stage` | one function per stage, `source_line` | calls all of the above in a fixed order, whether or not there were errors | the program ends; debug output writes nowhere else | `Compiler`, `compiler_lex_file` and `source_line` in `Lexer` |
| Reading a file (`platform_linux.c`, `platform_win32.c`) | handle, size, bytes read | `platform_read_entire_file` | the platform; other processes that write the file | whole file or a reason; within its block; closed | `ReadFile` |
| Platform, rest | none | start-up, wrappers of system calls, console output | - | - | `mem_alloc` in `Arena` |
| Test program (`tester.c`) | - | - | - | - | no |

`PROJECT.json` lists the places where this code is hard to test ("hazards"), with the properties
that watch them.

## Modules

    Memory            address arithmetic, growth policy, memcpy (no state)
      Arena           alloc over one arena      --implements-->  BlockAllocator (abstract)
        ArenaProofs   theorems about Arena
      GrowArray       the parser's arrays in one arena, over Memory
        GrowArrayProofs      theorems about the arrays: where their blocks are, what fits them,
                             and what the blocks hold
    Numbers           string_to_int64 (no state)
      Lexer           lex_next, compiler_lex_file, source_line; its number tokens are converted
        LexerProofs   theorems about Lexer
    Parser            parse_program and all it calls
      Trees           the trees that a pool of nodes stands for, and the properties about them
        Unparse       trees printed as tokens: the reference the parser is compared with
      Compiler        Parser, debug_print_parser, and Codegen over the parser's pool
        CompilerTrees the properties that compare the code with the tree
        CompilerProofs       theorems about Parser and Compiler
        Codegen       bootstrap_codegen    <--proved about--  CodegenProofs
    StringBuilder     sb_build_*
      StringBuilderProofs    theorems about StringBuilder
    Format            vsnprintf
      FormatProofs           theorems about Format
    ReadFile          platform_read_entire_file, on both platforms
      ReadFileProofs         theorems about ReadFile
    MC*               the instances TLC checks

**Memory** has `alloc`, `realloc_array_` and `memcpy` as operators over an arena record, modulo
the word size. One thing it says is worth knowing: in `realloc_array_`, the branch for an array
at the top never allocates, because `current` is computed from the end of the array *after*
growing and so equals `count`. An array stays in place only when its block, sized for twice the
count it had when it last moved, is just used up to the arena's top.

**Arena** has one action per outcome of `alloc` (`AllocGrants`, `AllocRefuses`) and keeps the
blocks handed out as history. **BlockAllocator** is what clients rely on: aligned blocks within
one region that share no address, or a refusal. `Arena!BlockSpec` is the refinement.

**GrowArray** keeps a stack of arrays under construction, as the parser's recursion does, and the
words of the arena. One action is what the code does between two points where an element is
parsed, since parsing the element may run any other action for an inner array: `ReserveElement`
and `StoreElement` are apart for calls and array literals, and one action, `AddElement`, for
statements and parameters. The storage of a tuple assignment's lists (`OpenTargets` to
`CloseValues`) is modelled with its own growth rules. A store through a null result ends the
program (`crashed`, also for a target of a tuple, `NoTarget`); a store behind a block goes where it
goes. `mem` has two words behind the
arena for that. The unit is the word, but `memcpy` copies bytes: its loop for overlapping regions
mixes bytes of two words, which the model keeps as `Scrambled` (a word nobody stored) unless the
words are zero. Names of Memory's operators keep the code's formulas; elements are numbered in
the order they are stored, so that a value found in the wrong place is recognised. `Taken` is what
the tokens and nodes have used up before the parser's first array; `tupled` is history: whether a
tuple assignment was parsed so far. `StoreHasRoom`, `IntactOrNull`, `ThirdOnIntact`, `FreshIsZero`
and `FinishedStable` hold until one was.

**Lexer** has one action per loop round or token: the `#!` loop, white space, line and block
comments (with `skip_block_comment`'s depth), and one push of a token into the buffer. All
operators are one type, their text (start, length) tells which. `LexerAssumption` lists what the
lexer's tests on characters give for granted: no character is of two of its classes at once, the end
of the input is no character, and a digit is a digit to `string_to_int64` too. The buffer is a number of tokens
it can hold, 0 for the null pointer that a failed allocation leaves.

**Numbers** is `string_to_int64` as operators: `AddDigit` is one round of either loop with its
overflow check, `Accumulate` the loop. A number token is all it is ever given; none begins with a
sign, and none holds a point, so that `string_to_double` is never reached (part of
`NumbersExact`; `1.5` is lexed as three tokens, other than parser.c:985 has it).

**Parser** is a functional version of `parser.c`: a parse function maps the parser's record
(position, pool, errors, and how the program halted) to its state afterwards and the pointer
it returned. A pointer is the node's index in the pool, 0 is `NULL`. Only the loop of
`parse_program` is a state machine, one action per round (`Separator`, `Statement`, `Return`).

The parse functions call each other without a bound. In the model each gets the functions it calls
as a parameter (`sub`, a function from calls to what they return), and `parse[n]` is all of them
with calls nested n deep: a recursive function over a number, so that the parser can be proved
about. `Depth` is what a file's length allows for; a call that nested deeper would halt with
`"deep"`, and that none does is a part of `TypeOK`. A loop of the code (arguments, elements, the
statements of a block, the infix operators of `parse_expr_prec`) is a function that calls itself for
the rest.

What the code does is kept, also where it surprises: every right operand of a binary operator is
parsed at `PREC_FACTOR`, and nodes do not hold their operator; elements of an array literal are
parsed at `PREC_HIGHEST`; `parse_for_expr` takes `for` as its variable and drops the body; a tuple
assignment drops its lists; the first two elements of a longer list are lost; `T_END` is consumed like any token. Leaving the token array ends a
behaviour (`halt = "overrun"`), as reading a null pointer does (`"crash"`) and an exhausted pool
(`"exit"`). `pool` has the nodes in the order `new_node` hands them out: `NewNode` reserves a place,
`Made` puts the finished node there.

The arrays of arguments, elements, statements and parameters grow in an arena of which `p.top` is
the words taken. The loop of a list carries its array (its base and its elements) in the call for the rest. `Realloc` and
`Moved` are `realloc_array_` and the `memcpy` in it: an array that seems to end at the top stays, any
other moves to the top, and when its old block reaches into the new one its elements come out as
null pointers. So a list of three or more loses its first two elements when nothing was allocated
between them (`f(a, b, c)` becomes `f(NULL, NULL, c)`), and a function with three parameters the
names of two. What the words hold otherwise is `GrowArray`'s business: here the arena is never
full, and what the lists of a tuple assignment write outside of their blocks has no effect on the
other lists.

**Trees** reads the tree from the pool, following the indices down from a statement. It and
**CompilerTrees** have the recursive operators, and the properties that need them; TLC alone uses
these two. `Kept` says of a printed tree which elements, names and statements the parser loses, by
the allocations between them and not by addresses (`LosesTwo`, `LosesNames`); `RoundTrip` compares
the parser's tree with it. `OnlyTorn` and `Torn` say the same of a tree that the parser made, for
files that were not printed from one.

**Codegen** has one action per case of `bootstrap_codegen_inner`, over a pool that is given, and
ends `done`, at a failed assertion (`assert`), at a null pointer (`crash`) or behind the array
(`overflow`). No node has its operator's type set, so that the cases for arithmetic are never
taken: `Incorrect binary operation` is all that comes of an operator, where tester.c:152 and
bootstrap_codegen.c:27 have a `mul_int`; and the last word of a call is any of `Garbage`, since
`arg_slot_start` is never set. The run `codegen_documented` shows both. A word is an integer modulo `Half`; in the instance that
is 10, and the words of a number are its digits.

**Compiler** composes the stages of `main` behind the lexer: `Parse`, `DebugPrint`, `Codegen`,
`Run`. `Gen == INSTANCE Codegen WITH nodes <- p.pool` is the generator over the pool that the
parser filled, also when there were errors, since nothing looks at their number. Of the text that
`debug_print_parser` prints only the numbers are modelled, by how many digits they have.
**CompilerTrees** compares the code with the file: with the printed tree where there is one
(`Source`), since the pool has the nodes that a list lost, and otherwise with the parser's, unless a
list lost some.

**StringBuilder** has one action per kind of request. A byte is known by the call that wrote it, so
that a piece that was cut off or a byte out of place is seen. `capacity` 0 is a builder that got no
memory.

**Format** is `vsnprintf` one character of the format at a time. A call is a sequence of
directives with arguments of the types they ask for (any other call is undefined); the loop sees
their spelling and fetches arguments, and whether it fetches the directive's own is a property
(`OwnArguments`), not an assumption. `rounds` counts the rounds of the loop and `taken` is the
directive whose argument was fetched last; a byte is known by its round and its place there. A loop
that goes round without moving is a behaviour that takes no further step. (So print.c:115, which ends the output of a full
buffer, is never reached with a full buffer.)

**ReadFile** has one action per system call. Any of them may fail, `read` may return a part, and
`OtherWrites` cuts the file off or goes on writing it between two calls, on Windows only while it
is not open. A byte of the file carries the write it comes from and its place.

**Unparse** prints a tree with parentheses where the operands need them. With `LeftToRight = TRUE`
the table of needs is the one that `parse_binary` and `parse_ternary` imply; with `FALSE`, the
grammar in the comments of `parser.c`. The trees are compared without the operators of their binary
nodes (`Erased`): tester.c:123 has a node with `BINOP_MUL`, the parser makes none.

Definitions whose comment begins with "Fault" are not the code. Each is the code with a plausible
bug; put in place of the definition that follows it, TLC must find a property violated. They show
that no property holds by the shape of the model.

## Runs

Passing runs:

| Run | Module, cfg | What it shows | Bounds |
|---|---|---|---|
| `arena` | MCArena | `BlocksBehindTop`, `BlocksApart`, `RefusedOnlyWhenFull` and the refinement `BlockSpec`, over all sequences of requests | an arena of 9 bytes at an address aligned to 8 or only to 4, or no memory; sizes up to 3, counts up to 2, alignments up to 4, each also 0; the theorems below remove the bounds |
| `grow_arrays` | MCGrowArray, GrowArrays | arrays of statements, arguments, elements, parameters interleaved: `StoreHasRoom`, `IntactOrNull` (an array never yields another's element), `ThirdOnIntact` (only the first two elements can be lost), `FreshIsZero`, `FinishedStable`, until a tuple assignment is parsed; with tuples `TupleOverrunBounded` | three arrays deep and 7 elements, so that arrays move several times and overlap; an arena of 60 words, of which none or 51 are taken before, so that it fills up, also to the last word within a tuple |
| `lexer` | MCLexer, Lexer | `NoCharLost` (every character is part of a token or of white space, a comment or the `#!` line in front of one, END included), `LinesCounted`, `NewlineFromComment`, `DirectiveOnlyFirst`, `OnlyEndPastBuffer`, `SourceLines` (the lines the debug output prints are those of the tokens), `NumbersExact`, `Terminates` | all files up to 4-6 characters over five alphabets: nested comments need 6, multi-line strings 5; all sequences of four pieces of text, white space and comments; a buffer of 3 tokens in an arena for 9, so that it grows once and then fails to; `IntMax` 100, so that decimal and hexadecimal tokens lie below, at and above it |
| `compiler` | MCCompiler, Compiler | of the parser `RoundTrip`, `OperandsKept`, `CrashOnlyAfterError`; of the stages behind it `CodeFollowsTree`, `RefusedOnlyFor`, `PrintSafe`, `CodeOfNodes` (the code fits the array, and each node of the pool has its own in its place, whatever is refused later); `Ends` | every construct in every operand position of every other, binary chains four deep, all declarations; pairs of declarations, calls and operators in every construct that keeps them; lists of up to five arguments, three elements, four statements and three parameters, with each kind of operand in the places that decide what is lost; all token sequences of length 3 over 14 tokens, 4 or 5 over seven smaller sets, some behind a prefix that opens a list of three; a pool of 12 nodes, so that larger trees exhaust it, and 72 words of code |
| `string_builder` | MCStringBuilder, StringBuilder | `WithinBuffer`, `WholePieces`, `LeftOutOnlyWhenTight` | all sequences of 4 calls on buffers of 0 to 6 bytes, pieces up to 4 bytes, 3 digits before `temp` overflows |
| `format` | MCFormat, Format | `WithinBuffer`, `RenderedWhole`, `OwnArguments`, `Returns` | all calls of up to 3 directives of 14 kinds, letters that mean something behind a `%` among them; buffers of 0 to 7 bytes, output of up to 6 |
| `read_file` | MCReadFile, ReadFile | `WholeFile`, `WithinBlock`, `HandleClosed` | files of up to 3 bytes, 2 writes, 0 to 4 bytes of room; paths shorter than, as long as and longer than `path_w` |

Runs that find what a comment or the grammar says violated (`findings` in `PROJECT.json` quotes
the lines):

| Run | Property | What happens |
|---|---|---|
| `grow_third` | `ElementsIntact` | `memcpy`'s loop for overlapping regions walks its pointers in opposite directions; an array of two elements whose room ends at the top moves when it gets a third, over itself, and loses both |
| `lexer_shebang` | `AlwaysTerminates` | a `#!` line without newline is skipped forever |
| `codegen_documented` | `CodeAsDocumented`: the code of the example in bootstrap_codegen.c:18-28 is the one given there | no operator yields an instruction, and the last word of the call is arbitrary |
| `parser_precedence` | `RoundTrip`, against the grammar | all binary operators associate to the left whatever their precedence (parser.c:14 calls the grammar "a rough guide", so this is a divergence) |
| `parser_end` | `StaysInTokens` | a file that ends inside a bracket is read behind its last token |

Where a passing property has an exception, it is stated in the property itself, and tells what the
code does wrong or what it cannot do:

- `ThirdOnIntact` is the part of `ElementsIntact` that holds, `Terminates` of `AlwaysTerminates`.
- `OnlyEndPastBuffer`: END is stored without a look at the capacity. With exactly as many tokens as
  the buffer holds (512, 1024, ...) it lies behind it, where the node pool is allocated next and
  `new_node` zeroes it.
- `TupleOverrunBounded`: the lists of a tuple assignment reserve one element too few and leave their
  blocks by two words at most, by a third only when a tuple within a target took the arena's last
  word. Once
  one was parsed, `FinishedStable` does not hold: in `a, b = 1, f(x, y)` the call is
  stored over its own first argument.
- `RoundTrip` and `OperandsKept`: lists of three or more lose two elements, as `Kept` and `OnlyTorn`
  say; binary operators are not compared, for the parser keeps none. `CodeFollowsTree`: an operator
  has no code and the last word of a call is left out; `CodeAsDocumented` is what the repository
  says of both.
- `SourceLines`: the empty last line is printed as the first one; line numbers are too small
  behind a string that spans lines.
- `WholePieces`: the sign of a number may stand without its digits. `LeftOutOnlyWhenTight`: one
  byte may be wasted. `Returns`, `OwnArguments`: only while the output fits.
- `PrintSafe`: only a file with errors, or a literal of more than 16 digits, makes `sb_build_u64`
  write behind its array.
- `RefusedOnlyFor`: an accepted file with `var a` and no value is read through a null pointer, one
  with a number as an operand fails an assertion (`NODE_NUMBER` is 0).
- `WholeFile`: a read that fails half-way yields the first part of the file without a word, and a
  file that cannot be opened an empty one, which `main` compiles.
- `WithinBlock` is about the block of the file; a path of exactly `MAX_PATH` characters gets its NUL
  behind `path_w` (`"path overrun"`).

Deadlock checking is off where the program ends (the lexer at END, the compiler after `Run` or at a
failed assertion, `vsnprintf` at its return, the file when it is read) or a history reaches its
bound.

**Fairness.** `Lexer`, `Compiler` and `Format` assume weak fairness of `Next`: one thread, no
blocking operation, so an enabled step is taken. A loop that changes nothing is not a step, so
fairness does not help it along. `Arena`, `GrowArray` and `StringBuilder` are driven by their
clients and have no liveness property; a system call of `ReadFile` may block for ever.

## Proofs

All proofs are checked by TLAPS to the last leaf; constants are only assumed to satisfy the `ASSUME`
of the module that declares them, which TLC evaluates in the runs. Each main theorem has the form
`Spec => []Inv`, by an inductive invariant `IInv` with one lemma for each action.

### ArenaProofs

For all bases, capacities, requests and word sizes that satisfy `WordAssumption` and
`ArenaAssumption`:

| Theorem | Statement |
|---|---|
| `TypeCorrect` | `Spec => []TypeOK` |
| `BlocksStayBehindTop` | `Spec => []BlocksBehindTop` |
| `BlocksStayApart` | `Spec => []BlocksApart` |
| `NoRoomWasted` | `Spec => RefusedOnlyWhenFull` |
| `Refinement` | `Spec => BlockSpec` |

`ArenaAssumption` says that an arena, one request and its alignment fit below the word size
together: `alloc` multiplies and adds without checking, and the program's requests are far below
(literals, a file's size, doubled counts of blocks that fitted).

`BlocksApart` alone is not inductive: a new block is apart from the old ones because it begins at
or behind the top and the old ones end before it. The inductive invariant `IInv` therefore joins
`TypeOK`, `BlocksBehindTop` and `BlocksApart` with the facts that a base of `NULL` goes with size 0
and that blocks have positive length. Two lemmas carry the arithmetic: what `AlignUp` returns (the
least multiple of the alignment at or above its argument, when nothing wraps) and what a granted
request satisfies.

Alignments are treated as arbitrary positive numbers, with `AlignUp` by division; for powers of
two, the only values `_Alignof` has, this is the code's mask.

### GrowArrayProofs

For every size of the arena, every number of elements, every nesting and every width of a
parameter (`GrowAssumption`: what an array can ask for does not come near the word size):

| Theorem | Statement | For |
|---|---|---|
| `TypeCorrect` | `Spec => []TypeOK` | all programs |
| `TuplesLeaveByLittle` | `Spec => []TupleOverrunBounded` | all programs |
| `RoomForTheNext` | `Spec => []StoreHasRoom` | programs without tuple assignments |
| `ElementsNeverMixed` | `Spec => []IntactOrNull` | programs without tuple assignments |
| `LaterElementsKept` | `Spec => []ThirdOnIntact` | programs without tuple assignments |
| `NewWordsAreZero` | `Spec => []FreshIsZero` | programs without tuple assignments |
| `FinishedNeverWritten` | `Spec => FinishedStable` | programs without tuple assignments |

The last five have the hypothesis `"tuple" \notin Constructs`. It is not for convenience: behind a tuple assignment they are
false, since the lists of a tuple leave their blocks, and `~tupled` in the properties says so. What
holds then is `TuplesLeaveByLittle`. (That the five also hold in a program with tuple assignments, up to the first
one, is model-checked in `grow_arrays`.)

`Shape` (the first half of the module) is the part of the invariant that holds of all programs.
`StoreHasRoom` is far from inductive: whether an array may stay where it is depends on where the
arena's top is, which all the other arrays move. `Shape` describes the stack of arrays:

- `Fits`: how many elements each kind of array has for the capacity it last asked for; a null
  array has none; the list of parameters ends exactly at the top.
- the blocks stand in the order of the stack, and only the innermost array can be a list of
  parameters;
- `OneBehind` and `Excused`: `realloc_array_` takes an array to be the last one when the top is
  where its next element would end. For an array whose block is used up this is the mistake it
  makes if the top is one word behind its block, with somebody else's word between. That never
  happens but for a list of targets, which takes a word of its own, or in a full arena.
- `Room`: without tuple assignments, no array has more elements than its capacity.

`Realloc` has one of three outcomes (`Stays`, `Fails`, `Moves`), and one lemma says so for every
array and arena; the action lemmas rest on it.

`IInv` (the second half) adds `Content`, what the words hold: no word above the top was ever
written (`Fresh`); what the AST points to lies below the top and apart from every block of an array
under construction (`Settled`, `Apart`); every array has twice the room it needed when it moved last
(`Doubled`), so that it overlaps its old block only when it moves with two elements; and each
element is whole, or null and one of the first two (`Whole`). `OnlyInner` is the step property
behind `FinishedNeverWritten`: a step writes in the block of the innermost array or above the top.

### LexerProofs

For every file, every set of characters, every `IntMax` and every size of buffer and arena
(`LexerAssumption`: no character is in two of the lexer's classes at once, the end of the input is
no character, and digits are digits to `string_to_int64`):

| Theorem | Statement |
|---|---|
| `TypeCorrect` | `Spec => []TypeOK` |
| `NothingLost` | `Spec => []NoCharLost` |
| `LinesRight` | `Spec => []LinesCounted` |
| `CommentsEndStatements` | `Spec => []NewlineFromComment` |
| `OneDirective` | `Spec => []DirectiveOnlyFirst` |
| `OthersInBuffer` | `Spec => []OnlyEndPastBuffer` |
| `NumbersRight` | `Spec => []NumbersExact` |
| `LinesFound` | `Spec => []SourceLines` |

The properties speak of finished gaps between tokens; the lexer goes through a gap in several
actions. `IInv` therefore says of the place it has come to what the properties will say of the next
token: `Here` bundles how what was skipped since the last token begins (`Skipped`), the flag that
tells of a comment with a newline (`Told`), and the line (the newlines before it outside of
strings). `NothingLost` follows the same steps: `Skimmed` says that the pieces that the property reads from
the end of the last token on (`Piece`, one at a time) lead to the place where the lexer is, at the
depth of comments it is at, and stop there when a token begins (`Stops`). `Right` is the same of a stored token, once and for all. The others are `Filled` (all
tokens are within the buffer while the lexer runs: END alone is stored without a look),
`Started` (the flag for a directive goes with there being no text yet) and `FirstOnly`. That a run
of characters ends, which `RunEnd` chooses, follows from the natural numbers being well-founded
(`LeastNat`).

`NumbersRight` and `LinesFound` need a second invariant, `AllSound` (`TokensSound`): a number token
consists of digits of its base, and only the last token is END. What the conversion loop computes is
then a matter of arithmetic: as long as nothing overflows, the value so far times the power of the
base that is still to come is the sum of the digits' worth up to there (`RoundKeeps`), and a round
refuses just when the value would pass `IntMax`, after which no further digit could bring it back;
so no round computes anything outside of 0 .. `IntMax`. The recursive functions of model and
reference exist by `StepsExist`, and the argument runs over a least round that breaks the relation,
in place of an induction. `LinesFound` compares the loop of `source_line` with the place where the
token stands: the number of newlines before the place (`LinesRight`) is what the loop counts.

### FormatProofs

For every format of any number of directives, arguments of any length, and every buffer, also of no
bytes (`FormatAssumption`: a call is a sequence of `Directives`; a `%z` before a `u` is a `%zu`):

| Theorem | Statement |
|---|---|
| `StaysInBuffer` | `Spec => []WithinBuffer` |
| `OutputWhole` | `Spec => []RenderedWhole` |
| `OwnArgumentsTaken` | `Spec => []OwnArguments` |

The loop sees characters and the properties speak of directives. `InStep` relates the two: the loop
stands where the spelling of the next directive begins, and the next argument is the next that a
directive asks for. It is lost for good when a `%%` meets a full buffer, since its second `%` then
begins a directive; so `IInv` has it only as long as the buffer is not full or the whole output fits
(`Sound`), and each step must show that what makes `Sound` true after it made it true before.
`Complete` says that what was written is the beginning of the rendered output, and `NumbersWhole`
that a number stands whole or not at all. The format and the rendered output are
concatenations (`FlattenSeq`), of which the lemmas of the first part say where each part lies
(`FlattenLaid`), and `ReadingIs` that the loop, standing where a directive is spelled, reads that
directive and no other.

### StringBuilderProofs

For every capacity and all sequences of calls with texts of any length (`StringBuilderAssumption`
says only that they are numbers):

| Theorem | Statement |
|---|---|
| `TypeCorrect` | `Spec => []TypeOK` |
| `StaysWithinBuffer` | `Spec => []WithinBuffer` |
| `NothingCutOff` | `Spec => []WholePieces` |
| `LeavesOutOnlyWhenTight` | `Spec => []LeftOutOnlyWhenTight` |

Every function writes the first n bytes of what it was asked for; the lemma `CallKeeps` says for
which n the invariant is kept, and one lemma for each function finds its n. The invariant is the
four properties together with `Numbered` (each byte is of a call that was made).

### ReadFileProofs

For files, rooms, paths and writes of any size:

| Theorem | Statement |
|---|---|
| `FileIsWhole` | `Spec => []WholeFile` |
| `ReadsStayInBlock` | `Spec => []WithinBlock` |
| `FileIsClosed` | `Spec => []HandleClosed` |

The invariant says what was read at each point of the function: when the file is open, what its size
and the block are (`MeasuredOK`), and that the bytes read are the file's as long as nobody
wrote it since it was opened (`ReadOK`).

### CodegenProofs

For all pools, array sizes and widths of a word that satisfy `CodegenAssumption`:

| Theorem | Statement |
|---|---|
| `CodeAlwaysFits` | `GenSpec => []CodeFits` |
| `GeneratorTypeCorrect` | `GenSpec => []GenTypeOK` |
| `CodeIsOfItsNodes` | `GenSpec => []CodeOfNodes` |

`CodegenAssumption` has six words of code for each node of the pool (4096 for 256 in the program)
and numbers that fit four words (64 bits in words of 16). `GenSpec` begins with `PoolOK`: the pool is
within its capacity and every call in it has a place for its callee, which may be null. The parser
owes it that, and pays in `CompilerProofs`, which has the same `CodeOfNodes` over the parser's pool.

`CodeFits` is not inductive, since it says nothing of how much room is left; `IInv` adds that the
nodes visited so far took at most six words and one slot each. `CodeOfNodes` says where the code of
each node is, by counting the nodes before it; `Kept` adds that it ends within the code there is
(`Behind`), so that what is appended leaves it alone (`CodedStays`), and that the slots are counted
right. `FourWords` and `WordsAreWorth` are the lemmas about `bytecode_emit_64`: four words, whatever
the number, which are its digits to the base of a word, so that nothing of it is lost.

### CompilerProofs

For every file, every size of the pool, every set of identifiers and literals
and every array of code with six words for each node (`ParserAssumption`, `CompilerAssumption`):

| Theorem | Statement |
|---|---|
| `ParserTypeCorrect` | `Spec => []TypeOK` |
| `CompilerTypeCorrect` | `CompilerSpec => []CompilerTypeOK` |
| `NoCrashWithoutError` | `CompilerSpec => []CrashOnlyAfterError` |
| `PrintingSafe` | `CompilerSpec => []PrintSafe` |
| `CodeOfParsedNodes` | `CompilerSpec => []CodeOfNodes` |

None of these follows from what one parse function does. Each function gets a contract: called in a
`Sound` state it `Leads` to a sound state (never back in the tokens, never fewer errors or nodes)
and returns an index of the pool that is null only after an error (`Points`, `Promise`). `Sound`
says of each node of the pool what its readers rely on (`NodeSound`): its operands are in the pool;
those that the printer and the generator read without a test are there and, without errors, not
null; a literal is a token of the file. While a list is parsed, `Holds` says the same of its array:
what is in it, also after it moved, is in the pool; and the top of the arena only grows. A node that was taken but is not finished yet is `Empty`,
which is sound, so that the contract also holds in the middle of a function and when the pool runs
out there.

The contracts hold of calls that have depth enough below them: two for each token left, and one or
two for the function itself (`Fits`, `Rank`), because no function calls another twice without
taking a token. With `Depth` that is true of the call from `parse_program`; so `"deep"` is never
reached, and the depth of the recursion in C is bounded by the length of the file.

The lemmas named `...Yields`, `...Lists` and `...Come` show the contract of one function each from
those of the functions it calls (`Good`), `CalledKeeps` joins them, and `ParseGood` is the
induction on the depth. The prover has no induction theorem it could use: the step takes the least
depth at which a contract fails (`LeastNat`). The same argument shows first that `parse` exists
(`LayersExist`, `ParseIs`), without which its definition would say nothing.

`Compiling` is the inductive invariant of the whole: `Parsing`, then what was printed, then from
`StartCodegen` on the invariant of `CodegenProofs`, by an instance of that module over the parser's
pool (`GenProofs`). `StartsGenerating` is where the parser's side meets what the generator assumes.
TLC checked the conjuncts about the parser and the printer on the instance of the run `compiler`
before they were proved.

## Only model-checked, and why

- Termination of lexer, parser, compiler and `vsnprintf`: liveness is outside the prover.
- `RoundTrip`, `OperandsKept`, `CodeFollowsTree` and `RefusedOnlyFor`: they compare trees, code and
  texts by recursive operators over trees, which needs an induction over data. They are the
  properties of `Trees` and `CompilerTrees`. Every other safety property that a passing run checks
  is proved.

## Not modelled

- Error texts, traces and column numbers; NUL characters in files (`lex_peek` uses 0 for the end of
  the input); the order and wording of debug output.
- `arena_push`, whose one caller passes the arena by value, so that all string builders share one
  block (debug output only, one builder at a time).
- Memory from the platform that was refused, on Linux: `mmap` is the bare system call and returns a
  negative error number where `mem_alloc` expects `MAP_FAILED`. `Arena` has `NULL`, as
  `arena_create_ex` does.
- What is never called, or has no effect: `parse_postfix`, `parse_primary`, `parse_struct_init`,
  `nodes_match`, `params_match`, `string_compare`, `tira_rt__puts`, `string_to_double`, `open_file`
  and the other Windows helpers. `lexer.h` is a stale copy of parts of `lexer.c`.
- `compiler_init_default`, `compiler_reset` and the rest of the test program: the functions it
  tests have no body (`parse_source`, `compile_source_string`, `bytecode_disasm`).
- Start-up code, system call wrappers, console output: pure I/O, results ignored.
- The cases of the generator for arithmetic, which no node reaches.
- In `Parser`, an arena that is full (`GrowArray` has it), and what the lists of a tuple assignment
  write into other lists (`GrowArray` has how far they reach).

## Plan

Done: all modules above; the proofs of all safety properties of `Arena`, `GrowArray`, `Lexer` (with
`Numbers`), `Format`, `StringBuilder`, `ReadFile` and `Codegen`, and of those of `Parser` and
`Compiler` that are not about trees. Left:

1. What of the properties about trees can be said node by node: `OperandsKept`, for one, as a
   relation of the pool and the tokens that a contract of the parse functions could carry.
2. The arena that file, tokens, nodes and arrays share when it runs out between two stages.
