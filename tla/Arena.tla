-------------------------------- MODULE Arena --------------------------------
(***************************************************************************)
(* The bump allocator of src/memory.c: an arena is created over one block  *)
(* of memory from the platform (arena_create_ex) and alloc hands out       *)
(* aligned blocks from it, one after the other. Nothing is ever given back *)
(* (arena_reset, arena_pop_to and temp_end are declared, never defined).   *)
(***************************************************************************)
EXTENDS Memory

CONSTANTS Bases,         \* the addresses the platform may place an arena at
          Capacity,      \* the size the arena is asked for
          Requests,      \* the requests clients make: [size, align, count]
          NoAnswer       \* no request was made yet

(***************************************************************************)
(* Requests stay far below the word size: every count in the program is a  *)
(* small literal, a file size plus one, or twice a count whose block fitted *)
(* the arena (compiler.c:92, memory.c:50), and the platform maps arenas    *)
(* below the top of the address space.                                     *)
(***************************************************************************)
ASSUME ArenaAssumption ==
    /\ Bases \subseteq Nat \ {NULL}
    /\ Capacity \in Nat \ {0}
    /\ Requests \subseteq [size : Nat, align : Nat, count : Nat]
    /\ NoAnswer \notin Nat
    /\ \A r \in Requests :
          /\ r.size * r.count \in Nat
          /\ \A b \in Bases : b + Capacity + r.align + r.size * r.count < WordMod

VARIABLES arena,         \* struct Arena: [base, size, used]
          blocks,        \* history: the blocks alloc handed out
          answer         \* the latest result of alloc

vars == <<arena, blocks, answer>>

-----------------------------------------------------------------------------
\* arena_create_ex: the platform gives memory, or the arena stays zeroed.
Init ==
    /\ \/ \E b \in Bases : arena = [base |-> b, size |-> Capacity, used |-> 0]
       \/ arena = [base |-> NULL, size |-> 0, used |-> 0]
    /\ blocks = {}
    /\ answer = NoAnswer

AllocGrants(r) ==
    /\ AllocPtr(arena, r) # NULL
    /\ arena' = AllocArena(arena, r)
    /\ answer' = AllocPtr(arena, r)
    /\ blocks' = blocks \cup {[start |-> AllocPtr(arena, r), len |-> BlockLen(r)]}

AllocRefuses(r) ==
    /\ AllocPtr(arena, r) = NULL
    /\ answer' = NULL
    /\ UNCHANGED <<arena, blocks>>

Next == \E r \in Requests : AllocGrants(r) \/ AllocRefuses(r)

Spec == Init /\ [][Next]_vars
-----------------------------------------------------------------------------
\* The abstract allocator, with the arena's memory as its region.
Region == [lo |-> arena.base, hi |-> arena.base + arena.size]

Blocks == INSTANCE BlockAllocator WITH region <- Region

BlockSpec == Blocks!Spec

TypeOK ==
    /\ arena \in [base : Bases \cup {NULL}, size : {0, Capacity}, used : 0 .. Capacity]
    /\ blocks \subseteq [start : Nat, len : Nat]
    /\ answer \in Nat \cup {NoAnswer}

\* The bump pointer never leaves the arena's memory, and every block handed
\* out lies behind it: alloc compares new_used with size before it moves used.
BlocksBehindTop ==
    /\ arena.used <= arena.size
    /\ \A b \in blocks :
          arena.base <= b.start /\ b.start + b.len <= arena.base + arena.used

\* No two blocks alloc ever handed out share an address, however the sizes and
\* alignments of the requests follow one another.
BlocksApart == \A b, c \in blocks : b = c \/ Blocks!Apart(b, c)

\* alloc gives up no room for nothing: a request is refused only when the
\* arena has no memory at all, the request asks for none, or no aligned place
\* behind the last block could hold it.
RefusedOnlyWhenFull ==
    [][\A r \in Requests :
         (AllocRefuses(r) /\ ~BadRequest(arena, r))
            => \A s \in arena.base + arena.used .. arena.base + arena.size :
                  s % r.align = 0 => s + r.size * r.count > arena.base + arena.size]_vars
=============================================================================
