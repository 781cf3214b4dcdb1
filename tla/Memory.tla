------------------------------- MODULE Memory -------------------------------
(***************************************************************************)
(* The pure part of src/memory.c: the address arithmetic of the bump       *)
(* allocator (alloc), the growth policy of its arrays (next_capacity,      *)
(* realloc_array_) and the copy loop they use (memcpy).                    *)
(*                                                                         *)
(* An arena is a record [base, size, used], as struct Arena; base = NULL   *)
(* is the zeroed arena that arena_create_ex returns when the platform has  *)
(* no memory to give.                                                      *)
(*                                                                         *)
(* A definition whose comment begins with "Fault" is not the code: it is   *)
(* the code with a plausible bug, kept to show that the properties see it. *)
(***************************************************************************)
EXTENDS Integers

CONSTANT WordMod          \* size_t and uintptr_t are integers modulo WordMod

ASSUME WordAssumption == WordMod \in Nat \ {0}

NULL == 0

Wrap(x) == x % WordMod

\* Fault: rounds down.
AlignDown(x, align) == (x \div align) * align

\* (x + (align - 1)) & ~(align - 1): align is a power of two (an _Alignof).
AlignUp(x, align) == (Wrap(x + align - 1) \div align) * align

-----------------------------------------------------------------------------
(* alloc(a, size, align, count), for a request r = [size, align, count].   *)

BlockStart(a, r) == AlignUp(Wrap(a.base + a.used), r.align)

BlockLen(r) == Wrap(r.size * r.count)

\* Fault: the padding in front of the block is not counted.
NewUsedUnpadded(a, r) == Wrap(a.used + BlockLen(r))

\* Fault: counts elements as if each were one byte.
NewUsedElements(a, r) == Wrap((BlockStart(a, r) - a.base) + r.count)

NewUsed(a, r) == Wrap((BlockStart(a, r) - a.base) + BlockLen(r))

BadRequest(a, r) == a.base = NULL \/ r.size = 0 \/ r.align = 0 \/ r.count = 0

\* Fault: the size of the arena is not looked at.
RefusesBadOnly(a, r) == BadRequest(a, r)

\* Fault: a block that fits exactly is refused.
RefusesExactFit(a, r) == BadRequest(a, r) \/ NewUsed(a, r) >= a.size

Refuses(a, r) == BadRequest(a, r) \/ NewUsed(a, r) > a.size

AllocPtr(a, r) == IF Refuses(a, r) THEN NULL ELSE BlockStart(a, r)

\* Fault: the top is not moved.
AllocArenaForgets(a, r) == a

AllocArena(a, r) == IF Refuses(a, r) THEN a ELSE [a EXCEPT !.used = NewUsed(a, r)]

-----------------------------------------------------------------------------
(* realloc_array_(a, base, elem_size, align, count).                       *)

NextCapacity(count) == IF count # 0 THEN count * 2 ELSE 1

ArrayEnd(base, elem, count) == base + elem * count

\* Fault: any array that reaches the top counts as ending there.
AtTopOrAbove(a, base, elem, count) ==
    base # NULL /\ ArrayEnd(base, elem, count) >= a.base + a.used

AtTop(a, base, elem, count) ==
    base # NULL /\ ArrayEnd(base, elem, count) = a.base + a.used

\* The request of the branch that moves the array. The other branch asks for
\* nothing: it computes current = (array_end - base) / elem_size, which is
\* count again, so its test count > current is never true.
MoveRequest(elem, align, count) ==
    [size |-> elem, align |-> align, count |-> NextCapacity(count)]

ReallocPtr(a, base, elem, align, count) ==
    IF AtTop(a, base, elem, count) THEN base
    ELSE AllocPtr(a, MoveRequest(elem, align, count))

ReallocArena(a, base, elem, align, count) ==
    IF AtTop(a, base, elem, count) THEN a
    ELSE AllocArena(a, MoveRequest(elem, align, count))

-----------------------------------------------------------------------------
(* memcpy(dest, src, n) over a memory of words: a function on addresses, n  *)
(* a number of words. The loop copies bytes, though. When the destination   *)
(* overlaps the source from above, it is while (n--) *d-- = *s++ with both  *)
(* pointers at their last byte: step k (k = 0 .. n-1) fills the word        *)
(* dest + n - 1 - k with the last byte of src + n - 1 + k and the first     *)
(* seven of src + n + k, in reverse. The last byte of a word is 0 (no       *)
(* pointer and no length comes near 2^56), so that a zero word yields zero, *)
(* and any other a word that nobody stored. The word read at step k was     *)
(* written by step dest - src - 1 - k when that step came before k.         *)

Scrambled == -1

Scramble(word) == IF word = 0 THEN 0 ELSE Scrambled

\* Fault: every copy upwards is taken for an overlapping one.
OverlapsUpwards(dest, src, n) == dest > src

Overlaps(dest, src, n) == dest > src /\ dest < src + n

BackwardStep(mem, dest, src, n, k) ==
    LET j == (dest - src) - 1 - k
    IN  Scramble(IF j >= 0 /\ j < k THEN mem[src + n + j] ELSE mem[src + n + k])

MemCpy(mem, dest, src, n) ==
    IF dest = NULL \/ src = NULL THEN mem
    ELSE [c \in DOMAIN mem |->
            IF c \notin dest .. dest + n - 1 THEN mem[c]
            ELSE IF Overlaps(dest, src, n)
                 THEN BackwardStep(mem, dest, src, n, (dest + n - 1) - c)
                 ELSE mem[src + (c - dest)]]
=============================================================================
