--------------------------- MODULE BlockAllocator ---------------------------
(***************************************************************************)
(* What a client of an arena (src/memory.h: Arena, alloc) relies on: out of *)
(* one region it is granted blocks that are aligned as it asked, lie in the *)
(* region, and never share an address with a block granted before; or it    *)
(* is refused and nothing changes. How a block is found is left open.       *)
(***************************************************************************)
EXTENDS Integers

CONSTANTS Requests,      \* the requests a client may make: [size, align, count]
          NoAnswer       \* the answer before the first request

VARIABLES region,        \* [lo, hi]: the addresses lo .. hi-1
          blocks,        \* the granted blocks: [start, len]
          answer         \* the latest answer: an address, or 0 for a refusal

vars == <<region, blocks, answer>>

Cells(b) == b.start .. b.start + b.len - 1

Apart(b, c) == b.start + b.len <= c.start \/ c.start + c.len <= b.start

InRegion(b) == region.lo <= b.start /\ b.start + b.len <= region.hi

Init ==
    /\ region \in [lo : Nat, hi : Nat]
    /\ blocks = {}
    /\ answer = NoAnswer

Grant(r) ==
    \E start \in region.lo .. region.hi :
        LET b == [start |-> start, len |-> r.size * r.count]
        IN  /\ b.len > 0 /\ r.align > 0
            /\ start % r.align = 0
            /\ InRegion(b)
            /\ \A c \in blocks : Apart(b, c)
            /\ blocks' = blocks \cup {b}
            /\ answer' = start
            /\ UNCHANGED region

Refuse(r) == answer' = 0 /\ UNCHANGED <<region, blocks>>

Next == \E r \in Requests : Grant(r) \/ Refuse(r)

Spec == Init /\ [][Next]_vars
=============================================================================
