----------------------------- MODULE ArenaProofs -----------------------------
(***************************************************************************)
(* The bump allocator keeps its blocks apart and implements BlockAllocator, *)
(* whatever the word size, the arena's place and size, and the requests.   *)
(***************************************************************************)
EXTENDS Arena, TLAPS

\* A value below the word size is not changed by word arithmetic.
LEMMA WrapSmall ==
    ASSUME NEW x \in Nat, x < WordMod
    PROVE  Wrap(x) = x
  BY WordAssumption DEF Wrap

\* A multiple leaves no remainder.
LEMMA MultipleMod ==
    ASSUME NEW k \in Nat, NEW a \in Nat \ {0}
    PROVE  (k * a) % a = 0
  OBVIOUS

\* Rounding up yields the first multiple of the alignment that is not below x.
LEMMA RoundUp ==
    ASSUME NEW x \in Nat, NEW a \in Nat \ {0},
           NEW y, y = ((x + a - 1) \div a) * a
    PROVE  /\ y \in Nat /\ x <= y /\ y < x + a /\ y % a = 0
           /\ \A s \in Nat : x <= s /\ s % a = 0 => y <= s
<1> DEFINE q == (x + a - 1) \div a
           m == (x + a - 1) % a
<1>1. /\ q \in Nat /\ m \in 0 .. a - 1
      /\ x + a - 1 = a * q + m
  OBVIOUS
<1>2. q * a \in Nat /\ q * a = a * q
  BY <1>1
<1>3. (q * a) % a = 0
  BY <1>1, MultipleMod
<1>4. ASSUME NEW s \in Nat, x <= s, s % a = 0
      PROVE  q * a <= s
  <2> DEFINE k == s \div a
  <2>1. k \in Nat /\ s = a * k
    BY <1>4
  <2>2. ASSUME k < q PROVE FALSE
    <3>1. k + 1 <= q
      BY <2>1, <2>2, <1>1
    <3>2. a * (k + 1) <= a * q
      BY <3>1, <2>1, <1>1
    <3>3. a * (k + 1) = a * k + a
      BY <2>1
    <3> QED BY <1>1, <1>4, <2>1, <3>2, <3>3
  <2>3. q <= k
    BY <2>1, <2>2, <1>1
  <2>4. a * q <= a * k
    BY <2>3, <2>1, <1>1
  <2> QED BY <2>1, <2>4, <1>2
<1> QED BY <1>1, <1>2, <1>3, <1>4

\* A block of at least one element of at least one byte is not empty.
LEMMA ProductPositive ==
    ASSUME NEW a \in Nat \ {0}, NEW b \in Nat \ {0}
    PROVE  a * b \in Nat \ {0}
  OBVIOUS

-----------------------------------------------------------------------------
\* The inductive invariant: an arena without memory has size 0, so that it can
\* hold no block, and all blocks lie, apart from each other, behind the top.
IInv == TypeOK /\ (arena.base = NULL <=> arena.size = 0) /\ BlocksBehindTop /\ BlocksApart

\* What one granted request computes: word arithmetic never wraps, and the
\* block starts at the first aligned address at or above the top.
LEMMA GrantFacts ==
    ASSUME IInv, NEW r \in Requests, ~BadRequest(arena, r)
    PROVE  LET top == arena.base + arena.used
               start == BlockStart(arena, r)
           IN  /\ arena.base \in Nat \ {0} /\ arena.size = Capacity
               /\ arena.used \in Nat
               /\ start \in Nat /\ top <= start /\ start < top + r.align
               /\ start % r.align = 0
               /\ \A s \in Nat : top <= s /\ s % r.align = 0 => start <= s
               /\ BlockLen(r) = r.size * r.count
               /\ BlockLen(r) \in Nat \ {0}
               /\ NewUsed(arena, r) = (start - arena.base) + BlockLen(r)
               /\ NewUsed(arena, r) \in Nat
<1> DEFINE top == arena.base + arena.used
           len == r.size * r.count
<1>1. /\ r.size \in Nat \ {0} /\ r.align \in Nat \ {0} /\ r.count \in Nat \ {0}
      /\ arena.base \in Bases /\ arena.base \in Nat \ {0}
  BY ArenaAssumption DEF IInv, TypeOK, BadRequest, NULL
<1>2. /\ arena.size = Capacity /\ Capacity \in Nat
      /\ arena.used \in Nat /\ arena.used <= Capacity
  BY <1>1, ArenaAssumption DEF IInv, TypeOK, BlocksBehindTop, NULL
<1>3. len \in Nat \ {0}
  BY <1>1, ProductPositive
<1>4. arena.base + Capacity + r.align + len < WordMod
  BY <1>1, ArenaAssumption
<1>5. BlockLen(r) = Wrap(len)
  BY DEF BlockLen
<1> HIDE DEF len
<1>6. /\ top \in Nat /\ top + r.align - 1 \in Nat /\ len \in Nat
      /\ top < WordMod /\ top + r.align - 1 < WordMod /\ len < WordMod
  BY <1>1, <1>2, <1>3, <1>4, WordAssumption
<1>7. Wrap(top) = top /\ Wrap(top + r.align - 1) = top + r.align - 1 /\ Wrap(len) = len
  <2> HIDE DEF top
  <2> QED BY <1>6, WrapSmall
<1>8. BlockStart(arena, r) = ((top + r.align - 1) \div r.align) * r.align
  BY <1>7 DEF BlockStart, AlignUp
<1>9. /\ BlockStart(arena, r) \in Nat /\ top <= BlockStart(arena, r)
      /\ BlockStart(arena, r) < top + r.align
      /\ BlockStart(arena, r) % r.align = 0
      /\ \A s \in Nat : top <= s /\ s % r.align = 0 => BlockStart(arena, r) <= s
  <2> HIDE DEF top
  <2> QED BY <1>1, <1>6, <1>8, RoundUp
<1>10. BlockLen(r) = len
  BY <1>5, <1>7
<1>11. /\ NewUsed(arena, r) = (BlockStart(arena, r) - arena.base) + len
       /\ NewUsed(arena, r) \in Nat
  <2> DEFINE start == BlockStart(arena, r)
  <2>1. start \in Nat /\ top <= start /\ start < top + r.align
    BY <1>9
  <2>2. NewUsed(arena, r) = Wrap((start - arena.base) + len)
    BY <1>10 DEF NewUsed
  <2> HIDE DEF start
  <2>3. /\ (start - arena.base) + len \in Nat
        /\ (start - arena.base) + len < WordMod
    BY <2>1, <1>1, <1>2, <1>3, <1>4, WordAssumption
  <2>4. Wrap((start - arena.base) + len) = (start - arena.base) + len
    BY <2>3, WrapSmall
  <2> QED BY <2>2, <2>3, <2>4 DEF start
<1> QED BY <1>1, <1>2, <1>3, <1>9, <1>10, <1>11 DEF len
-----------------------------------------------------------------------------
\* The arena just created holds no block.
LEMMA InitIInv == Init => IInv
<1> SUFFICES ASSUME Init PROVE IInv
  OBVIOUS
<1> QED BY ArenaAssumption DEF Init, IInv, TypeOK, BlocksBehindTop, BlocksApart, NULL

\* One granted request keeps the invariant: its block starts at or above the
\* old top, so it is apart from all blocks before it.
LEMMA GrantStep ==
    ASSUME IInv, NEW r \in Requests, AllocGrants(r)
    PROVE  /\ IInv'
           /\ arena' = [arena EXCEPT !.used = NewUsed(arena, r)]
           /\ ~Refuses(arena, r)
<1> DEFINE start == BlockStart(arena, r)
           len == BlockLen(r)
           new == [start |-> start, len |-> len]
<1>1. ~Refuses(arena, r) /\ ~BadRequest(arena, r) /\ NewUsed(arena, r) <= arena.size
  <2>1. ~Refuses(arena, r)
    BY DEF AllocGrants, AllocPtr
  <2>2. ~BadRequest(arena, r) /\ ~(NewUsed(arena, r) > arena.size)
    BY <2>1 DEF Refuses
  <2>3. NewUsed(arena, r) \in Nat /\ arena.size \in Nat
    BY <2>2, GrantFacts, ArenaAssumption
  <2> QED BY <2>1, <2>2, <2>3
<1>2. /\ arena.base \in Nat \ {0} /\ arena.size = Capacity /\ Capacity \in Nat
      /\ arena.used \in Nat
      /\ start \in Nat /\ arena.base + arena.used <= start
      /\ len \in Nat \ {0}
      /\ NewUsed(arena, r) = (start - arena.base) + len
  BY <1>1, GrantFacts, ArenaAssumption
<1>3. /\ arena' = [arena EXCEPT !.used = NewUsed(arena, r)]
      /\ answer' = start
      /\ blocks' = blocks \cup {new}
  BY <1>1 DEF AllocGrants, AllocPtr, AllocArena
<1> HIDE DEF start, len
<1>4. /\ arena'.base = arena.base /\ arena'.size = arena.size
      /\ arena'.used = (start - arena.base) + len
  BY <1>2, <1>3 DEF IInv, TypeOK
<1>5. TypeOK'
  <2>1. arena' \in [base : Bases \cup {NULL}, size : {0, Capacity}, used : 0 .. Capacity]
    <3>1. NewUsed(arena, r) \in 0 .. Capacity
      BY <1>1, <1>2
    <3> QED BY <1>3, <3>1 DEF IInv, TypeOK
  <2> QED BY <2>1, <1>2, <1>3 DEF IInv, TypeOK
<1>6. BlocksBehindTop'
  <2>1. arena'.used <= arena'.size
    BY <1>1, <1>2, <1>4
  <2>2. ASSUME NEW b \in blocks'
        PROVE  /\ arena'.base <= b.start
               /\ b.start + b.len <= arena'.base + arena'.used
    <3>1. CASE b = new
      BY <3>1, <1>2, <1>4
    <3>2. CASE b \in blocks
      <4>1. /\ arena.base <= b.start /\ b.start \in Nat /\ b.len \in Nat
            /\ b.start + b.len <= arena.base + arena.used
        BY <3>2 DEF IInv, TypeOK, BlocksBehindTop
      <4> QED BY <4>1, <1>2, <1>4
    <3> QED BY <3>1, <3>2, <1>3
  <2> QED BY <2>1, <2>2 DEF BlocksBehindTop
<1>7. BlocksApart'
  <2>1. ASSUME NEW b \in blocks PROVE Blocks!Apart(b, new) /\ Blocks!Apart(new, b)
    <3>1. /\ b.start \in Nat /\ b.len \in Nat
          /\ b.start + b.len <= arena.base + arena.used
      BY DEF IInv, TypeOK, BlocksBehindTop
    <3> QED BY <3>1, <1>2 DEF Blocks!Apart
  <2> QED BY <2>1, <1>3 DEF IInv, BlocksApart
<1>8. (arena.base = NULL <=> arena.size = 0)'
  BY <1>4 DEF IInv
<1> QED BY <1>1, <1>3, <1>5, <1>6, <1>7, <1>8 DEF IInv

\* A refused request changes nothing but the answer.
LEMMA RefuseStep ==
    ASSUME IInv, NEW r \in Requests, AllocRefuses(r)
    PROVE  IInv'
  BY DEF IInv, TypeOK, BlocksBehindTop, BlocksApart, AllocRefuses, NULL

LEMMA NextIInv == IInv /\ [Next]_vars => IInv'
<1> SUFFICES ASSUME IInv, [Next]_vars PROVE IInv'
  OBVIOUS
<1>1. CASE \E r \in Requests : AllocGrants(r)
  BY <1>1, GrantStep
<1>2. CASE \E r \in Requests : AllocRefuses(r)
  BY <1>2, RefuseStep
<1>3. CASE UNCHANGED vars
  BY <1>3 DEF vars, IInv, TypeOK, BlocksBehindTop, BlocksApart
<1> QED BY <1>1, <1>2, <1>3 DEF Next

LEMMA Invariance == Spec => []IInv
  BY InitIInv, NextIInv, PTL DEF Spec

-----------------------------------------------------------------------------
\* The arena's fields and blocks keep their types: no computation of alloc
\* leaves the range of a word, and its size never changes.
THEOREM TypeCorrect == Spec => []TypeOK
BY Invariance, PTL DEF IInv

\* Whatever requests arrive, alloc never moves its top past the end of the
\* arena's memory, nor below a block it handed out.
THEOREM BlocksStayBehindTop == Spec => []BlocksBehindTop
BY Invariance, PTL DEF IInv

\* Whatever requests arrive, no two blocks alloc handed out share an address.
THEOREM BlocksStayApart == Spec => []BlocksApart
BY Invariance, PTL DEF IInv

\* alloc refuses a proper request only when no aligned place between its top and
\* the end of the arena's memory is large enough.
THEOREM NoRoomWasted == Spec => RefusedOnlyWhenFull
<1> DEFINE Full(r) == (AllocRefuses(r) /\ ~BadRequest(arena, r))
       => \A s \in arena.base + arena.used .. arena.base + arena.size :
             s % r.align = 0 => s + r.size * r.count > arena.base + arena.size
<1>1. IInv => \A r \in Requests : Full(r)
  <2> SUFFICES ASSUME IInv, NEW r \in Requests, AllocRefuses(r), ~BadRequest(arena, r),
                      NEW s \in arena.base + arena.used .. arena.base + arena.size,
                      s % r.align = 0
               PROVE  s + r.size * r.count > arena.base + arena.size
    OBVIOUS
  <2> DEFINE start == BlockStart(arena, r)
             len == r.size * r.count
  <2>1. /\ arena.base \in Nat \ {0} /\ arena.size = Capacity /\ arena.used \in Nat
        /\ start \in Nat /\ start # NULL
        /\ NewUsed(arena, r) = (start - arena.base) + len
        /\ len \in Nat
        /\ \A t \in Nat : arena.base + arena.used <= t /\ t % r.align = 0 => start <= t
    BY GrantFacts DEF NULL
  <2>2. NewUsed(arena, r) > arena.size
    BY <2>1 DEF AllocRefuses, AllocPtr, Refuses
  <2>3. Capacity \in Nat
    BY ArenaAssumption
  <2>4. s \in Nat /\ arena.base + arena.used <= s
    BY <2>1, <2>3
  <2>5. start <= s
    BY <2>1, <2>4
  <2> HIDE DEF start, len
  <2>6. s + len > arena.base + arena.size
    BY <2>1, <2>2, <2>3, <2>4, <2>5
  <2> QED BY <2>6 DEF len
<1>2. IInv => [\A r \in Requests : Full(r)]_vars
  BY <1>1
<1> QED BY <1>2, Invariance, PTL DEF RefusedOnlyWhenFull

\* The bump allocator implements the abstract allocator: each grant is an
\* aligned block in the arena's memory apart from all blocks before it, and a
\* refusal changes nothing.
THEOREM Refinement == Spec => BlockSpec
<1>1. Init => Blocks!Init
  BY ArenaAssumption DEF Init, Blocks!Init, Region, NULL
<1>2. IInv /\ [Next]_vars => [Blocks!Next]_Blocks!vars
  <2> SUFFICES ASSUME IInv, [Next]_vars PROVE [Blocks!Next]_Blocks!vars
    OBVIOUS
  <2>1. ASSUME NEW r \in Requests, AllocGrants(r) PROVE Blocks!Grant(r)
    <3> DEFINE start == BlockStart(arena, r)
               len == r.size * r.count
               new == [start |-> start, len |-> len]
    <3>1. /\ IInv' /\ ~BadRequest(arena, r)
          /\ arena' = [arena EXCEPT !.used = NewUsed(arena, r)]
      BY <2>1, GrantStep DEF Refuses
    <3>2. /\ arena.base \in Nat \ {0} /\ arena.size = Capacity /\ arena.used \in Nat
          /\ start \in Nat /\ arena.base + arena.used <= start
          /\ start % r.align = 0
          /\ BlockLen(r) = len /\ len \in Nat \ {0}
          /\ NewUsed(arena, r) = (start - arena.base) + len
      BY <3>1, GrantFacts
    <3>3. NewUsed(arena, r) <= Capacity /\ Capacity \in Nat
      BY <2>1, <3>2, ArenaAssumption DEF AllocGrants, AllocPtr, Refuses
    <3>4. answer' = start /\ blocks' = blocks \cup {new}
      BY <2>1, <3>2 DEF AllocGrants, AllocPtr
    <3>5. Region' = Region
      BY <3>1 DEF Region, IInv, TypeOK
    <3>6. r.align > 0
      BY <3>1, ArenaAssumption DEF BadRequest
    <3> HIDE DEF start, len
    <3>7. /\ arena.base <= start /\ start + len <= arena.base + arena.size
          /\ start \in arena.base .. arena.base + arena.size
      BY <3>2, <3>3
    <3>8. \A c \in blocks : Blocks!Apart(new, c)
      <4> SUFFICES ASSUME NEW c \in blocks PROVE Blocks!Apart(new, c)
        OBVIOUS
      <4>1. c.start \in Nat /\ c.len \in Nat /\ c.start + c.len <= arena.base + arena.used
        BY DEF IInv, TypeOK, BlocksBehindTop
      <4> QED BY <4>1, <3>2 DEF Blocks!Apart
    <3>9. Blocks!InRegion(new)
      BY <3>7 DEF Blocks!InRegion, Region
    <3> QED BY <3>2, <3>4, <3>5, <3>6, <3>7, <3>8, <3>9 DEF Blocks!Grant, Region, len
  <2>2. ASSUME NEW r \in Requests, AllocRefuses(r) PROVE Blocks!Refuse(r)
    BY <2>2 DEF AllocRefuses, Blocks!Refuse, NULL, Region
  <2>3. CASE UNCHANGED vars
    BY <2>3 DEF vars, Blocks!vars, Region
  <2> QED BY <2>1, <2>2, <2>3 DEF Next, Blocks!Next
<1> QED BY <1>1, <1>2, Invariance, PTL DEF Spec, BlockSpec, Blocks!Spec
=============================================================================
