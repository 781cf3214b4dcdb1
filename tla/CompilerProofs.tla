---------------------------- MODULE CompilerProofs ----------------------------
(***************************************************************************)
(* For every file, every pool and every code buffer: the parser keeps its  *)
(* types and never nests its calls deeper than Depth, a null pointer is    *)
(* read only after an error, the printer's digits fit, and the code of     *)
(* each node of the pool is where it belongs.                              *)
(*                                                                         *)
(* Every parse function has a contract. Called in a Sound state (Proper),  *)
(* with depth enough below it (its rank, at most 2, and 2 for each token   *)
(* left, see Fits), it Leads to a Sound state and returns a pointer that   *)
(* is null only behind an error, or a list of pointers (Promise). The      *)
(* lemmas ...Yields, ...Lists and ...Come show it of each function from    *)
(* the contracts of those it calls (Good); CalledKeeps puts them together, *)
(* and ParseGood is the induction on the depth. A recursive function has   *)
(* to be shown to exist (LayersExist) before anything follows from its     *)
(* definition; both arguments take a least counterexample, because an      *)
(* induction theorem would need an operator for a parameter.               *)
(*                                                                         *)
(* Compiling is the inductive invariant: the parser's (Parsing), what the  *)
(* pool held when it was printed, and from then on the generator's own     *)
(* (CodegenProofs), about the pool that the parser left.                   *)
(***************************************************************************)
EXTENDS Compiler, SequenceTheorems, WellFoundedInduction, TLAPS

Tokens == tokens \in Seq(TokenTexts) /\ Len(tokens) > 0

\* What the parser makes sure of for each node of the pool: its operands are in
\* the pool, of the kinds that the compiler reads through without a test they are
\* all there and, while there was no error, none is null. A literal is a token.
NodeSound(n, size, errors) ==
    /\ \A j \in 1 .. Len(n.kids) : n.kids[j] <= size
    /\ n.kind \in {"ASSIGNMENT", "BINARY_OP"} =>
           Len(n.kids) = 2 /\ (errors = 0 => n.kids[1] # 0 /\ n.kids[2] # 0)
    /\ n.kind = "FUNC_CALL" => Len(n.kids) > 0 /\ (errors = 0 => n.kids[1] # 0)
    /\ n.kind = "LITERAL" => Len(n.text) = 1 /\ \E i \in 1 .. Len(tokens) : tokens[i] = n.text[1]

PoolSound(q) == \A i \in 1 .. Len(q.pool) : NodeSound(q.pool[i], Len(q.pool), q.errors)

Sound(q) ==
    /\ q \in States /\ q.halt # "deep"
    /\ Running(q) => q.pos <= Len(tokens)
    /\ Len(q.pool) \in 1 .. NodeCap
    /\ q.halt = "crash" => q.errors > 0
    /\ PoolSound(q)

\* The parser gets from q to r: it never goes back, forgets no error and no node,
\* and does nothing when it is halted.
Leads(q, r) ==
    /\ Sound(q) /\ Sound(r)
    /\ r.pos >= q.pos /\ r.errors >= q.errors /\ Len(r.pool) >= Len(q.pool)
    /\ ~Running(q) => r = q

\* A pointer into the pool or NULL, and one that is not NULL unless there was an
\* error.
InPool(q, k) == k \in Nat /\ (Running(q) => k <= Len(q.pool))
Points(q, k) == InPool(q, k) /\ (Running(q) /\ q.errors = 0 => k # 0)

LEMMA StateIs ==
    ASSUME NEW q, q \in States
    PROVE  /\ q.pos \in Nat /\ q.pos >= 1 /\ q.pos <= Len(tokens) + 1
           /\ q.pool \in Seq(Nodes) /\ Len(q.pool) \in Nat
           /\ q.errors \in Nat /\ q.top \in Nat
           /\ q.halt \in {"no", "exit", "crash", "overrun", "deep"}
           /\ q = [pos |-> q.pos, pool |-> q.pool, errors |-> q.errors, top |-> q.top,
                   halt |-> q.halt]
<1>1. /\ q.pos \in 1 .. Len(tokens) + 1 /\ q.pool \in Seq(Nodes)
      /\ q.errors \in Nat /\ q.top \in Nat /\ q.halt \in {"no", "exit", "crash", "overrun", "deep"}
  BY DEF States
<1>2. q = [pos |-> q.pos, pool |-> q.pool, errors |-> q.errors, top |-> q.top,
           halt |-> q.halt]
  BY DEF States
<1> QED BY <1>1, <1>2

LEMMA TokIs ==
    ASSUME Tokens, NEW q, q \in States
    PROVE  Tok(q) \in TokenTexts /\ Previous(q) \in TokenTexts
<1>1. q.pos \in Nat /\ q.pos >= 1 /\ q.pos <= Len(tokens) + 1
  BY StateIs
<1>2. Len(tokens) \in Nat /\ \A i \in 1 .. Len(tokens) : tokens[i] \in TokenTexts
  BY DEF Tokens
<1>3. q.pos <= Len(tokens) => q.pos \in 1 .. Len(tokens)
  BY <1>1, <1>2
<1>4. q.pos > 1 => q.pos - 1 \in 1 .. Len(tokens)
  BY <1>1, <1>2
<1>5. "INVALID" \in TokenTexts
  BY DEF TokenTexts, Terminals
<1> QED BY <1>2, <1>3, <1>4, <1>5 DEF Tok, Previous

LEMMA LeadsHere ==
    ASSUME NEW q, Sound(q)
    PROVE  Leads(q, q)
BY StateIs DEF Leads, Sound

LEMMA LeadsOn ==
    ASSUME NEW q, NEW r, NEW s, Leads(q, r), Leads(r, s)
    PROVE  Leads(q, s)
<1>1. q \in States /\ r \in States /\ s \in States
  BY DEF Leads, Sound
<1>2. /\ q.pos \in Nat /\ r.pos \in Nat /\ s.pos \in Nat
      /\ q.errors \in Nat /\ r.errors \in Nat /\ s.errors \in Nat
      /\ Len(q.pool) \in Nat /\ Len(r.pool) \in Nat /\ Len(s.pool) \in Nat
  BY <1>1, StateIs
<1> QED BY <1>2 DEF Leads

\* What is said of a node stays true of a bigger pool and with more errors.
LEMMA StillSound ==
    ASSUME NEW n \in Nodes, NEW small \in Nat, NEW large \in Nat, NEW few \in Nat, NEW many \in Nat,
           NodeSound(n, small, few), small <= large, few <= many
    PROVE  NodeSound(n, large, many)
<1>1. n.kids \in Seq(Nat)
  BY DEF Nodes
<1>2. \A j \in 1 .. Len(n.kids) : n.kids[j] \in Nat
  BY <1>1
<1>3. \A j \in 1 .. Len(n.kids) : n.kids[j] <= small
  BY DEF NodeSound
<1>4. \A j \in 1 .. Len(n.kids) : n.kids[j] <= large
  BY <1>2, <1>3
<1>5. /\ n.kind \in {"ASSIGNMENT", "BINARY_OP"} =>
           Len(n.kids) = 2 /\ (many = 0 => n.kids[1] # 0 /\ n.kids[2] # 0)
      /\ n.kind = "FUNC_CALL" => Len(n.kids) > 0 /\ (many = 0 => n.kids[1] # 0)
      /\ n.kind = "LITERAL" => Len(n.text) = 1 /\ \E i \in 1 .. Len(tokens) : tokens[i] = n.text[1]
  BY DEF NodeSound
<1> QED BY <1>4, <1>5 DEF NodeSound

LEMMA MovesOn ==
    ASSUME Tokens, NEW q, Sound(q)
    PROVE  /\ Leads(q, Advance(q))
           /\ Running(q) => Advance(q).pos > q.pos
<1>1. q \in States
  BY DEF Sound
<1>2. CASE ~Running(q)
  BY <1>2, LeadsHere DEF Advance
<1>3. CASE Running(q)
  <2>1. PICK r : r = Advance(q)
    OBVIOUS
  <2>2. Len(tokens) \in Nat /\ q.pos \in Nat /\ q.pos >= 1 /\ q.pos <= Len(tokens)
    BY <1>1, <1>3, StateIs DEF Sound, Tokens
  <2>3. r.pool = q.pool /\ r.errors = q.errors /\ r.top = q.top
    BY <2>1, <1>3, <1>1 DEF Advance, States
  <2>4. r.pos = q.pos + 1 /\ r.halt \in {"no", "overrun"} /\ (r.halt = "no" => r.pos <= Len(tokens))
    BY <2>1, <2>2, <1>3, <1>1 DEF Advance, States, Running
  <2>5. r = [pos |-> r.pos, pool |-> r.pool, errors |-> r.errors, top |-> r.top,
             halt |-> r.halt]
    BY <2>1, <1>3, <1>1 DEF Advance, States
  <2>6. r \in States
    BY <2>2, <2>3, <2>4, <2>5, <1>1, StateIs DEF States
  <2>7. PoolSound(r)
    BY <2>3 DEF Sound, PoolSound
  <2>8. Sound(r)
    BY <2>3, <2>4, <2>6, <2>7 DEF Sound, Running
  <2> QED BY <1>1, <1>3, <2>1, <2>2, <2>3, <2>4, <2>8, StateIs DEF Leads
<1> QED BY <1>2, <1>3

LEMMA ReportsOn ==
    ASSUME Tokens, NEW q, Sound(q)
    PROVE  /\ Leads(q, Error(q))
           /\ Running(Error(q)) => Error(q).errors > 0
           /\ Error(q).pos = q.pos /\ Error(q).pool = q.pool /\ Error(q).halt = q.halt
<1>1. q \in States
  BY DEF Sound
<1>2. CASE ~Running(q)
  BY <1>2, LeadsHere DEF Error
<1>3. CASE Running(q)
  <2>1. PICK r : r = Error(q)
    OBVIOUS
  <2>3. r.pool = q.pool /\ r.errors = q.errors + 1 /\ r.pos = q.pos /\ r.halt = q.halt /\ r.top = q.top
    BY <2>1, <1>3, <1>1 DEF Error, States
  <2>5. r = [pos |-> r.pos, pool |-> r.pool, errors |-> r.errors, top |-> r.top,
             halt |-> r.halt]
    BY <2>1, <1>3, <1>1 DEF Error, States
  <2>6. r \in States
    BY <2>3, <2>5, <1>1, StateIs DEF States
  <2>7. PoolSound(r)
    <3> SUFFICES ASSUME NEW i \in 1 .. Len(r.pool)
                 PROVE  NodeSound(r.pool[i], Len(r.pool), r.errors)
      BY DEF PoolSound
    <3>1. NodeSound(q.pool[i], Len(q.pool), q.errors) /\ q.pool[i] \in Nodes
      BY <2>3, <1>1, StateIs DEF Sound, PoolSound
    <3>2. q.errors \in Nat /\ Len(q.pool) \in Nat
      BY <1>1, StateIs
    <3>3. q.errors <= r.errors /\ r.errors \in Nat
      BY <2>3, <3>2
    <3> QED BY <3>1, <3>2, <3>3, <2>3, StillSound
  <2>8. Sound(r)
    BY <1>1, <2>3, <2>6, <2>7, StateIs DEF Sound, Running
  <2> QED BY <1>1, <1>3, <2>1, <2>3, <2>8, StateIs DEF Leads
<1> QED BY <1>2, <1>3

\* An error, and then the end of the program.
LEMMA StopsOn ==
    ASSUME Tokens, NEW q, Sound(q), NEW why \in {"exit", "crash"},
           why = "crash" /\ Running(q) => q.errors > 0
    PROVE  /\ Leads(q, Halt(q, why))
           /\ ~Running(Halt(q, why))
<1>1. q \in States
  BY DEF Sound
<1>2. CASE ~Running(q)
  BY <1>2, LeadsHere DEF Halt
<1>3. CASE Running(q)
  <2>1. PICK r : r = Halt(q, why)
    OBVIOUS
  <2>2. r.pool = q.pool /\ r.errors = q.errors /\ r.pos = q.pos /\ r.halt = why /\ r.top = q.top
    BY <2>1, <1>3, <1>1 DEF Halt, States
  <2>3. r = [pos |-> r.pos, pool |-> r.pool, errors |-> r.errors, top |-> r.top,
             halt |-> r.halt]
    BY <2>1, <1>3, <1>1 DEF Halt, States
  <2>4. r \in States
    BY <2>2, <2>3, <1>1, StateIs DEF States
  <2>5. PoolSound(r)
    BY <2>2 DEF Sound, PoolSound
  <2>6. ~Running(r)
    BY <2>2 DEF Running
  <2>7. Sound(r)
    BY <1>3, <2>2, <2>4, <2>5, <2>6 DEF Sound
  <2> QED BY <1>1, <1>3, <2>1, <2>2, <2>6, <2>7, StateIs DEF Leads
<1> QED BY <1>2, <1>3

LEMMA ExpectsOn ==
    ASSUME Tokens, NEW q, Sound(q), NEW t
    PROVE  Leads(q, Expect(q, t))
BY MovesOn, ReportsOn DEF Expect

LEMMA SkipsOn ==
    ASSUME Tokens, NEW q, Sound(q), NEW ts
    PROVE  Leads(q, SkipIf(q, ts))
BY MovesOn, LeadsHere DEF SkipIf

\* A node that may be stored in state r.
Fitting(r, n) == n \in Nodes /\ (Running(r) => NodeSound(n, Len(r.pool), r.errors))

LEMMA EmptyFits ==
    Empty \in Nodes /\ \A size, errors : NodeSound(Empty, size, errors)
<1>1. "NULL" \in Kinds
  BY DEF Kinds
<1>2. Empty.kind = "NULL" /\ Empty.kids = << >> /\ Empty \in Nodes
  BY <1>1 DEF Empty, Node, Nodes
<1> QED BY <1>2 DEF NodeSound

LEMMA TakesOn ==
    ASSUME Tokens, NEW q, Sound(q)
    PROVE  /\ Leads(q, NewNode(q))
           /\ Running(NewNode(q)) => Len(NewNode(q).pool) = Len(q.pool) + 1
           /\ NewNode(q).pos = q.pos
<1>1. q \in States
  BY DEF Sound
<1>2. CASE ~Running(q)
  BY <1>2, LeadsHere DEF NewNode
<1>3. CASE Running(q) /\ Len(q.pool) >= NodeCap
  <2>1. PICK e : e = Error(q)
    OBVIOUS
  <2>2. Sound(e) /\ Leads(q, e)
    BY <2>1, ReportsOn DEF Leads
  <2>3. Leads(e, Halt(e, "exit")) /\ ~Running(Halt(e, "exit"))
    BY <2>2, StopsOn
  <2>4. NewNode(q) = Halt(e, "exit")
    BY <1>3, <2>1 DEF NewNode
  <2>5. e \in States /\ e.pos = q.pos
    BY <2>1, <2>2, ReportsOn DEF Sound
  <2>6. Halt(e, "exit").pos = e.pos
    BY <2>5 DEF Halt, States
  <2> QED BY <2>2, <2>3, <2>4, <2>5, <2>6, LeadsOn
<1>4. CASE Running(q) /\ ~(Len(q.pool) >= NodeCap)
  <2>1. PICK r : r = NewNode(q)
    OBVIOUS
  <2>2. /\ r.pool = Append(q.pool, Empty) /\ r.errors = q.errors /\ r.pos = q.pos /\ r.halt = q.halt
        /\ r.top = q.top
    BY <2>1, <1>4, <1>1 DEF NewNode, States
  <2>3. r = [pos |-> r.pos, pool |-> r.pool, errors |-> r.errors, top |-> r.top,
             halt |-> r.halt]
    BY <2>1, <1>4, <1>1 DEF NewNode, States
  <2>4. /\ q.pool \in Seq(Nodes) /\ Len(q.pool) \in Nat /\ q.errors \in Nat
        /\ Empty \in Nodes /\ NodeCap \in Nat
    BY <1>1, StateIs, EmptyFits, ParserAssumption
  <2>5. /\ r.pool \in Seq(Nodes) /\ Len(r.pool) = Len(q.pool) + 1
        /\ \A i \in 1 .. Len(q.pool) : r.pool[i] = q.pool[i]
        /\ r.pool[Len(q.pool) + 1] = Empty
    BY <2>2, <2>4, AppendProperties
  <2>6. r \in States
    BY <2>2, <2>3, <2>5, <1>1 DEF States
  <2>7. PoolSound(r)
    <3> SUFFICES ASSUME NEW i \in 1 .. Len(r.pool)
                 PROVE  NodeSound(r.pool[i], Len(r.pool), r.errors)
      BY DEF PoolSound
    <3>1. CASE i \in 1 .. Len(q.pool)
      <4>1. NodeSound(q.pool[i], Len(q.pool), q.errors) /\ q.pool[i] \in Nodes
        BY <3>1, <2>4 DEF Sound, PoolSound
      <4>2. Len(r.pool) \in Nat /\ Len(q.pool) <= Len(r.pool) /\ q.errors <= q.errors
        BY <2>4, <2>5
      <4> QED BY <3>1, <4>1, <4>2, <2>2, <2>4, <2>5, StillSound
    <3>2. CASE i = Len(q.pool) + 1
      BY <3>2, <2>5, EmptyFits
    <3> QED BY <3>1, <3>2, <2>4, <2>5
  <2>8. Len(r.pool) \in 1 .. NodeCap
    BY <1>4, <2>4, <2>5
  <2>9. Sound(r)
    BY <1>4, <2>2, <2>6, <2>7, <2>8 DEF Sound, Running
  <2>10. q.pos \in Nat
    BY <1>1, StateIs
  <2> QED BY <1>4, <2>1, <2>2, <2>4, <2>5, <2>9, <2>10 DEF Leads
<1> QED BY <1>2, <1>3, <1>4

LEMMA InPoolOn ==
    ASSUME NEW q, NEW r, Leads(q, r), NEW k
    PROVE  /\ InPool(q, k) => InPool(r, k)
           /\ Points(q, k) => Points(r, k)
<1>1. q \in States /\ r \in States
  BY DEF Leads, Sound
<1>2. Len(q.pool) \in Nat /\ Len(r.pool) \in Nat /\ q.errors \in Nat /\ r.errors \in Nat
  BY <1>1, StateIs
<1>3. /\ r.errors >= q.errors /\ Len(r.pool) >= Len(q.pool)
      /\ Running(r) => Running(q)
  BY DEF Leads
<1>4. InPool(q, k) => InPool(r, k)
  BY <1>2, <1>3 DEF InPool
<1>5. Running(r) /\ r.errors = 0 => Running(q) /\ q.errors = 0
  BY <1>2, <1>3
<1> QED BY <1>4, <1>5 DEF Points

LEMMA AllocOn ==
    ASSUME NEW q, Sound(q), NEW words \in Nat
    PROVE  Leads(q, Alloc(q, words)) /\ Alloc(q, words).pos = q.pos
<1>1. q \in States
  BY DEF Sound
<1>2. CASE ~Running(q)
  BY <1>2, LeadsHere DEF Alloc
<1>3. CASE Running(q)
  <2>1. PICK r : r = Alloc(q, words)
    OBVIOUS
  <2>2. /\ r.pool = q.pool /\ r.errors = q.errors /\ r.pos = q.pos /\ r.halt = q.halt
        /\ r.top = q.top + words
    BY <2>1, <1>3, <1>1 DEF Alloc, States
  <2>3. r = [pos |-> r.pos, pool |-> r.pool, errors |-> r.errors, top |-> r.top,
             halt |-> r.halt]
    BY <2>1, <1>3, <1>1 DEF Alloc, States
  <2>4. r \in States
    BY <2>2, <2>3, <1>1, StateIs DEF States
  <2>5. PoolSound(r)
    BY <2>2 DEF Sound, PoolSound
  <2>6. Sound(r)
    BY <2>2, <2>4, <2>5 DEF Sound, Running
  <2> QED BY <1>1, <1>3, <2>1, <2>2, <2>6, StateIs DEF Leads
<1> QED BY <1>2, <1>3

LEMMA ReallocOn ==
    ASSUME NEW q, Sound(q), NEW a, NEW words \in Nat
    PROVE  Leads(q, Realloc(q, a, words)) /\ Realloc(q, a, words).pos = q.pos
<1>1. PICK room : room = NextCapacity(words)
  OBVIOUS
<1>2. room \in Nat
  BY <1>1 DEF NextCapacity
<1>3. Realloc(q, a, words) = q \/ Realloc(q, a, words) = Alloc(q, room)
  BY <1>1 DEF Realloc
<1> QED BY <1>2, <1>3, AllocOn, LeadsHere

\* An array of pointers.
Holds(q, a) == a \in Arrays /\ \A j \in 1 .. Len(a.items) : InPool(q, a.items[j])

LEMMA HoldsOn ==
    ASSUME NEW q, NEW r, Leads(q, r), NEW a, Holds(q, a)
    PROVE  Holds(r, a)
BY InPoolOn DEF Holds

LEMMA NoArrayHolds ==
    ASSUME NEW q
    PROVE  Holds(q, NoArray) /\ NoArray \in Arrays /\ NoArray.items = << >>
<1>1. PICK items : items = << >>
  OBVIOUS
<1>2. items \in Seq(Nat) /\ Len(items) = 0
  BY <1>1
<1>3. NoArray = [base |-> 0, items |-> items]
  BY <1>1 DEF NoArray
<1>4. NoArray \in Arrays /\ NoArray.items = items
  BY <1>2, <1>3 DEF Arrays
<1> QED BY <1>1, <1>2, <1>4 DEF Holds

LEMMA MovedHolds ==
    ASSUME NEW q \in States, NEW a \in Arrays, NEW words \in Nat
    PROVE  /\ Moved(q, a, words) \in Arrays
           /\ Len(Moved(q, a, words).items) = Len(a.items)
           /\ Holds(q, a) => Holds(q, Moved(q, a, words))
<1>1. a.items \in Seq(Nat) /\ a.base \in Nat /\ q.top \in Nat /\ Len(q.pool) \in Nat
  BY StateIs DEF Arrays
<1>2. PICK zeros : zeros = [i \in DOMAIN a.items |-> 0]
  OBVIOUS
<1>3. zeros \in Seq(Nat) /\ Len(zeros) = Len(a.items) /\ \A j \in 1 .. Len(zeros) : zeros[j] = 0
  BY <1>1, <1>2
<1>4. PICK items : items = IF a.base + words > q.top THEN zeros ELSE a.items
  OBVIOUS
<1>5. items \in Seq(Nat) /\ Len(items) = Len(a.items) /\ (items = a.items \/ items = zeros)
  BY <1>1, <1>3, <1>4
<1>6. Holds(q, a) => \A j \in 1 .. Len(items) : InPool(q, items[j])
  <2>1. InPool(q, 0)
    BY <1>1 DEF InPool
  <2> QED BY <1>3, <1>5, <2>1 DEF Holds
<1>7. PICK m : m = [base |-> q.top, items |-> items]
  OBVIOUS
<1>8. m \in Arrays /\ m.items = items
  BY <1>1, <1>5, <1>7 DEF Arrays
<1>9. Moved(q, a, words) = a \/ Moved(q, a, words) = m
  BY <1>2, <1>4, <1>7 DEF Moved
<1> QED BY <1>5, <1>6, <1>8, <1>9 DEF Holds

LEMMA StoredHolds ==
    ASSUME NEW a \in Arrays, NEW k \in Nat
    PROVE  /\ Stored(a, k) \in Arrays
           /\ Stored(a, k).items \in Seq(Nat) /\ Len(Stored(a, k).items) = Len(a.items) + 1
           /\ \A q : Holds(q, a) /\ InPool(q, k) => Holds(q, Stored(a, k))
<1>1. a.items \in Seq(Nat) /\ a.base \in Nat
  BY DEF Arrays
<1>2. PICK items : items = Append(a.items, k)
  OBVIOUS
<1>3. /\ items \in Seq(Nat) /\ Len(items) = Len(a.items) + 1
      /\ \A j \in 1 .. Len(a.items) : items[j] = a.items[j]
      /\ items[Len(a.items) + 1] = k
  BY <1>1, <1>2, AppendProperties
<1>4. Stored(a, k) = [a EXCEPT !.items = items]
  BY <1>2 DEF Stored
<1>5. PICK b : b = Stored(a, k)
  OBVIOUS
<1>6. b \in Arrays /\ b.items = items
  BY <1>1, <1>3, <1>4, <1>5 DEF Arrays
<1>7. ASSUME NEW q, Holds(q, a), InPool(q, k), NEW j \in 1 .. Len(items)
      PROVE  InPool(q, items[j])
  <2>1. Len(a.items) \in Nat
    BY <1>1
  <2>2. CASE j \in 1 .. Len(a.items)
    BY <1>3, <1>7, <2>2 DEF Holds
  <2>3. CASE j = Len(a.items) + 1
    BY <1>3, <1>7, <2>3
  <2>4. j \in 1 .. Len(a.items) + 1
    BY <1>3
  <2> QED BY <2>1, <2>2, <2>3, <2>4
<1> QED BY <1>3, <1>5, <1>6, <1>7 DEF Holds

LEMMA WithNextIs ==
    ASSUME NEW a \in Arrays
    PROVE  WithNext(a) \in Nat /\ Len(a.items) \in Nat
<1>1. a.items \in Seq(Nat)
  BY DEF Arrays
<1>2. Len(a.items) \in Nat
  BY <1>1
<1> QED BY <1>2 DEF WithNext

-----------------------------------------------------------------------------
\* What the parse functions return: a node, a list of nodes, or just a state.
Comes(q, o) == o \in Outs /\ Leads(q, o.p)
Yields(q, o) == Comes(q, o) /\ Points(o.p, o.node)
Lists(q, o) == Comes(q, o) /\ \A j \in 1 .. Len(o.list) : InPool(o.p, o.list[j])

LEMMA ComesOn ==
    ASSUME NEW q, NEW r, Leads(q, r), NEW o
    PROVE  /\ Comes(r, o) => Comes(q, o)
           /\ Yields(r, o) => Yields(q, o)
           /\ Lists(r, o) => Lists(q, o)
BY LeadsOn DEF Comes, Yields, Lists

LEMMA ResultIs ==
    ASSUME NEW q, NEW r, Leads(q, r), NEW k \in Nat
    PROVE  /\ Result(r, k) \in Outs /\ Result(r, k).p = r /\ Result(r, k).node = k
           /\ Comes(q, Result(r, k))
           /\ Points(r, k) => Yields(q, Result(r, k))
<1>1. r \in States
  BY DEF Leads, Sound
<1>2. Result(r, k).p = r /\ Result(r, k).node = k /\ Result(r, k) \in Outs
  BY <1>1 DEF Result, Outs
<1> QED BY <1>2 DEF Comes, Yields

LEMMA ListIs ==
    ASSUME NEW q, NEW r, Leads(q, r), NEW items \in Seq(Nat)
    PROVE  /\ List(r, items) \in Outs /\ List(r, items).p = r /\ List(r, items).list = items
           /\ Comes(q, List(r, items))
           /\ (\A j \in 1 .. Len(items) : InPool(r, items[j])) => Lists(q, List(r, items))
<1>1. r \in States
  BY DEF Leads, Sound
<1>2. List(r, items).p = r /\ List(r, items).list = items /\ List(r, items) \in Outs
  BY <1>1 DEF List, Outs
<1> QED BY <1>2 DEF Comes, Lists

\* Storing a node that was taken in state q, once the parser is in state r.
LEMMA Making ==
    ASSUME Tokens, NEW q, Sound(q), NEW r, Leads(NewNode(q), r),
           NEW n, Fitting(r, n)
    PROVE  /\ Yields(q, Made(q, r, n))
           /\ Running(Made(q, r, n).p) => Running(r)
           /\ Made(q, r, n).p.pos = r.pos
<1> DEFINE k == Len(q.pool) + 1
<1>1. /\ Leads(q, NewNode(q)) /\ (Running(NewNode(q)) => Len(NewNode(q).pool) = k)
      /\ Leads(q, r)
  BY TakesOn, LeadsOn
<1>2. q \in States /\ r \in States /\ Len(q.pool) \in Nat /\ k \in Nat
  BY <1>1, StateIs DEF Leads, Sound
<1>3. Made(q, r, n) = Result(IF Running(r) THEN [r EXCEPT !.pool[k] = n] ELSE r, k)
  BY DEF Made
<1> HIDE DEF k
<1>4. CASE ~Running(r)
  <2>1. Made(q, r, n) = Result(r, k) /\ Points(r, k)
    BY <1>2, <1>3, <1>4 DEF Points, InPool
  <2> QED BY <1>1, <1>2, <1>4, <2>1, ResultIs
<1>5. CASE Running(r)
  <2>1. PICK s : s = [r EXCEPT !.pool[k] = n]
    OBVIOUS
  <2>2. /\ s.pool = [r.pool EXCEPT ![k] = n] /\ s.errors = r.errors /\ s.pos = r.pos /\ s.halt = r.halt
        /\ s.top = r.top
    BY <2>1, <1>2 DEF States
  <2>3. s = [pos |-> s.pos, pool |-> s.pool, errors |-> s.errors, top |-> s.top,
             halt |-> s.halt]
    BY <2>1, <1>2 DEF States
  <2>4. Running(NewNode(q))
    BY <1>5 DEF Leads
  <2>5. Len(r.pool) >= k
    BY <1>1, <2>4 DEF Leads
  <2>6. /\ r.pool \in Seq(Nodes) /\ Len(r.pool) \in Nat /\ r.errors \in Nat /\ r.pos \in Nat
        /\ n \in Nodes /\ NodeSound(n, Len(r.pool), r.errors)
    BY <1>2, <1>5, StateIs DEF Fitting
  <2>7. /\ s.pool \in Seq(Nodes) /\ Len(s.pool) = Len(r.pool)
        /\ \A j \in 1 .. Len(r.pool) : s.pool[j] = IF j = k THEN n ELSE r.pool[j]
    <3>1. k \in 1 .. Len(r.pool)
      BY <1>2, <2>5, <2>6 DEF k
    <3> QED BY <2>2, <2>6, <3>1, ExceptSeq
  <2>8. s \in States
    BY <1>2, <2>2, <2>3, <2>7 DEF States
  <2>9. PoolSound(s)
    <3> SUFFICES ASSUME NEW i \in 1 .. Len(s.pool)
                 PROVE  NodeSound(s.pool[i], Len(s.pool), s.errors)
      BY DEF PoolSound
    <3>1. NodeSound(r.pool[i], Len(r.pool), r.errors)
      BY <2>7 DEF Leads, Sound, PoolSound
    <3>2. s.pool[i] = n \/ s.pool[i] = r.pool[i]
      BY <2>7
    <3> QED BY <3>1, <3>2, <2>2, <2>6, <2>7
  <2>10. Sound(r) /\ Running(s)
    BY <1>5, <2>2 DEF Leads, Running
  <2>11. Sound(s)
    BY <2>2, <2>7, <2>8, <2>9, <2>10, <1>5 DEF Sound
  <2>12. Leads(r, s)
    BY <1>5, <2>2, <2>6, <2>7, <2>10, <2>11 DEF Leads
  <2>13. Leads(q, s)
    BY <1>1, <2>12, LeadsOn
  <2>14. Points(s, k)
    BY <1>2, <2>2, <2>5, <2>6, <2>7 DEF Points, InPool, k
  <2>15. Made(q, r, n) = Result(s, k)
    BY <1>3, <1>5, <2>1
  <2> QED BY <1>2, <1>5, <2>2, <2>13, <2>14, <2>15, ResultIs
<1> QED BY <1>4, <1>5

Plain == Kinds \ {"ASSIGNMENT", "BINARY_OP", "FUNC_CALL", "LITERAL"}

\* The nodes that the parse functions make.
LEMMA PlainFits ==
    ASSUME NEW r, Sound(r), NEW kind \in Plain, NEW text \in Seq(TokenTexts), NEW kids \in Seq(Nat),
           \A j \in 1 .. Len(kids) : InPool(r, kids[j])
    PROVE  Fitting(r, Node(kind, text, kids))
<1>1. PICK n : n = Node(kind, text, kids)
  OBVIOUS
<1>2. n.kind = kind /\ n.text = text /\ n.kids = kids
  BY <1>1 DEF Node
<1>3. n \in Nodes
  BY <1>1 DEF Node, Nodes, Plain
<1>4. Running(r) => \A j \in 1 .. Len(n.kids) : n.kids[j] <= Len(r.pool)
  BY <1>2 DEF InPool
<1>5. Running(r) => NodeSound(n, Len(r.pool), r.errors)
  BY <1>2, <1>4 DEF NodeSound, Plain
<1> QED BY <1>1, <1>3, <1>5 DEF Fitting

\* Lists of pointers.
LEMMA OnePointer ==
    ASSUME NEW r, NEW a, InPool(r, a)
    PROVE  <<a>> \in Seq(Nat) /\ \A j \in 1 .. Len(<<a>>) : InPool(r, <<a>>[j])
<1>1. a \in Nat
  BY DEF InPool
<1>2. Len(<<a>>) = 1 /\ <<a>>[1] = a /\ <<a>> \in Seq(Nat)
  BY <1>1
<1> QED BY <1>2

LEMMA TwoPointers ==
    ASSUME NEW r, NEW a, NEW b, InPool(r, a), InPool(r, b)
    PROVE  <<a, b>> \in Seq(Nat) /\ \A j \in 1 .. Len(<<a, b>>) : InPool(r, <<a, b>>[j])
<1>1. a \in Nat /\ b \in Nat
  BY DEF InPool
<1>2. Len(<<a, b>>) = 2 /\ <<a, b>>[1] = a /\ <<a, b>>[2] = b /\ <<a, b>> \in Seq(Nat)
  BY <1>1
<1> QED BY <1>2

LEMMA ThreePointers ==
    ASSUME NEW r, NEW a, NEW b, NEW c, InPool(r, a), InPool(r, b), InPool(r, c)
    PROVE  <<a, b, c>> \in Seq(Nat) /\ \A j \in 1 .. Len(<<a, b, c>>) : InPool(r, <<a, b, c>>[j])
<1>1. a \in Nat /\ b \in Nat /\ c \in Nat
  BY DEF InPool
<1>2. /\ Len(<<a, b, c>>) = 3 /\ <<a, b, c>> \in Seq(Nat)
      /\ <<a, b, c>>[1] = a /\ <<a, b, c>>[2] = b /\ <<a, b, c>>[3] = c
  BY <1>1
<1> QED BY <1>2

LEMMA MorePointers ==
    ASSUME NEW r, NEW s \in Seq(Nat), NEW t \in Seq(Nat),
           \A j \in 1 .. Len(s) : InPool(r, s[j]), \A j \in 1 .. Len(t) : InPool(r, t[j])
    PROVE  s \o t \in Seq(Nat) /\ \A j \in 1 .. Len(s \o t) : InPool(r, (s \o t)[j])
<1>1. /\ s \o t \in Seq(Nat) /\ Len(s \o t) = Len(s) + Len(t)
      /\ \A j \in 1 .. Len(s) + Len(t) : (s \o t)[j] = IF j <= Len(s) THEN s[j] ELSE t[j - Len(s)]
  BY ConcatProperties
<1>2. Len(s) \in Nat /\ Len(t) \in Nat
  OBVIOUS
<1> SUFFICES ASSUME NEW j \in 1 .. Len(s) + Len(t)
             PROVE  InPool(r, (s \o t)[j])
  BY <1>1
<1>3. CASE j <= Len(s)
  BY <1>1, <1>2, <1>3
<1>4. CASE ~(j <= Len(s))
  <2>1. j - Len(s) \in 1 .. Len(t)
    BY <1>2, <1>4
  <2> QED BY <1>1, <1>4, <2>1
<1> QED BY <1>3, <1>4

LEMMA BinaryFits ==
    ASSUME NEW r, Sound(r), NEW kind \in {"ASSIGNMENT", "BINARY_OP"}, NEW a, NEW b,
           Points(r, a), Points(r, b)
    PROVE  Fitting(r, Node(kind, << >>, <<a, b>>))
<1>1. PICK kids : kids = <<a, b>>
  OBVIOUS
<1>2. kids \in Seq(Nat) /\ \A j \in 1 .. Len(kids) : InPool(r, kids[j])
  BY <1>1, TwoPointers DEF Points
<1>3. Len(kids) = 2 /\ kids[1] = a /\ kids[2] = b
  BY <1>1
<1>4. PICK n : n = Node(kind, << >>, kids)
  OBVIOUS
<1>5. n.kind = kind /\ n.kids = kids
  BY <1>4 DEF Node
<1>6. n \in Nodes
  BY <1>2, <1>4 DEF Node, Nodes, Kinds
<1>7. Running(r) => \A j \in 1 .. Len(n.kids) : n.kids[j] <= Len(r.pool)
  BY <1>2, <1>5 DEF InPool
<1>8. Running(r) => (r.errors = 0 => n.kids[1] # 0 /\ n.kids[2] # 0)
  BY <1>3, <1>5 DEF Points
<1>9. n.kind # "FUNC_CALL" /\ n.kind # "LITERAL" /\ Len(n.kids) = 2
  BY <1>3, <1>5
<1>10. Running(r) => NodeSound(n, Len(r.pool), r.errors)
  BY <1>7, <1>8, <1>9 DEF NodeSound
<1> QED BY <1>1, <1>4, <1>6, <1>10 DEF Fitting

LEMMA CallFits ==
    ASSUME NEW r, Sound(r), NEW a, Points(r, a), NEW args \in Seq(Nat),
           \A j \in 1 .. Len(args) : InPool(r, args[j])
    PROVE  Fitting(r, Node("FUNC_CALL", << >>, <<a>> \o args))
<1>1. PICK kids : kids = <<a>> \o args
  OBVIOUS
<1>2. <<a>> \in Seq(Nat) /\ \A j \in 1 .. Len(<<a>>) : InPool(r, <<a>>[j])
  BY OnePointer DEF Points
<1>3. kids \in Seq(Nat) /\ \A j \in 1 .. Len(kids) : InPool(r, kids[j])
  BY <1>1, <1>2, MorePointers
<1>4. Len(<<a>>) = 1 /\ <<a>>[1] = a /\ Len(args) \in Nat
  OBVIOUS
<1>5. Len(kids) = 1 + Len(args) /\ kids[1] = a
  <2>1. /\ Len(kids) = Len(<<a>>) + Len(args)
        /\ \A j \in 1 .. Len(<<a>>) + Len(args) :
              kids[j] = IF j <= Len(<<a>>) THEN <<a>>[j] ELSE args[j - Len(<<a>>)]
    BY <1>1, <1>2, ConcatProperties
  <2>2. 1 \in 1 .. Len(<<a>>) + Len(args) /\ 1 <= Len(<<a>>)
    BY <1>4
  <2> QED BY <1>4, <2>1, <2>2
<1>6. PICK n : n = Node("FUNC_CALL", << >>, kids)
  OBVIOUS
<1>7. n.kind = "FUNC_CALL" /\ n.kids = kids
  BY <1>6 DEF Node
<1>8. n \in Nodes
  BY <1>3, <1>6 DEF Node, Nodes, Kinds
<1>9. Running(r) => \A j \in 1 .. Len(n.kids) : n.kids[j] <= Len(r.pool)
  BY <1>3, <1>7 DEF InPool
<1>10. Running(r) => (r.errors = 0 => n.kids[1] # 0)
  BY <1>5, <1>7 DEF Points
<1>11. n.kind # "ASSIGNMENT" /\ n.kind # "BINARY_OP" /\ n.kind # "LITERAL" /\ Len(n.kids) > 0
  BY <1>4, <1>5, <1>7
<1>12. Running(r) => NodeSound(n, Len(r.pool), r.errors)
  BY <1>9, <1>10, <1>11 DEF NodeSound
<1> QED BY <1>1, <1>6, <1>8, <1>12 DEF Fitting

LEMMA LiteralFits ==
    ASSUME Tokens, NEW r, Sound(r), NEW i \in 1 .. Len(tokens)
    PROVE  Fitting(r, Node("LITERAL", <<tokens[i]>>, << >>))
<1>1. PICK text : text = <<tokens[i]>>
  OBVIOUS
<1>2. tokens[i] \in TokenTexts
  BY DEF Tokens
<1>3. text \in Seq(TokenTexts) /\ Len(text) = 1 /\ text[1] = tokens[i]
  BY <1>1, <1>2
<1>4. PICK n : n = Node("LITERAL", text, << >>)
  OBVIOUS
<1>5. n.kind = "LITERAL" /\ n.kids = << >> /\ n.text = text
  BY <1>4 DEF Node
<1>6. n \in Nodes
  BY <1>3, <1>4 DEF Node, Nodes, Kinds
<1>7. NodeSound(n, Len(r.pool), r.errors)
  BY <1>3, <1>5 DEF NodeSound
<1> QED BY <1>1, <1>4, <1>6, <1>7 DEF Fitting

-----------------------------------------------------------------------------
\* How deep calls may nest from here: twice for each token left, and k times more.
Fits(q, k, n) == Running(q) => n >= 2 * (Len(tokens) + 1 - q.pos) + k

Rank(fn) == IF fn \in {"expr", "infixes", "newlines"} THEN 1 ELSE 2

\* What a call promises: an expression takes a token at least.
Promise(c, o) ==
    /\ Comes(c.q, o)
    /\ c.fn \in {"expr", "infixes", "if"} => Yields(c.q, o)
    /\ c.fn = "expr" /\ Running(o.p) => o.p.pos > c.q.pos
    /\ c.fn \in {"arguments", "elements", "statements"} => Lists(c.q, o)

Proper(c) ==
    /\ Sound(c.q)
    /\ c.fn = "infixes" => Points(c.q, c.lhs)
    /\ c.fn \in {"arguments", "elements", "statements"} => Holds(c.q, c.array)

Good(sub, n) == \A c \in Calls : Proper(c) /\ Fits(c.q, Rank(c.fn), n) => Promise(c, sub[c])

Ready(sub, q, k, n) == Tokens /\ Good(sub, n) /\ Sound(q) /\ Fits(q, k, n)

LEMMA ReadyOn ==
    ASSUME NEW sub, NEW n \in Nat, NEW k \in 0 .. 2, NEW q, Ready(sub, q, k, n),
           NEW r, Leads(q, r)
    PROVE  /\ Ready(sub, r, k, n)
           /\ (Running(r) => r.pos > q.pos) => Ready(sub, r, 2, n)
           /\ Sound(r) /\ Tokens
<1>1. q \in States /\ r \in States /\ Sound(r) /\ (Running(r) => Running(q)) /\ r.pos >= q.pos
  BY DEF Leads, Sound
<1>2. q.pos \in Nat /\ r.pos \in Nat /\ Len(tokens) \in Nat
  BY <1>1, StateIs DEF Ready, Tokens
<1>3. Running(r) => n >= 2 * (Len(tokens) + 1 - q.pos) + k
  BY <1>1 DEF Ready, Fits
<1>4. Fits(r, k, n)
  <2>1. PICK a \in Nat, b \in Nat, l \in Nat : a = q.pos /\ b = r.pos /\ l = Len(tokens)
    BY <1>2
  <2>2. b >= a /\ k \in Nat /\ (Running(r) => n >= 2 * (l + 1 - a) + k)
    BY <1>1, <1>3, <2>1
  <2>3. Running(r) => n >= 2 * (l + 1 - b) + k
    BY <2>2
  <2> QED BY <2>1, <2>3 DEF Fits
<1>5. ASSUME Running(r) => r.pos > q.pos
      PROVE  Fits(r, 2, n)
  <2>1. \A a, b, l \in Nat : a > b /\ n >= 2 * (l + 1 - b) + k => n >= 2 * (l + 1 - a) + 2
    OBVIOUS
  <2> QED BY <1>2, <1>3, <1>5, <2>1 DEF Fits
<1> QED BY <1>1, <1>4, <1>5 DEF Ready

LEMMA CallIs ==
    ASSUME NEW q \in States, NEW a \in Arrays,
           NEW fn \in {"expr", "infixes", "arguments", "elements", "targets", "values",
                       "parameters", "statements", "newlines", "if"}
    PROVE  /\ Rest(fn, q, a) \in Calls /\ Rest(fn, q, a).fn = fn
           /\ Rest(fn, q, a).q = q /\ Rest(fn, q, a).array = a
<1>1. PICK c : c = Call(fn, q)
  OBVIOUS
<1>2. c = [fn |-> fn, q |-> q, prec |-> 0, lhs |-> 0, array |-> NoArray]
  BY <1>1 DEF Call
<1>3. Rest(fn, q, a) = [c EXCEPT !.array = a]
  BY <1>1 DEF Rest
<1>4. Rest(fn, q, a) = [fn |-> fn, q |-> q, prec |-> 0, lhs |-> 0, array |-> a]
  BY <1>2, <1>3
<1> QED BY <1>4 DEF Calls

LEMMA CallRest ==
    ASSUME NEW q, NEW fn
    PROVE  Call(fn, q) = Rest(fn, q, NoArray)
BY DEF Call, Rest

\* The calls of the parse functions.
LEMMA ExprSub ==
    ASSUME NEW sub, NEW n \in Nat, NEW q, Ready(sub, q, 1, n), NEW prec \in Nat
    PROVE  /\ Yields(q, Expr(sub, q, prec))
           /\ Running(Expr(sub, q, prec).p) => Expr(sub, q, prec).p.pos > q.pos
<1>1. q \in States /\ Sound(q)
  BY DEF Ready, Sound
<1>2. PICK c : c = [Call("expr", q) EXCEPT !.prec = prec]
  OBVIOUS
<1>3. c \in Calls /\ c.fn = "expr" /\ c.q = q
  <2>1. PICK a : a = NoArray /\ a \in Arrays
    BY NoArrayHolds
  <2>2. c = [fn |-> "expr", q |-> q, prec |-> prec, lhs |-> 0, array |-> a]
    BY <1>2, <2>1 DEF Call
  <2> QED BY <1>1, <2>1, <2>2 DEF Calls
<1>4. Proper(c) /\ Fits(c.q, Rank(c.fn), n)
  BY <1>1, <1>3 DEF Proper, Ready, Rank
<1>5. Promise(c, sub[c])
  BY <1>3, <1>4 DEF Ready, Good
<1> QED BY <1>2, <1>3, <1>5 DEF Promise, Expr

LEMMA InfixesSub ==
    ASSUME NEW sub, NEW n \in Nat, NEW o \in Outs, Ready(sub, o.p, 1, n), Points(o.p, o.node),
           NEW prec \in Nat
    PROVE  Yields(o.p, InfixesOf(sub, o, prec))
<1>1. o.p \in States /\ Sound(o.p) /\ o.node \in Nat
  BY DEF Ready, Sound, Outs
<1>2. PICK c : c = [Call("infixes", o.p) EXCEPT !.lhs = o.node, !.prec = prec]
  OBVIOUS
<1>3. c \in Calls /\ c.fn = "infixes" /\ c.q = o.p /\ c.lhs = o.node
  <2>1. PICK a : a = NoArray /\ a \in Arrays
    BY NoArrayHolds
  <2>2. c = [fn |-> "infixes", q |-> o.p, prec |-> prec, lhs |-> o.node, array |-> a]
    BY <1>2, <2>1 DEF Call
  <2> QED BY <1>1, <2>1, <2>2 DEF Calls
<1>4. Proper(c) /\ Fits(c.q, Rank(c.fn), n)
  BY <1>1, <1>3 DEF Proper, Ready, Rank
<1>5. Promise(c, sub[c])
  BY <1>3, <1>4 DEF Ready, Good
<1> QED BY <1>2, <1>3, <1>5 DEF Promise, InfixesOf

LEMMA RestSub ==
    ASSUME NEW sub, NEW n \in Nat, NEW q, NEW fn, Ready(sub, q, Rank(fn), n), NEW a, a \in Arrays,
           fn \in {"arguments", "elements", "targets", "values", "parameters", "statements",
                   "newlines", "if"},
           fn \in {"arguments", "elements", "statements"} => Holds(q, a)
    PROVE  /\ Promise(Rest(fn, q, a), sub[Rest(fn, q, a)])
           /\ Rest(fn, q, a).fn = fn /\ Rest(fn, q, a).q = q
<1>1. q \in States /\ Sound(q)
  BY DEF Ready, Sound
<1>2. PICK c : c = Rest(fn, q, a)
  OBVIOUS
<1>3. c \in Calls /\ c.fn = fn /\ c.q = q /\ c.array = a
  BY <1>1, <1>2, CallIs
<1>4. Proper(c) /\ Fits(c.q, Rank(c.fn), n)
  BY <1>1, <1>3 DEF Proper, Ready
<1>5. Promise(c, sub[c])
  BY <1>3, <1>4 DEF Ready, Good
<1> QED BY <1>2, <1>3, <1>5

LEMMA CallSub ==
    ASSUME NEW sub, NEW n \in Nat, NEW q, NEW fn, Ready(sub, q, Rank(fn), n),
           fn \in {"arguments", "elements", "targets", "values", "parameters", "statements",
                   "newlines", "if"}
    PROVE  Promise(Call(fn, q), sub[Call(fn, q)]) /\ Call(fn, q).fn = fn /\ Call(fn, q).q = q
<1>1. PICK a : a = NoArray /\ a \in Arrays /\ Holds(q, a)
  BY NoArrayHolds
<1>2. /\ Promise(Rest(fn, q, a), sub[Rest(fn, q, a)])
      /\ Rest(fn, q, a).fn = fn /\ Rest(fn, q, a).q = q
  BY <1>1, RestSub
<1> QED BY <1>1, <1>2, CallRest

\* The rest of a list of pointers, of one of other things.
LEMMA ListSub ==
    ASSUME NEW sub, NEW n \in Nat, NEW q, Ready(sub, q, 2, n), NEW a, Holds(q, a),
           NEW fn \in {"arguments", "elements", "statements"}
    PROVE  Lists(q, sub[Rest(fn, q, a)])
<1>1. Rank(fn) = 2 /\ a \in Arrays
  BY DEF Rank, Holds
<1> QED BY <1>1, RestSub DEF Promise

LEMMA ListsSub ==
    ASSUME NEW sub, NEW n \in Nat, NEW q, Ready(sub, q, 2, n),
           NEW fn \in {"arguments", "elements", "statements"}
    PROVE  Lists(q, sub[Call(fn, q)])
BY ListSub, NoArrayHolds, CallRest

LEMMA OtherSub ==
    ASSUME NEW sub, NEW n \in Nat, NEW q, Ready(sub, q, 2, n), NEW a \in Arrays,
           NEW fn \in {"targets", "values", "parameters"}
    PROVE  Comes(q, sub[Rest(fn, q, a)])
<1>1. Rank(fn) = 2
  BY DEF Rank
<1> QED BY <1>1, RestSub DEF Promise

\* The same, when the parser got from q to r.
LEMMA ListOn ==
    ASSUME NEW sub, NEW n \in Nat, NEW q, Ready(sub, q, 2, n), NEW r, Leads(q, r),
           NEW a, Holds(q, a), NEW fn \in {"arguments", "elements", "statements"}
    PROVE  Lists(q, sub[Rest(fn, r, a)])
<1>1. Ready(sub, r, 2, n)
  BY ReadyOn
<1>2. Holds(r, a)
  BY HoldsOn
<1>3. PICK o : o = sub[Rest(fn, r, a)]
  OBVIOUS
<1>4. Lists(r, o)
  BY <1>1, <1>2, <1>3, ListSub
<1> QED BY <1>3, <1>4, ComesOn

LEMMA OtherOn ==
    ASSUME NEW sub, NEW n \in Nat, NEW q, Ready(sub, q, 2, n), NEW r, Leads(q, r),
           NEW a \in Arrays, NEW fn \in {"targets", "values", "parameters"}
    PROVE  Comes(q, sub[Rest(fn, r, a)])
<1>1. Ready(sub, r, 2, n)
  BY ReadyOn
<1>2. PICK o : o = sub[Rest(fn, r, a)]
  OBVIOUS
<1>3. Comes(r, o)
  BY <1>1, <1>2, OtherSub
<1> QED BY <1>2, <1>3, ComesOn

LEMMA IfSub ==
    ASSUME NEW sub, NEW n \in Nat, NEW q, Ready(sub, q, 2, n)
    PROVE  Yields(q, sub[Call("if", q)])
<1>1. Rank("if") = 2
  BY DEF Rank
<1> QED BY <1>1, CallSub DEF Promise

LEMMA NewlinesSub ==
    ASSUME NEW sub, NEW n \in Nat, NEW q, Ready(sub, q, 1, n)
    PROVE  Comes(q, sub[Call("newlines", q)])
<1>1. Rank("newlines") = 1
  BY DEF Rank
<1> QED BY <1>1, CallSub DEF Promise

LEMMA Weaker ==
    ASSUME NEW sub, NEW n \in Nat, NEW q, Ready(sub, q, 2, n)
    PROVE  Ready(sub, q, 1, n)
<1>1. q \in States
  BY DEF Ready, Sound
<1>2. q.pos \in Nat /\ Len(tokens) \in Nat
  BY <1>1, StateIs DEF Ready, Tokens
<1> QED BY <1>2 DEF Ready, Fits

\* A node is taken first, and an expression parsed.
LEMMA TakesAndParses ==
    ASSUME NEW sub, NEW n \in Nat, NEW q, Ready(sub, q, 2, n), NEW prec \in Nat,
           NEW o, o = Expr(sub, NewNode(q), prec)
    PROVE  /\ o \in Outs /\ Sound(q) /\ Tokens /\ Sound(o.p)
           /\ Leads(NewNode(q), o.p) /\ Leads(q, o.p)
           /\ Points(o.p, o.node) /\ Ready(sub, o.p, 2, n)
<1>1. Sound(q) /\ Tokens /\ Leads(q, NewNode(q))
  BY TakesOn DEF Ready
<1>2. Ready(sub, NewNode(q), 1, n)
  BY <1>1, ReadyOn, Weaker
<1>3. Yields(NewNode(q), o)
  BY <1>2, ExprSub
<1>4. Leads(NewNode(q), o.p) /\ o \in Outs /\ Points(o.p, o.node)
  BY <1>3 DEF Yields, Comes
<1>5. Leads(q, o.p)
  BY <1>1, <1>4, LeadsOn
<1> QED BY <1>1, <1>4, <1>5, ReadyOn

-----------------------------------------------------------------------------
\* The parse functions of the operators.
LEMMA AssignYields ==
    ASSUME NEW sub, NEW n \in Nat, NEW q, Ready(sub, q, 2, n), NEW lhs, Points(q, lhs)
    PROVE  Yields(q, ParseAssign(sub, q, lhs))
<1>1. PICK rhs : rhs = Expr(sub, NewNode(q), NONE)
  OBVIOUS
<1>2. /\ rhs \in Outs /\ Sound(q) /\ Tokens /\ Sound(rhs.p)
      /\ Leads(NewNode(q), rhs.p) /\ Leads(q, rhs.p) /\ Points(rhs.p, rhs.node)
  BY <1>1, TakesAndParses DEF NONE
<1>3. Fitting(rhs.p, Node("ASSIGNMENT", << >>, <<lhs, rhs.node>>))
  BY <1>2, InPoolOn, BinaryFits
<1>4. ParseAssign(sub, q, lhs) = Made(q, rhs.p, Node("ASSIGNMENT", << >>, <<lhs, rhs.node>>))
  BY <1>1, <1>2 DEF With, ParseAssign
<1> QED BY <1>2, <1>3, <1>4, Making

LEMMA BinaryYields ==
    ASSUME NEW sub, NEW n \in Nat, NEW q, Ready(sub, q, 2, n), NEW lhs, Points(q, lhs)
    PROVE  Yields(q, ParseBinary(sub, q, lhs))
<1>1. PICK rhs : rhs = Expr(sub, NewNode(q), FACTOR)
  OBVIOUS
<1>2. /\ rhs \in Outs /\ Sound(q) /\ Tokens /\ Sound(rhs.p)
      /\ Leads(NewNode(q), rhs.p) /\ Leads(q, rhs.p) /\ Points(rhs.p, rhs.node)
  BY <1>1, TakesAndParses DEF FACTOR
<1>3. Fitting(rhs.p, Node("BINARY_OP", << >>, <<lhs, rhs.node>>))
  BY <1>2, InPoolOn, BinaryFits
<1>4. ParseBinary(sub, q, lhs) = Made(q, rhs.p, Node("BINARY_OP", << >>, <<lhs, rhs.node>>))
  BY <1>1, <1>2 DEF With, ParseBinary
<1> QED BY <1>2, <1>3, <1>4, Making

LEMMA OneText ==
    ASSUME Tokens, NEW q, Sound(q)
    PROVE  <<Previous(q)>> \in Seq(TokenTexts) /\ <<Tok(q)>> \in Seq(TokenTexts)
           /\ << >> \in Seq(TokenTexts) /\ << >> \in Seq(Nat)
<1>1. Previous(q) \in TokenTexts /\ Tok(q) \in TokenTexts
  BY TokIs DEF Sound
<1> QED BY <1>1

LEMMA RangeYields ==
    ASSUME NEW sub, NEW n \in Nat, NEW q, Ready(sub, q, 2, n), NEW lhs, Points(q, lhs)
    PROVE  Yields(q, ParseRange(sub, q, lhs))
<1>1. PICK rhs : rhs = Expr(sub, NewNode(q), RANGE)
  OBVIOUS
<1>2. /\ rhs \in Outs /\ Sound(q) /\ Tokens /\ Sound(rhs.p)
      /\ Leads(NewNode(q), rhs.p) /\ Leads(q, rhs.p) /\ Points(rhs.p, rhs.node)
  BY <1>1, TakesAndParses DEF RANGE
<1>3. InPool(rhs.p, lhs) /\ InPool(rhs.p, rhs.node)
  BY <1>2, InPoolOn DEF Points
<1>4. "RANGE" \in Plain
  BY DEF Plain, Kinds
<1>5. PICK text : text = <<Previous(q)>> /\ text \in Seq(TokenTexts)
  BY <1>2, OneText
<1>6. PICK kids \in Seq(Nat) : kids = <<lhs, rhs.node>> /\ \A j \in 1 .. Len(kids) : InPool(rhs.p, kids[j])
  BY <1>3, TwoPointers
<1>7. Fitting(rhs.p, Node("RANGE", text, kids))
  BY <1>2, <1>4, <1>5, <1>6, PlainFits
<1>8. ParseRange(sub, q, lhs) = Made(q, rhs.p, Node("RANGE", text, kids))
  BY <1>1, <1>2, <1>5, <1>6 DEF With, ParseRange
<1> QED BY <1>2, <1>7, <1>8, Making

LEMMA UnaryYields ==
    ASSUME NEW sub, NEW n \in Nat, NEW q, Ready(sub, q, 2, n)
    PROVE  Yields(q, ParseUnary(sub, q))
<1>1. PICK operand : operand = Expr(sub, NewNode(q), UNARY)
  OBVIOUS
<1>2. /\ operand \in Outs /\ Sound(q) /\ Tokens /\ Sound(operand.p)
      /\ Leads(NewNode(q), operand.p) /\ InPool(operand.p, operand.node)
  BY <1>1, TakesAndParses DEF UNARY, Points
<1>3. "UNARY" \in Plain
  BY DEF Plain, Kinds
<1>4. PICK text : text = <<Previous(q)>> /\ text \in Seq(TokenTexts)
  BY <1>2, OneText
<1>5. PICK kids \in Seq(Nat) : kids = <<operand.node>> /\ \A j \in 1 .. Len(kids) : InPool(operand.p, kids[j])
  BY <1>2, OnePointer
<1>6. Fitting(operand.p, Node("UNARY", text, kids))
  BY <1>2, <1>3, <1>4, <1>5, PlainFits
<1>7. ParseUnary(sub, q) = Made(q, operand.p, Node("UNARY", text, kids))
  BY <1>1, <1>2, <1>4, <1>5 DEF With, ParseUnary
<1> QED BY <1>2, <1>6, <1>7, Making

LEMMA TernaryYields ==
    ASSUME NEW sub, NEW n \in Nat, NEW q, Ready(sub, q, 2, n), NEW lhs, Points(q, lhs)
    PROVE  Yields(q, ParseTernary(sub, q, lhs))
<1>1. PICK then : then = ParseExpr(sub, NewNode(q))
  OBVIOUS
<1>2. /\ then \in Outs /\ Sound(q) /\ Tokens /\ Sound(then.p)
      /\ Leads(NewNode(q), then.p) /\ Leads(q, then.p) /\ Points(then.p, then.node)
      /\ Ready(sub, then.p, 2, n)
  BY <1>1, TakesAndParses DEF ParseExpr, NONE
<1>3. PICK r : r = Expect(then.p, ":")
  OBVIOUS
<1>4. Leads(then.p, r) /\ Ready(sub, r, 1, n)
  BY <1>2, <1>3, ExpectsOn, ReadyOn, Weaker
<1>5. PICK else : else = Expr(sub, r, TERNARY)
  OBVIOUS
<1>6. Yields(r, else)
  BY <1>4, <1>5, ExprSub DEF TERNARY
<1>7. else \in Outs /\ Leads(r, else.p) /\ InPool(else.p, else.node)
  BY <1>6 DEF Yields, Comes, Points
<1>8. Leads(then.p, else.p) /\ Leads(NewNode(q), else.p) /\ Leads(q, else.p) /\ Sound(else.p)
  BY <1>2, <1>4, <1>7, LeadsOn DEF Leads
<1>9. InPool(else.p, lhs) /\ InPool(else.p, then.node)
  BY <1>2, <1>8, InPoolOn DEF Points
<1>10. "TERNARY" \in Plain /\ << >> \in Seq(TokenTexts)
  BY DEF Plain, Kinds
<1>11. PICK kids \in Seq(Nat) : /\ kids = <<lhs, then.node, else.node>>
                                /\ \A j \in 1 .. Len(kids) : InPool(else.p, kids[j])
  BY <1>7, <1>9, ThreePointers
<1>12. Fitting(else.p, Node("TERNARY", << >>, kids))
  BY <1>8, <1>10, <1>11, PlainFits
<1>13. ParseTernary(sub, q, lhs) = Made(q, else.p, Node("TERNARY", << >>, kids))
  BY <1>1, <1>2, <1>3, <1>5, <1>7, <1>11 DEF With, ParseTernary
<1> QED BY <1>2, <1>8, <1>12, <1>13, Making

LEMMA HeldLists ==
    ASSUME NEW q, NEW r, Leads(q, r), NEW a, Holds(r, a)
    PROVE  Lists(q, List(r, a.items))
BY ListIs DEF Holds, Arrays

LEMMA NoneLists ==
    ASSUME NEW q, NEW r, Leads(q, r)
    PROVE  Lists(q, List(r, << >>))
<1>1. << >> \in Seq(Nat) /\ Len(<< >>) = 0
  OBVIOUS
<1>2. PICK items : items = << >>
  OBVIOUS
<1>3. items \in Seq(Nat) /\ \A j \in 1 .. Len(items) : InPool(r, items[j])
  BY <1>1, <1>2
<1> QED BY <1>2, <1>3, ListIs

\* The slot of a list's next element is reserved, and the element parsed: then the
\* list has one more.
LEMMA Reserves ==
    ASSUME NEW sub, NEW n \in Nat, NEW q, Ready(sub, q, 1, n), NEW a \in Arrays, NEW words \in Nat,
           NEW prec \in Nat, NEW o, o = Expr(sub, Realloc(q, a, words), prec)
    PROVE  /\ o \in Outs /\ Leads(q, o.p) /\ Points(o.p, o.node) /\ Ready(sub, o.p, 2, n)
           /\ Stored(Moved(q, a, words), o.node) \in Arrays
           /\ Holds(q, a) => Holds(o.p, Stored(Moved(q, a, words), o.node))
<1>1. PICK r : r = Realloc(q, a, words)
  OBVIOUS
<1>2. Sound(q) /\ Tokens /\ q \in States
  BY DEF Ready, Sound
<1>3. Leads(q, r) /\ r.pos = q.pos
  BY <1>1, <1>2, ReallocOn
<1>4. Ready(sub, r, 1, n)
  BY <1>3, ReadyOn
<1>5. Yields(r, o) /\ (Running(o.p) => o.p.pos > r.pos)
  BY <1>1, <1>4, ExprSub
<1>6. o \in Outs /\ Leads(r, o.p) /\ Points(o.p, o.node) /\ Ready(sub, o.p, 2, n)
  <2>1. o \in Outs /\ Leads(r, o.p) /\ Points(o.p, o.node)
    BY <1>5 DEF Yields, Comes
  <2> QED BY <1>4, <1>5, <2>1, ReadyOn
<1>7. Leads(q, o.p) /\ o.node \in Nat /\ InPool(o.p, o.node)
  BY <1>3, <1>6, LeadsOn DEF Points, InPool
<1>8. PICK m : m = Moved(q, a, words)
  OBVIOUS
<1>9. m \in Arrays /\ (Holds(q, a) => Holds(q, m))
  BY <1>2, <1>8, MovedHolds
<1>10. Holds(q, a) => Holds(o.p, m)
  BY <1>7, <1>9, HoldsOn
<1> QED BY <1>6, <1>7, <1>8, <1>9, <1>10, StoredHolds

LEMMA ArgumentsList ==
    ASSUME NEW sub, NEW n \in Nat, NEW q, Ready(sub, q, 1, n), NEW args, Holds(q, args)
    PROVE  Lists(q, Arguments(sub, q, args))
<1>1. PICK words : words = WithNext(args)
  OBVIOUS
<1>2. PICK arg : arg = Expr(sub, Realloc(q, args, words), COMMA)
  OBVIOUS
<1>3. PICK more : more = Stored(Moved(q, args, words), arg.node)
  OBVIOUS
<1>4. /\ arg \in Outs /\ Leads(q, arg.p) /\ Ready(sub, arg.p, 2, n) /\ Holds(arg.p, more)
  <2>1. args \in Arrays /\ words \in Nat /\ COMMA \in Nat
    BY <1>1, WithNextIs DEF Holds, COMMA
  <2> QED BY <1>2, <1>3, <2>1, Reserves
<1>5. PICK r : r = Advance(arg.p)
  OBVIOUS
<1>6. Leads(arg.p, r)
  BY <1>4, <1>5, MovesOn DEF Ready
<1>7. Lists(arg.p, sub[Rest("arguments", r, more)])
  BY <1>4, <1>6, ListOn
<1>8. Lists(q, sub[Rest("arguments", r, more)]) /\ Lists(q, List(arg.p, more.items))
  BY <1>4, <1>7, ComesOn, HeldLists
<1>9. Arguments(sub, q, args) = IF Match(arg.p, ",") THEN sub[Rest("arguments", r, more)]
                                ELSE List(arg.p, more.items)
  BY <1>1, <1>2, <1>3, <1>4, <1>5 DEF With, Arguments
<1> QED BY <1>8, <1>9

LEMMA ArgumentListLists ==
    ASSUME NEW sub, NEW n \in Nat, NEW r, Ready(sub, r, 2, n)
    PROVE  Lists(r, ArgumentList(sub, r))
BY LeadsHere, NoneLists, ListsSub DEF ArgumentList, Ready

LEMMA CallYields ==
    ASSUME NEW sub, NEW n \in Nat, NEW q, Ready(sub, q, 2, n), NEW lhs, Points(q, lhs)
    PROVE  Yields(q, ParseCall(sub, q, lhs))
<1>1. Sound(q) /\ Tokens /\ Leads(q, NewNode(q)) /\ Ready(sub, NewNode(q), 2, n)
  BY TakesOn, ReadyOn DEF Ready
<1>2. PICK args : args = ArgumentList(sub, NewNode(q))
  OBVIOUS
<1>3. Lists(NewNode(q), args)
  BY <1>1, <1>2, ArgumentListLists
<1>4. PICK r : r = Expect(args.p, ")")
  OBVIOUS
<1>5. args \in Outs /\ Leads(NewNode(q), args.p) /\ Leads(args.p, r)
  BY <1>1, <1>3, <1>4, ExpectsOn DEF Lists, Comes, Leads
<1>6. Leads(NewNode(q), r) /\ Leads(q, r) /\ Sound(r)
  BY <1>1, <1>5, LeadsOn DEF Leads
<1>7. args.list \in Seq(Nat) /\ \A j \in 1 .. Len(args.list) : InPool(r, args.list[j])
  BY <1>3, <1>5, InPoolOn DEF Lists, Outs
<1>8. Fitting(r, Node("FUNC_CALL", << >>, <<lhs>> \o args.list))
  BY <1>6, <1>7, InPoolOn, CallFits
<1>9. ParseCall(sub, q, lhs) = Made(q, r, Node("FUNC_CALL", << >>, <<lhs>> \o args.list))
  BY <1>2, <1>4, <1>5 DEF With, ParseCall
<1> QED BY <1>1, <1>6, <1>8, <1>9, Making

LEMMA IndexYields ==
    ASSUME NEW sub, NEW n \in Nat, NEW q, Ready(sub, q, 2, n), NEW lhs, Points(q, lhs)
    PROVE  Yields(q, ParseIndex(sub, q, lhs))
<1>1. PICK index : index = ParseExpr(sub, NewNode(q))
  OBVIOUS
<1>2. /\ index \in Outs /\ Sound(q) /\ Tokens /\ Sound(index.p)
      /\ Leads(NewNode(q), index.p) /\ Leads(q, index.p) /\ Points(index.p, index.node)
  BY <1>1, TakesAndParses DEF ParseExpr, NONE
<1>3. PICK r : r = Expect(index.p, "]")
  OBVIOUS
<1>4. Leads(index.p, r) /\ Leads(NewNode(q), r) /\ Leads(q, r) /\ Sound(r)
  BY <1>2, <1>3, ExpectsOn, LeadsOn DEF Leads
<1>5. InPool(r, lhs) /\ InPool(r, index.node)
  BY <1>2, <1>4, InPoolOn DEF Points
<1>6. "INDEX" \in Plain /\ << >> \in Seq(TokenTexts)
  BY DEF Plain, Kinds
<1>7. PICK kids \in Seq(Nat) : kids = <<lhs, index.node>> /\ \A j \in 1 .. Len(kids) : InPool(r, kids[j])
  BY <1>5, TwoPointers
<1>8. Fitting(r, Node("INDEX", << >>, kids))
  BY <1>4, <1>6, <1>7, PlainFits
<1>9. ParseIndex(sub, q, lhs) = Made(q, r, Node("INDEX", << >>, kids))
  BY <1>1, <1>2, <1>3, <1>7 DEF With, ParseIndex
<1> QED BY <1>2, <1>4, <1>8, <1>9, Making

LEMMA DotYields ==
    ASSUME Tokens, NEW q, Sound(q), NEW lhs, Points(q, lhs)
    PROVE  Yields(q, ParseDot(q, lhs))
<1>1. PICK r : r = NewNode(q)
  OBVIOUS
<1>2. Leads(q, r) /\ Sound(r)
  BY <1>1, TakesOn DEF Leads
<1>3. "DOT_ACCESS" \in Plain
  BY DEF Plain, Kinds
<1>4. ASSUME NEW s, Leads(r, s), NEW text \in Seq(TokenTexts)
      PROVE  Yields(q, Made(q, s, Node("DOT_ACCESS", text, <<lhs>>)))
  <2>1. InPool(s, lhs) /\ Sound(s)
    BY <1>2, <1>4, InPoolOn DEF Points, Leads
  <2>2. PICK kids \in Seq(Nat) : kids = <<lhs>> /\ \A j \in 1 .. Len(kids) : InPool(s, kids[j])
    BY <2>1, OnePointer
  <2>3. Fitting(s, Node("DOT_ACCESS", text, kids))
    BY <1>3, <2>1, <2>2, PlainFits
  <2> QED BY <1>1, <1>4, <2>2, <2>3, Making
<1>5. /\ Leads(r, Advance(r)) /\ Leads(r, Error(r))
      /\ <<Tok(r)>> \in Seq(TokenTexts) /\ << >> \in Seq(TokenTexts)
  BY <1>2, MovesOn, ReportsOn, OneText
<1>6. ParseDot(q, lhs) = IF Tok(r) \in Identifiers
                         THEN Made(q, Advance(r), Node("DOT_ACCESS", <<Tok(r)>>, <<lhs>>))
                         ELSE Made(q, Error(r), Node("DOT_ACCESS", << >>, <<lhs>>))
  BY <1>1 DEF ParseDot
<1> QED BY <1>4, <1>5, <1>6

LEMMA GroupingYields ==
    ASSUME NEW sub, NEW n \in Nat, NEW q, Ready(sub, q, 2, n)
    PROVE  Yields(q, ParseGrouping(sub, q))
<1>1. PICK inner : inner = ParseExpr(sub, q)
  OBVIOUS
<1>2. Yields(q, inner)
  BY <1>1, Weaker, ExprSub DEF ParseExpr, NONE
<1>3. PICK r : r = Expect(inner.p, ")")
  OBVIOUS
<1>4. inner \in Outs /\ Leads(q, inner.p) /\ Leads(inner.p, r) /\ Points(inner.p, inner.node)
  BY <1>2, <1>3, ExpectsOn DEF Yields, Comes, Leads, Ready
<1>5. Leads(q, r) /\ Points(r, inner.node) /\ inner.node \in Nat
  BY <1>4, LeadsOn, InPoolOn DEF Outs
<1>6. ParseGrouping(sub, q) = Result(r, inner.node)
  BY <1>1, <1>3, <1>4 DEF With, ParseGrouping
<1> QED BY <1>5, <1>6, ResultIs

LEMMA ElementsList ==
    ASSUME NEW sub, NEW n \in Nat, NEW q, Ready(sub, q, 1, n), NEW elems, Holds(q, elems)
    PROVE  Lists(q, Elements(sub, q, elems))
<1>1. PICK words : words = WithNext(elems)
  OBVIOUS
<1>2. PICK elem : elem = Expr(sub, Realloc(q, elems, words), PRIMARY)
  OBVIOUS
<1>3. PICK more : more = Stored(Moved(q, elems, words), elem.node)
  OBVIOUS
<1>4. /\ elem \in Outs /\ Leads(q, elem.p) /\ Ready(sub, elem.p, 2, n) /\ Holds(elem.p, more)
  <2>1. elems \in Arrays /\ words \in Nat /\ PRIMARY \in Nat
    BY <1>1, WithNextIs DEF Holds, PRIMARY
  <2> QED BY <1>2, <1>3, <2>1, Reserves
<1>5. PICK r : r = Advance(elem.p)
  OBVIOUS
<1>6. Leads(elem.p, r) /\ Leads(q, q)
  BY <1>4, <1>5, MovesOn, LeadsHere DEF Ready
<1>7. Lists(elem.p, sub[Rest("elements", r, more)])
  BY <1>4, <1>6, ListOn
<1>8. /\ Lists(q, sub[Rest("elements", r, more)]) /\ Lists(q, List(elem.p, more.items))
      /\ Lists(q, List(q, elems.items))
  BY <1>4, <1>6, <1>7, ComesOn, HeldLists
<1>9. Elements(sub, q, elems) = IF Match(q, "]") THEN List(q, elems.items)
                                ELSE IF Match(elem.p, ",") THEN sub[Rest("elements", r, more)]
                                ELSE List(elem.p, more.items)
  BY <1>1, <1>2, <1>3, <1>4, <1>5 DEF With, Elements
<1> QED BY <1>8, <1>9

LEMMA RepeatLengthYields ==
    ASSUME NEW sub, NEW n \in Nat, NEW elems \in Outs, Ready(sub, elems.p, 2, n)
    PROVE  /\ Comes(elems.p, RepeatLength(sub, elems))
           /\ InPool(RepeatLength(sub, elems).p, RepeatLength(sub, elems).node)
<1>1. Sound(elems.p) /\ Tokens /\ Leads(elems.p, elems.p)
  BY LeadsHere DEF Ready
<1>2. CASE ~Match(elems.p, ";")
  <2>1. RepeatLength(sub, elems) = Result(elems.p, 0)
    BY <1>2 DEF RepeatLength
  <2>2. elems.p \in States
    BY <1>1 DEF Sound
  <2>3. InPool(elems.p, 0)
    BY <2>2, StateIs DEF InPool
  <2> QED BY <1>1, <2>1, <2>3, ResultIs
<1>3. CASE Match(elems.p, ";")
  <2>1. PICK r : r = Advance(elems.p)
    OBVIOUS
  <2>2. Leads(elems.p, r) /\ Leads(r, Error(r))
    BY <1>1, <2>1, MovesOn, ReportsOn DEF Leads
  <2>3. PICK s : s = IF Len(elems.list) = 1 THEN r ELSE Error(r)
    OBVIOUS
  <2>4. Leads(elems.p, s)
    BY <2>2, <2>3, LeadsOn
  <2>5. Yields(s, Expr(sub, s, NONE))
    <3>1. Ready(sub, s, 1, n)
      BY <2>4, ReadyOn, Weaker
    <3> QED BY <3>1, ExprSub DEF NONE
  <2>6. RepeatLength(sub, elems) = Expr(sub, s, NONE)
    BY <1>3, <2>1, <2>3 DEF RepeatLength, ParseExpr
  <2> QED BY <2>4, <2>5, <2>6, ComesOn DEF Yields, Points
<1> QED BY <1>2, <1>3

LEMMA AppendPointer ==
    ASSUME NEW r, NEW s \in Seq(Nat), \A j \in 1 .. Len(s) : InPool(r, s[j]), NEW a, InPool(r, a)
    PROVE  Append(s, a) \in Seq(Nat) /\ \A j \in 1 .. Len(Append(s, a)) : InPool(r, Append(s, a)[j])
<1>1. a \in Nat /\ Len(s) \in Nat
  BY DEF InPool
<1>2. /\ Append(s, a) \in Seq(Nat) /\ Len(Append(s, a)) = Len(s) + 1
      /\ \A j \in 1 .. Len(s) : Append(s, a)[j] = s[j]
      /\ Append(s, a)[Len(s) + 1] = a
  BY <1>1, AppendProperties
<1> SUFFICES ASSUME NEW j \in 1 .. Len(s) + 1
             PROVE  InPool(r, Append(s, a)[j])
  BY <1>2
<1>3. CASE j \in 1 .. Len(s)
  BY <1>2, <1>3
<1>4. CASE j = Len(s) + 1
  BY <1>2, <1>4
<1> QED BY <1>1, <1>3, <1>4

LEMMA ArrayLitYields ==
    ASSUME NEW sub, NEW n \in Nat, NEW q, Ready(sub, q, 2, n)
    PROVE  Yields(q, ParseArrayLit(sub, q))
<1>1. Sound(q) /\ Tokens /\ Leads(q, NewNode(q)) /\ Ready(sub, NewNode(q), 2, n)
  BY TakesOn, ReadyOn DEF Ready
<1>2. PICK elems : elems = sub[Call("elements", NewNode(q))]
  OBVIOUS
<1>3. Lists(NewNode(q), elems)
  BY <1>1, <1>2, ListsSub
<1>4. elems \in Outs /\ Leads(NewNode(q), elems.p) /\ Ready(sub, elems.p, 2, n)
  <2>1. elems \in Outs /\ Leads(NewNode(q), elems.p)
    BY <1>3 DEF Lists, Comes
  <2> QED BY <1>1, <2>1, ReadyOn
<1>5. PICK length : length = RepeatLength(sub, elems)
  OBVIOUS
<1>6. length \in Outs /\ Leads(elems.p, length.p) /\ InPool(length.p, length.node)
  BY <1>4, <1>5, RepeatLengthYields DEF Comes
<1>7. PICK r : r = Expect(length.p, "]")
  OBVIOUS
<1>8. Leads(length.p, r) /\ Leads(elems.p, r)
  BY <1>1, <1>6, <1>7, ExpectsOn, LeadsOn DEF Leads
<1>9. Leads(NewNode(q), r) /\ Leads(q, r) /\ Sound(r)
  BY <1>1, <1>4, <1>8, LeadsOn DEF Leads
<1>10. elems.list \in Seq(Nat) /\ \A j \in 1 .. Len(elems.list) : InPool(r, elems.list[j])
  BY <1>3, <1>8, InPoolOn DEF Lists, Comes, Outs
<1>11. InPool(r, length.node)
  BY <1>6, <1>8, InPoolOn
<1>12. PICK kids \in Seq(Nat) : /\ kids = Append(elems.list, length.node)
                                /\ \A j \in 1 .. Len(kids) : InPool(r, kids[j])
  BY <1>10, <1>11, AppendPointer
<1>13. "ARRAY_LITERAL" \in Plain /\ << >> \in Seq(TokenTexts)
  BY DEF Plain, Kinds
<1>14. Fitting(r, Node("ARRAY_LITERAL", << >>, kids))
  BY <1>9, <1>12, <1>13, PlainFits
<1>15. ParseArrayLit(sub, q) = Made(q, r, Node("ARRAY_LITERAL", << >>, kids))
  BY <1>2, <1>4, <1>5, <1>6, <1>7, <1>12 DEF With, ParseArrayLit
<1> QED BY <1>1, <1>9, <1>14, <1>15, Making

\* target->kind is read behind a null pointer only if there was an error.
LEMMA AsTargetLeads ==
    ASSUME Tokens, NEW target \in Outs, Sound(target.p), Points(target.p, target.node)
    PROVE  Leads(target.p, AsTarget(target))
<1>1. Leads(target.p, target.p) /\ Leads(target.p, Error(target.p))
  BY LeadsHere, ReportsOn
<1>2. CASE target.node = 0
  <2>1. target.p \in States
    BY DEF Sound
  <2>2. Running(target.p) => target.p.errors > 0
    BY <1>2, <2>1, StateIs DEF Points
  <2>3. Leads(target.p, Halt(target.p, "crash"))
    BY <2>2, StopsOn
  <2> QED BY <1>2, <2>3 DEF AsTarget
<1>3. CASE target.node # 0
  BY <1>1, <1>3 DEF AsTarget
<1> QED BY <1>2, <1>3

LEMMA TargetsCome ==
    ASSUME NEW sub, NEW n \in Nat, NEW q, Ready(sub, q, 1, n), NEW targets \in Arrays
    PROVE  Comes(q, Targets(sub, q, targets))
<1>1. PICK words : words = Len(targets.items)
  OBVIOUS
<1>2. PICK target : target = Expr(sub, Realloc(q, targets, words), ASSIGN)
  OBVIOUS
<1>3. PICK more : more = Stored(Moved(q, targets, words), target.node)
  OBVIOUS
<1>4. /\ target \in Outs /\ Leads(q, target.p) /\ Points(target.p, target.node)
      /\ Ready(sub, target.p, 2, n) /\ more \in Arrays
  <2>1. words \in Nat /\ ASSIGN \in Nat
    BY <1>1, WithNextIs DEF ASSIGN
  <2> QED BY <1>2, <1>3, <2>1, Reserves
<1>5. PICK s : s = AsTarget(target)
  OBVIOUS
<1>6. Leads(target.p, s) /\ Leads(q, s) /\ Ready(sub, s, 2, n)
  BY <1>4, <1>5, AsTargetLeads, LeadsOn, ReadyOn DEF Ready
<1>7. PICK r : r = Advance(s)
  OBVIOUS
<1>8. Leads(s, r) /\ more.items \in Seq(Nat)
  BY <1>4, <1>6, <1>7, MovesOn DEF Ready, Arrays
<1>9. Comes(q, sub[Rest("targets", r, more)])
  <2>1. Comes(s, sub[Rest("targets", r, more)])
    BY <1>4, <1>6, <1>8, OtherOn
  <2> QED BY <1>6, <2>1, ComesOn
<1>10. Comes(q, List(s, more.items))
  BY <1>6, <1>8, ListIs
<1>11. Targets(sub, q, targets) = IF Match(s, ",") THEN sub[Rest("targets", r, more)]
                                  ELSE List(s, more.items)
  BY <1>1, <1>2, <1>3, <1>4, <1>5, <1>7 DEF With, Targets
<1> QED BY <1>9, <1>10, <1>11

LEMMA ValuesCome ==
    ASSUME NEW sub, NEW n \in Nat, NEW q, Ready(sub, q, 1, n), NEW values \in Arrays
    PROVE  Comes(q, Values(sub, q, values))
<1>1. PICK words : words = Len(values.items)
  OBVIOUS
<1>2. PICK value : value = Expr(sub, Realloc(q, values, words), ASSIGN)
  OBVIOUS
<1>3. PICK more : more = Stored(Moved(q, values, words), value.node)
  OBVIOUS
<1>4. value \in Outs /\ Leads(q, value.p) /\ Ready(sub, value.p, 2, n) /\ more \in Arrays
  <2>1. words \in Nat /\ ASSIGN \in Nat
    BY <1>1, WithNextIs DEF ASSIGN
  <2> QED BY <1>2, <1>3, <2>1, Reserves
<1>5. PICK r : r = Advance(value.p)
  OBVIOUS
<1>6. Leads(value.p, r) /\ more.items \in Seq(Nat)
  BY <1>4, <1>5, MovesOn DEF Ready, Arrays
<1>7. Comes(q, sub[Rest("values", r, more)])
  <2>1. Comes(value.p, sub[Rest("values", r, more)])
    BY <1>4, <1>6, OtherOn
  <2> QED BY <1>4, <2>1, ComesOn
<1>8. Comes(q, List(value.p, more.items))
  BY <1>4, <1>6, ListIs
<1>9. Values(sub, q, values) = IF Match(value.p, ",") THEN sub[Rest("values", r, more)]
                               ELSE List(value.p, more.items)
  BY <1>1, <1>2, <1>3, <1>4, <1>5 DEF With, Values
<1> QED BY <1>7, <1>8, <1>9

\* A list of a tuple assignment, and the words of its array.
LEMMA TupleSub ==
    ASSUME NEW sub, NEW n \in Nat, NEW q, Ready(sub, q, 2, n), NEW items \in Seq(Nat),
           NEW fn \in {"targets", "values"}
    PROVE  Comes(q, sub[Rest(fn, Alloc(q, 1), [base |-> q.top, items |-> items])])
<1>1. Sound(q) /\ q \in States
  BY DEF Ready, Sound
<1>2. PICK one \in Nat : one = 1
  OBVIOUS
<1>3. PICK r : r = Alloc(q, one)
  OBVIOUS
<1>4. Leads(q, r)
  BY <1>1, <1>3, AllocOn
<1>5. PICK a : a = [base |-> q.top, items |-> items]
  OBVIOUS
<1>6. a \in Arrays
  BY <1>1, <1>5, StateIs DEF Arrays
<1>7. Comes(q, sub[Rest(fn, r, a)])
  BY <1>4, <1>6, OtherOn
<1> QED BY <1>2, <1>3, <1>5, <1>7

LEMMA CommaYields ==
    ASSUME NEW sub, NEW n \in Nat, NEW q, Ready(sub, q, 2, n), NEW lhs, Points(q, lhs)
    PROVE  Yields(q, ParseComma(sub, q, lhs))
<1>1. PICK left : left = sub[Rest("targets", Alloc(q, 1), [base |-> q.top, items |-> <<lhs>>])]
  OBVIOUS
<1>2. PICK r : r = Expect(left.p, "=")
  OBVIOUS
<1>3. PICK right : right = sub[Rest("values", Alloc(r, 1), [base |-> r.top, items |-> << >>])]
  OBVIOUS
<1>4. left \in Outs /\ Leads(q, left.p) /\ Sound(left.p) /\ Tokens
  <2>1. PICK items : items = <<lhs>> /\ items \in Seq(Nat)
    BY OnePointer DEF Points
  <2>2. Comes(q, left)
    BY <1>1, <2>1, TupleSub
  <2> QED BY <2>2 DEF Comes, Leads, Ready
<1>5. Leads(left.p, r) /\ Leads(q, r)
  BY <1>2, <1>4, ExpectsOn, LeadsOn
<1>6. right \in Outs /\ Leads(r, right.p) /\ Sound(right.p)
  <2>1. Ready(sub, r, 2, n)
    BY <1>5, ReadyOn
  <2>2. PICK items \in Seq(Nat) : items = << >>
    BY OneText, <1>4
  <2>3. Comes(r, right)
    BY <1>3, <2>1, <2>2, TupleSub
  <2> QED BY <2>3 DEF Comes, Leads
<1>7. Leads(q, right.p)
  BY <1>5, <1>6, LeadsOn
<1>8. PICK s : s = right.p
  OBVIOUS
<1>9. ParseComma(sub, q, lhs) =
        IF Len(left.list) # Len(right.list) THEN Result(Error(s), 0)
        ELSE Made(s, NewNode(s), Node("AGGREGATE", << >>, << >>))
  BY <1>1, <1>2, <1>3, <1>4, <1>6, <1>8 DEF With, ParseComma
<1>10. Yields(s, Result(Error(s), 0))
  <2>1. Leads(s, Error(s)) /\ (Running(Error(s)) => Error(s).errors > 0)
    BY <1>4, <1>6, <1>8, ReportsOn
  <2>2. Error(s) \in States
    BY <2>1 DEF Leads, Sound
  <2>3. Points(Error(s), 0)
    BY <2>1, <2>2, StateIs DEF Points, InPool
  <2> QED BY <2>1, <2>3, ResultIs
<1>11. Yields(s, Made(s, NewNode(s), Node("AGGREGATE", << >>, << >>)))
  <2>1. Sound(s) /\ Leads(s, NewNode(s)) /\ Sound(NewNode(s))
    BY <1>4, <1>6, <1>8, TakesOn DEF Leads
  <2>2. "AGGREGATE" \in Plain /\ << >> \in Seq(TokenTexts) /\ << >> \in Seq(Nat)
    BY DEF Plain, Kinds
  <2>3. PICK kids \in Seq(Nat) : kids = << >>
    BY <2>2
  <2>4. \A j \in 1 .. Len(kids) : InPool(NewNode(s), kids[j])
    BY <2>3
  <2>5. Fitting(NewNode(s), Node("AGGREGATE", << >>, kids))
    BY <2>1, <2>2, <2>4, PlainFits
  <2> QED BY <1>4, <2>1, <2>3, <2>5, LeadsHere, Making
<1> QED BY <1>7, <1>8, <1>9, <1>10, <1>11, ComesOn

LEMMA IdentifierYields ==
    ASSUME Tokens, NEW q, Sound(q)
    PROVE  Yields(q, ParseIdentifier(q))
<1>1. Leads(q, NewNode(q)) /\ Sound(NewNode(q)) /\ Leads(NewNode(q), NewNode(q))
  BY TakesOn, LeadsHere DEF Leads
<1>2. "IDENTIFIER" \in Plain /\ << >> \in Seq(Nat)
  BY DEF Plain, Kinds
<1>3. PICK kids \in Seq(Nat) : kids = << >>
  BY <1>2
<1>4. PICK text \in Seq(TokenTexts) : text = <<Previous(q)>>
  BY OneText
<1>5. \A j \in 1 .. Len(kids) : InPool(NewNode(q), kids[j])
  BY <1>3
<1>6. Fitting(NewNode(q), Node("IDENTIFIER", text, kids))
  BY <1>1, <1>2, <1>5, PlainFits
<1>7. ParseIdentifier(q) = Made(q, NewNode(q), Node("IDENTIFIER", text, kids))
  BY <1>3, <1>4 DEF ParseIdentifier
<1> QED BY <1>1, <1>6, <1>7, Making

LEMMA ConstVarDeclYields ==
    ASSUME NEW sub, NEW n \in Nat, NEW q, Ready(sub, q, 2, n), NEW kind \in {"VAR_DECL", "CONST_DECL"}
    PROVE  Yields(q, ParseConstVarDecl(sub, q, kind))
<1>1. Sound(q) /\ Tokens /\ Leads(q, NewNode(q)) /\ Sound(NewNode(q))
  BY TakesOn DEF Ready, Leads
<1>2. PICK r : r = Advance(NewNode(q))
  OBVIOUS
<1>3. Leads(NewNode(q), r) /\ Sound(r)
  BY <1>1, <1>2, MovesOn DEF Leads
<1>4. PICK ident : ident = ParseIdentifier(r)
  OBVIOUS
<1>5. ident \in Outs /\ Leads(r, ident.p) /\ InPool(ident.p, ident.node)
  BY <1>1, <1>3, <1>4, IdentifierYields DEF Yields, Comes, Points
<1>6. Leads(NewNode(q), ident.p) /\ Leads(q, ident.p) /\ Sound(ident.p)
  BY <1>1, <1>3, <1>5, LeadsOn DEF Leads
<1>7. PICK rhs : rhs = IF Match(ident.p, "=") THEN ParseExpr(sub, Advance(ident.p))
                       ELSE Result(ident.p, 0)
  OBVIOUS
<1>8. rhs \in Outs /\ Leads(ident.p, rhs.p) /\ InPool(rhs.p, rhs.node)
  <2>1. CASE Match(ident.p, "=")
    <3>1. PICK s : s = Advance(ident.p)
      OBVIOUS
    <3>2. Leads(ident.p, s) /\ Leads(q, s)
      BY <1>1, <1>6, <3>1, MovesOn, LeadsOn
    <3>3. Ready(sub, s, 1, n)
      BY <3>2, ReadyOn, Weaker
    <3>4. Yields(s, rhs)
      BY <1>7, <2>1, <3>1, <3>3, ExprSub DEF ParseExpr, NONE
    <3> QED BY <3>2, <3>4, LeadsOn DEF Yields, Comes, Points
  <2>2. CASE ~Match(ident.p, "=")
    <3>1. Leads(ident.p, ident.p) /\ rhs = Result(ident.p, 0) /\ ident.p \in States
      BY <1>6, <1>7, <2>2, LeadsHere DEF Sound
    <3>2. InPool(ident.p, 0)
      BY <3>1, StateIs DEF InPool
    <3> QED BY <3>1, <3>2, ResultIs
  <2> QED BY <2>1, <2>2
<1>9. Leads(NewNode(q), rhs.p) /\ Sound(rhs.p) /\ InPool(rhs.p, ident.node)
  BY <1>5, <1>6, <1>8, LeadsOn, InPoolOn DEF Leads
<1>10. kind \in Plain /\ << >> \in Seq(TokenTexts)
  BY DEF Plain, Kinds
<1>11. PICK kids \in Seq(Nat) : /\ kids = <<ident.node, rhs.node>>
                                /\ \A j \in 1 .. Len(kids) : InPool(rhs.p, kids[j])
  BY <1>8, <1>9, TwoPointers
<1>12. Fitting(rhs.p, Node(kind, << >>, kids))
  BY <1>9, <1>10, <1>11, PlainFits
<1>13. ParseConstVarDecl(sub, q, kind) = Made(q, rhs.p, Node(kind, << >>, kids))
  BY <1>2, <1>4, <1>5, <1>7, <1>8, <1>11 DEF With, ParseConstVarDecl
<1> QED BY <1>1, <1>9, <1>12, <1>13, Making

LEMMA ReturnYields ==
    ASSUME NEW sub, NEW n \in Nat, NEW q, Ready(sub, q, 2, n)
    PROVE  Yields(q, ParseReturn(sub, q))
<1>1. PICK expr : expr = ParseExpr(sub, NewNode(q))
  OBVIOUS
<1>2. /\ expr \in Outs /\ Sound(q) /\ Tokens /\ Sound(expr.p)
      /\ Leads(NewNode(q), expr.p) /\ InPool(expr.p, expr.node)
  BY <1>1, TakesAndParses DEF ParseExpr, NONE, Points
<1>3. "RETURN" \in Plain /\ << >> \in Seq(TokenTexts)
  BY DEF Plain, Kinds
<1>4. PICK kids \in Seq(Nat) : kids = <<expr.node>> /\ \A j \in 1 .. Len(kids) : InPool(expr.p, kids[j])
  BY <1>2, OnePointer
<1>5. Fitting(expr.p, Node("RETURN", << >>, kids))
  BY <1>2, <1>3, <1>4, PlainFits
<1>6. ParseReturn(sub, q) = Made(q, expr.p, Node("RETURN", << >>, kids))
  BY <1>1, <1>2, <1>4 DEF With, ParseReturn
<1> QED BY <1>2, <1>5, <1>6, Making

\* str_intern reads a null pointer only after an error.
LEMMA ParamTypeLeads ==
    ASSUME Tokens, NEW q, Sound(q)
    PROVE  Leads(q, ParamType(q))
<1>1. PICK r : r = Advance(q)
  OBVIOUS
<1>2. Leads(q, r) /\ Leads(q, q) /\ Sound(r)
  BY <1>1, MovesOn, LeadsHere DEF Leads
<1>3. Leads(r, Advance(r))
  BY <1>2, MovesOn
<1>4. PICK e : e = Error(r)
  OBVIOUS
<1>5. Leads(r, e) /\ (Running(e) => e.errors > 0) /\ Sound(e)
  BY <1>2, <1>4, ReportsOn DEF Leads
<1>6. Leads(e, Halt(e, "crash"))
  BY <1>5, StopsOn
<1>7. Leads(q, Advance(r)) /\ Leads(q, Halt(e, "crash"))
  BY <1>2, <1>3, <1>5, <1>6, LeadsOn
<1> QED BY <1>1, <1>2, <1>4, <1>7 DEF ParamType

LEMMA ParametersCome ==
    ASSUME NEW sub, NEW n \in Nat, NEW q, Ready(sub, q, 1, n), NEW params \in Arrays
    PROVE  Comes(q, Parameters(sub, q, params))
<1>1. PICK words : words = InternedStrWords * (Len(params.items) + 2)
  OBVIOUS
<1>2. words \in Nat
  BY <1>1, WithNextIs DEF InternedStrWords
<1>3. PICK s : s = Realloc(q, params, words)
  OBVIOUS
<1>4. Sound(q) /\ Tokens /\ q \in States /\ Leads(q, s) /\ Sound(s) /\ s.pos = q.pos
  <2>1. Sound(q) /\ Tokens
    BY DEF Ready
  <2> QED BY <1>2, <1>3, <2>1, ReallocOn DEF Leads, Sound
<1>5. PICK r : r = Advance(s)
  OBVIOUS
<1>6. Leads(s, r) /\ (Running(r) => r.pos > q.pos) /\ Sound(r)
  <2>1. Leads(s, r) /\ (Running(s) => r.pos > s.pos)
    BY <1>4, <1>5, MovesOn
  <2> QED BY <1>4, <2>1 DEF Leads
<1>7. Leads(q, r) /\ Ready(sub, r, 2, n)
  <2>1. Leads(q, r)
    BY <1>4, <1>6, LeadsOn
  <2> QED BY <1>6, <2>1, ReadyOn
<1>8. PICK typed : typed = ParamType(r)
  OBVIOUS
<1>9. Leads(r, typed) /\ Leads(q, typed) /\ Sound(typed) /\ Leads(typed, Advance(typed))
  BY <1>4, <1>6, <1>7, <1>8, ParamTypeLeads, LeadsOn, MovesOn DEF Leads
<1>10. Leads(r, Advance(typed)) /\ Leads(q, Advance(typed))
  BY <1>7, <1>9, LeadsOn
<1>11. PICK type : type = IF typed.pos = q.pos + 1 THEN 0 ELSE typed.pos - 1
  OBVIOUS
<1>12. type \in Nat /\ q.pos \in Nat
  <2>1. q.pos \in Nat /\ typed.pos \in Nat /\ typed.pos >= 1
    BY <1>4, <1>9, StateIs DEF Sound
  <2> QED BY <1>11, <2>1
<1>13. PICK named : named = Stored(Moved(q, params, words), q.pos)
  OBVIOUS
<1>14. PICK more : more = Stored(named, type)
  OBVIOUS
<1>15. named \in Arrays /\ more \in Arrays /\ more.items \in Seq(Nat)
  <2>1. named \in Arrays
    BY <1>2, <1>4, <1>12, <1>13, MovedHolds, StoredHolds
  <2> QED BY <1>12, <1>14, <2>1, StoredHolds
<1>16. Parameters(sub, q, params) = IF Match(typed, ",")
                                    THEN sub[Rest("parameters", Advance(typed), more)]
                                    ELSE List(typed, more.items)
  BY <1>1, <1>3, <1>5, <1>8, <1>11, <1>13, <1>14 DEF Parameters
<1>17. Comes(q, sub[Rest("parameters", Advance(typed), more)])
  <2>1. PICK behind : behind = Advance(typed)
    OBVIOUS
  <2>2. Comes(r, sub[Rest("parameters", behind, more)])
    BY <1>7, <1>10, <1>15, <2>1, OtherOn
  <2> QED BY <1>7, <2>1, <2>2, ComesOn
<1>18. Comes(q, List(typed, more.items))
  BY <1>9, <1>15, ListIs
<1> QED BY <1>16, <1>17, <1>18

LEMMA ParameterListComes ==
    ASSUME NEW sub, NEW n \in Nat, NEW r, Ready(sub, r, 2, n)
    PROVE  Comes(r, ParameterList(sub, r))
<1>1. Sound(r) /\ Tokens /\ Leads(r, r) /\ Leads(r, Advance(r))
  BY LeadsHere, MovesOn DEF Ready
<1>2. PICK params : params = sub[Call("parameters", Advance(r))]
  OBVIOUS
<1>3. Comes(r, params)
  <2>1. PICK behind, none : behind = Advance(r) /\ none = NoArray
    OBVIOUS
  <2>2. none \in Arrays /\ params = sub[Rest("parameters", behind, none)]
    BY <1>2, <2>1, NoArrayHolds, CallRest
  <2> QED BY <1>1, <2>1, <2>2, OtherOn
<1>4. params \in Outs /\ Leads(r, params.p) /\ Sound(params.p)
  BY <1>3 DEF Comes, Leads
<1>5. Leads(r, Expect(params.p, ")"))
  BY <1>1, <1>4, ExpectsOn, LeadsOn
<1>6. params.list \in Seq(Nat)
  BY <1>4 DEF Outs
<1>7. Comes(r, List(Expect(params.p, ")"), params.list))
  BY <1>5, <1>6, ListIs
<1>8. Comes(r, List(r, << >>))
  <2>1. << >> \in Seq(Nat)
    OBVIOUS
  <2> QED BY <1>1, <2>1, ListIs
<1>9. ParameterList(sub, r) = IF ~Match(r, "(") THEN List(r, << >>)
                              ELSE List(Expect(params.p, ")"), params.list)
  BY <1>2, <1>4 DEF With, ParameterList
<1> QED BY <1>7, <1>8, <1>9

LEMMA TextsAtIs ==
    ASSUME Tokens, NEW places \in Seq(Nat)
    PROVE  TextsAt(places) \in Seq(TokenTexts)
<1>1. Len(places) \in Nat /\ \A i \in 1 .. Len(tokens) : tokens[i] \in TokenTexts
  BY DEF Tokens
<1>2. "" \in TokenTexts
  BY DEF TokenTexts, Terminals
<1>3. TextsAt(places) \in [1 .. Len(places) -> TokenTexts]
  BY <1>1, <1>2 DEF TextsAt
<1> QED BY <1>1, <1>3

LEMMA BlockYields ==
    ASSUME NEW sub, NEW n \in Nat, NEW q, Ready(sub, q, 2, n)
    PROVE  Yields(q, ParseBlock(sub, q))
<1>1. Sound(q) /\ Tokens /\ Leads(q, NewNode(q)) /\ Ready(sub, NewNode(q), 2, n)
  BY TakesOn, ReadyOn DEF Ready
<1>2. PICK block : block = sub[Call("statements", NewNode(q))]
  OBVIOUS
<1>3. Lists(NewNode(q), block)
  BY <1>1, <1>2, ListsSub
<1>4. PICK r : r = Expect(block.p, "}")
  OBVIOUS
<1>5. block \in Outs /\ Leads(NewNode(q), block.p) /\ Leads(block.p, r)
  BY <1>1, <1>3, <1>4, ExpectsOn DEF Lists, Comes, Leads
<1>6. Leads(NewNode(q), r) /\ Sound(r)
  BY <1>5, LeadsOn DEF Leads
<1>7. block.list \in Seq(Nat) /\ \A j \in 1 .. Len(block.list) : InPool(r, block.list[j])
  BY <1>3, <1>5, InPoolOn DEF Lists, Outs
<1>8. "BLOCK" \in Plain /\ << >> \in Seq(TokenTexts)
  BY DEF Plain, Kinds
<1>9. Fitting(r, Node("BLOCK", << >>, block.list))
  BY <1>6, <1>7, <1>8, PlainFits
<1>10. ParseBlock(sub, q) = Made(q, r, Node("BLOCK", << >>, block.list))
  BY <1>2, <1>4, <1>5 DEF With, ParseBlock
<1> QED BY <1>1, <1>6, <1>9, <1>10, Making

LEMMA FuncDeclYields ==
    ASSUME NEW sub, NEW n \in Nat, NEW q, Ready(sub, q, 2, n)
    PROVE  Yields(q, ParseFuncDecl(sub, q))
<1>1. Sound(q) /\ Tokens /\ Leads(q, NewNode(q)) /\ Sound(NewNode(q))
  BY TakesOn DEF Ready, Leads
<1>2. PICK r : r = SkipIf(NewNode(q), Identifiers)
  OBVIOUS
<1>3. Leads(NewNode(q), r) /\ Sound(r)
  BY <1>1, <1>2, SkipsOn DEF Leads
<1>4. PICK ident : ident = ParseIdentifier(r)
  OBVIOUS
<1>5. ident \in Outs /\ Leads(r, ident.p) /\ InPool(ident.p, ident.node)
  BY <1>1, <1>3, <1>4, IdentifierYields DEF Yields, Comes, Points
<1>6. Leads(NewNode(q), ident.p) /\ Leads(q, ident.p)
  BY <1>1, <1>3, <1>5, LeadsOn
<1>7. PICK params : params = ParameterList(sub, ident.p)
  OBVIOUS
<1>8. Comes(ident.p, params)
  BY <1>6, <1>7, ReadyOn, ParameterListComes
<1>9. PICK s : s = Expect(Alloc(params.p, FuncDataWords), "{")
  OBVIOUS
<1>10. params \in Outs /\ Leads(ident.p, params.p) /\ Leads(params.p, s) /\ params.list \in Seq(Nat)
  <2>1. params \in Outs /\ Leads(ident.p, params.p) /\ params.list \in Seq(Nat) /\ Sound(params.p)
    BY <1>8 DEF Comes, Leads, Outs
  <2>2. PICK t : t = Alloc(params.p, FuncDataWords)
    OBVIOUS
  <2>3. Leads(params.p, t) /\ Sound(t)
    BY <2>1, <2>2, AllocOn DEF FuncDataWords, Leads
  <2>4. Leads(t, s)
    BY <1>1, <1>9, <2>2, <2>3, ExpectsOn
  <2> QED BY <2>1, <2>3, <2>4, LeadsOn
<1>11. Leads(ident.p, s) /\ Leads(q, s)
  BY <1>6, <1>10, LeadsOn
<1>12. PICK block : block = ParseBlock(sub, s)
  OBVIOUS
<1>13. Yields(s, block)
  BY <1>11, <1>12, ReadyOn, BlockYields
<1>14. block \in Outs /\ Leads(s, block.p) /\ InPool(block.p, block.node)
  BY <1>13 DEF Yields, Comes, Points
<1>15. Leads(ident.p, block.p) /\ Leads(NewNode(q), block.p) /\ Sound(block.p)
  BY <1>6, <1>11, <1>14, LeadsOn DEF Leads
<1>16. InPool(block.p, ident.node)
  BY <1>5, <1>15, InPoolOn
<1>17. "FUNC_DECL" \in Plain
  BY DEF Plain, Kinds
<1>18. PICK kids \in Seq(Nat) : /\ kids = <<ident.node, block.node>>
                                /\ \A j \in 1 .. Len(kids) : InPool(block.p, kids[j])
  BY <1>14, <1>16, TwoPointers
<1>19. TextsAt(params.list) \in Seq(TokenTexts)
  BY <1>1, <1>10, TextsAtIs
<1>20. Fitting(block.p, Node("FUNC_DECL", TextsAt(params.list), kids))
  BY <1>15, <1>17, <1>18, <1>19, PlainFits
<1>21. ParseFuncDecl(sub, q) = Made(q, block.p, Node("FUNC_DECL", TextsAt(params.list), kids))
  BY <1>2, <1>4, <1>5, <1>7, <1>9, <1>10, <1>12, <1>14, <1>18 DEF With, ParseFuncDecl
<1> QED BY <1>1, <1>15, <1>20, <1>21, Making

\* What is parsed behind a token.
LEMMA BehindToken ==
    ASSUME Tokens, NEW q, Sound(q), NEW o, Yields(Advance(q), o)
    PROVE  Yields(q, o) /\ (Running(o.p) => o.p.pos > q.pos)
<1>1. PICK r : r = Advance(q)
  OBVIOUS
<1>2. Leads(q, r) /\ (Running(q) => r.pos > q.pos) /\ Leads(r, o.p)
  BY <1>1, MovesOn DEF Yields, Comes
<1>3. Yields(q, o)
  BY <1>1, <1>2, ComesOn
<1>4. q.pos \in Nat /\ r.pos \in Nat /\ o.p.pos \in Nat
  BY <1>2, StateIs DEF Leads, Sound
<1>5. Running(o.p) => Running(q) /\ o.p.pos >= r.pos
  BY <1>2 DEF Leads
<1> QED BY <1>2, <1>3, <1>4, <1>5

LEMMA StmtYields ==
    ASSUME NEW sub, NEW n \in Nat, NEW q, Ready(sub, q, 1, n)
    PROVE  /\ Yields(q, ParseStmt(sub, q))
           /\ Running(ParseStmt(sub, q).p) => ParseStmt(sub, q).p.pos > q.pos
<1>1. Sound(q) /\ Tokens
  BY DEF Ready
<1>2. PICK r : r = Advance(q)
  OBVIOUS
<1>3. Ready(sub, r, 2, n)
  <2>1. Leads(q, r) /\ (Running(q) => r.pos > q.pos) /\ (Running(r) => Running(q))
    BY <1>1, <1>2, MovesOn DEF Leads
  <2> QED BY <2>1, ReadyOn
<1>4. PICK o : o = ParseStmt(sub, q)
  OBVIOUS
<1>5. \/ o = ParseReturn(sub, r) \/ o = ParseFuncDecl(sub, r)
      \/ o = ParseConstVarDecl(sub, r, "VAR_DECL") \/ o = ParseConstVarDecl(sub, r, "CONST_DECL")
      \/ o = ParseExpr(sub, q)
  BY <1>2, <1>4 DEF ParseStmt
<1>6. Yields(r, o) \/ o = ParseExpr(sub, q)
  BY <1>3, <1>5, ReturnYields, FuncDeclYields, ConstVarDeclYields
<1>7. CASE Yields(r, o)
  BY <1>1, <1>2, <1>4, <1>7, BehindToken
<1>8. CASE o = ParseExpr(sub, q)
  BY <1>4, <1>8, ExprSub DEF ParseExpr, NONE
<1> QED BY <1>6, <1>7, <1>8

\* block_add_stmt: the block has one statement more.
LEMMA AddsOn ==
    ASSUME NEW q, Sound(q), NEW stmts \in Arrays, NEW k \in Nat
    PROVE  /\ Leads(q, AddStmt(q, stmts)) /\ Added(q, stmts, k) \in Arrays
           /\ Len(Added(q, stmts, k).items) = Len(stmts.items) + 1
           /\ Holds(q, stmts) /\ InPool(q, k) => Holds(q, Added(q, stmts, k))
<1>1. PICK words : words = WithNext(stmts)
  OBVIOUS
<1>2. words \in Nat /\ q \in States
  BY <1>1, WithNextIs DEF Sound
<1>3. PICK m : m = Moved(q, stmts, words)
  OBVIOUS
<1>4. /\ m \in Arrays /\ Len(m.items) = Len(stmts.items)
      /\ Holds(q, stmts) => Holds(q, m)
  BY <1>2, <1>3, MovedHolds
<1>5. Leads(q, AddStmt(q, stmts))
  BY <1>1, <1>2, ReallocOn DEF AddStmt
<1>6. Added(q, stmts, k) = Stored(m, k)
  BY <1>1, <1>3 DEF Added
<1> QED BY <1>4, <1>5, <1>6, StoredHolds

LEMMA BlockStatementsList ==
    ASSUME NEW sub, NEW n \in Nat, NEW q, Ready(sub, q, 1, n), NEW stmts, Holds(q, stmts)
    PROVE  Lists(q, BlockStatements(sub, q, stmts))
<1>1. Sound(q) /\ Tokens /\ Leads(q, q)
  BY LeadsHere DEF Ready
<1>2. CASE ~Running(q) \/ Tok(q) = "}"
  BY <1>1, <1>2, HeldLists DEF BlockStatements
<1>3. CASE Running(q) /\ Tok(q) # "}" /\ Tok(q) \in Separators
  <2>1. PICK r : r = Advance(q)
    OBVIOUS
  <2>2. Leads(q, r) /\ (Running(r) => r.pos > q.pos)
    BY <1>1, <1>3, <2>1, MovesOn
  <2>3. Lists(q, sub[Rest("statements", r, stmts)])
    <3>1. Ready(sub, r, 2, n) /\ Holds(r, stmts)
      BY <2>2, ReadyOn, HoldsOn
    <3>2. Lists(r, sub[Rest("statements", r, stmts)])
      BY <3>1, ListSub
    <3> QED BY <2>2, <3>2, ComesOn
  <2> QED BY <1>3, <2>1, <2>3 DEF BlockStatements
<1>4. CASE Running(q) /\ Tok(q) # "}" /\ Tok(q) \notin Separators
  <2>1. PICK stmt : stmt = ParseStmt(sub, q)
    OBVIOUS
  <2>2. /\ stmt \in Outs /\ Leads(q, stmt.p) /\ InPool(stmt.p, stmt.node) /\ Sound(stmt.p)
        /\ Running(stmt.p) => stmt.p.pos > q.pos
    BY <2>1, StmtYields DEF Yields, Comes, Points, Leads
  <2>3. Ready(sub, stmt.p, 2, n) /\ Holds(stmt.p, stmts)
    BY <2>2, ReadyOn, HoldsOn
  <2>4. PICK s : s = AddStmt(stmt.p, stmts)
    OBVIOUS
  <2>5. PICK more : more = Added(stmt.p, stmts, stmt.node)
    OBVIOUS
  <2>6. Leads(stmt.p, s) /\ Sound(s) /\ Holds(stmt.p, more)
    <3>1. stmts \in Arrays /\ stmt.node \in Nat
      BY <2>2 DEF Holds, InPool
    <3> QED BY <2>2, <2>3, <2>4, <2>5, <3>1, AddsOn DEF Leads
  <2>7. PICK r : r = IF Running(s) /\ Tok(s) \in Separators THEN Advance(s)
                     ELSE IF Match(s, "}") THEN s ELSE Error(s)
    OBVIOUS
  <2>8. Leads(s, r) /\ Leads(stmt.p, r)
    <3>1. Leads(s, r)
      BY <1>1, <2>6, <2>7, MovesOn, ReportsOn, LeadsHere
    <3> QED BY <2>6, <3>1, LeadsOn
  <2>9. Lists(stmt.p, sub[Rest("statements", r, more)])
    BY <2>3, <2>6, <2>8, ListOn
  <2>10. BlockStatements(sub, q, stmts) = sub[Rest("statements", r, more)]
    BY <1>4, <2>1, <2>2, <2>4, <2>5, <2>7 DEF With, BlockStatements
  <2> QED BY <2>2, <2>9, <2>10, ComesOn
<1> QED BY <1>2, <1>3, <1>4

LEMMA NewlinesCome ==
    ASSUME NEW sub, NEW n \in Nat, NEW q, Ready(sub, q, 0, n)
    PROVE  Comes(q, SkipNewlines(sub, q))
<1>1. Sound(q) /\ Tokens /\ Leads(q, q)
  BY LeadsHere DEF Ready
<1>2. CASE Match(q, "\n")
  <2>1. PICK r : r = Advance(q)
    OBVIOUS
  <2>2. Leads(q, r) /\ (Running(r) => r.pos > q.pos)
    BY <1>1, <1>2, <2>1, MovesOn DEF Match
  <2>3. Ready(sub, r, 1, n)
    BY <2>2, ReadyOn, Weaker
  <2> QED BY <1>2, <2>1, <2>2, <2>3, NewlinesSub, ComesOn DEF SkipNewlines
<1>3. CASE ~Match(q, "\n")
  BY <1>1, <1>3, ResultIs DEF SkipNewlines
<1> QED BY <1>2, <1>3

LEMMA ReadyForNewlines ==
    ASSUME NEW sub, NEW n \in Nat, NEW q, Ready(sub, q, 2, n)
    PROVE  Ready(sub, q, 0, n)
<1>1. q \in States
  BY DEF Ready, Sound
<1>2. q.pos \in Nat /\ Len(tokens) \in Nat
  BY <1>1, StateIs DEF Ready, Tokens
<1> QED BY <1>2 DEF Ready, Fits

LEMMA ThenBranchYields ==
    ASSUME NEW sub, NEW n \in Nat, NEW q, Ready(sub, q, 2, n)
    PROVE  Yields(q, ThenBranch(sub, q))
<1>1. PICK open : open = SkipNewlines(sub, q)
  OBVIOUS
<1>2. Comes(q, open)
  BY <1>1, ReadyForNewlines, NewlinesCome
<1>3. PICK r : r = Expect(open.p, "{")
  OBVIOUS
<1>4. open \in Outs /\ Leads(q, open.p) /\ Leads(open.p, r)
  BY <1>2, <1>3, ExpectsOn DEF Comes, Leads, Ready
<1>5. Leads(q, r)
  BY <1>4, LeadsOn
<1>6. Yields(q, ParseBlock(sub, r))
  BY <1>5, ReadyOn, BlockYields, ComesOn
<1> QED BY <1>1, <1>3, <1>4, <1>6 DEF With, ThenBranch

LEMMA ElseBranchYields ==
    ASSUME NEW sub, NEW n \in Nat, NEW q, Ready(sub, q, 2, n)
    PROVE  Yields(q, ElseBranch(sub, q))
<1>1. PICK out : out = SkipNewlines(sub, q)
  OBVIOUS
<1>2. Comes(q, out)
  BY <1>1, ReadyForNewlines, NewlinesCome
<1>3. PICK r : r = Advance(out.p)
  OBVIOUS
<1>4. PICK s : s = Expect(out.p, "{")
  OBVIOUS
<1>5. out \in Outs /\ Leads(q, out.p) /\ Leads(out.p, r) /\ Leads(out.p, s)
  BY <1>2, <1>3, <1>4, MovesOn, ExpectsOn DEF Comes, Leads, Ready
<1>6. Leads(q, r) /\ Leads(q, s)
  BY <1>5, LeadsOn
<1>7. Yields(q, sub[Call("if", r)])
  BY <1>6, ReadyOn, IfSub, ComesOn
<1>8. Yields(q, ParseBlock(sub, s))
  BY <1>6, ReadyOn, BlockYields, ComesOn
<1>9. ElseBranch(sub, q) = IF Tok(out.p) = "if" THEN sub[Call("if", r)] ELSE ParseBlock(sub, s)
  BY <1>1, <1>3, <1>4, <1>5 DEF With, ElseBranch
<1> QED BY <1>7, <1>8, <1>9

LEMMA IfNodeYields ==
    ASSUME Tokens, NEW cond, NEW then, NEW else, Sound(else.p),
           InPool(else.p, cond.node), InPool(else.p, then.node), InPool(else.p, else.node)
    PROVE  Yields(else.p, IfNode(cond, then, else))
<1>1. PICK s : s = NewNode(else.p)
  OBVIOUS
<1>2. Leads(else.p, s) /\ Leads(s, s) /\ Sound(s)
  BY <1>1, TakesOn, LeadsHere DEF Leads
<1>3. InPool(s, cond.node) /\ InPool(s, then.node) /\ InPool(s, else.node)
  BY <1>2, InPoolOn
<1>4. "IF_EXPR" \in Plain /\ << >> \in Seq(TokenTexts)
  BY DEF Plain, Kinds
<1>5. PICK kids \in Seq(Nat) : /\ kids = <<cond.node, then.node, else.node>>
                               /\ \A j \in 1 .. Len(kids) : InPool(s, kids[j])
  BY <1>3, ThreePointers
<1>6. Fitting(s, Node("IF_EXPR", << >>, kids))
  BY <1>2, <1>4, <1>5, PlainFits
<1>7. IfNode(cond, then, else) = Made(else.p, s, Node("IF_EXPR", << >>, kids))
  BY <1>1, <1>5 DEF IfNode
<1> QED BY <1>1, <1>2, <1>6, <1>7, Making

LEMMA IfYields ==
    ASSUME NEW sub, NEW n \in Nat, NEW q, Ready(sub, q, 1, n)
    PROVE  Yields(q, ParseIf(sub, q))
<1>1. PICK cond : cond = ParseExpr(sub, q)
  OBVIOUS
<1>2. Yields(q, cond) /\ (Running(cond.p) => cond.p.pos > q.pos)
  BY <1>1, ExprSub DEF ParseExpr, NONE
<1>3. cond \in Outs /\ Leads(q, cond.p) /\ InPool(cond.p, cond.node) /\ Ready(sub, cond.p, 2, n)
  <2>1. cond \in Outs /\ Leads(q, cond.p) /\ InPool(cond.p, cond.node)
    BY <1>2 DEF Yields, Comes, Points
  <2> QED BY <1>2, <2>1, ReadyOn
<1>4. PICK then : then = ThenBranch(sub, cond.p)
  OBVIOUS
<1>5. then \in Outs /\ Leads(cond.p, then.p) /\ InPool(then.p, then.node)
  BY <1>3, <1>4, ThenBranchYields DEF Yields, Comes, Points
<1>6. Ready(sub, then.p, 2, n) /\ Sound(then.p) /\ Tokens
  BY <1>3, <1>5, ReadyOn
<1>7. PICK after : after = SkipNewlines(sub, then.p)
  OBVIOUS
<1>8. after \in Outs /\ Leads(then.p, after.p)
  BY <1>6, <1>7, ReadyForNewlines, NewlinesCome DEF Comes
<1>9. PICK else : else = IF Match(after.p, "else") THEN ElseBranch(sub, Advance(after.p))
                         ELSE Result(then.p, 0)
  OBVIOUS
<1>10. else \in Outs /\ Leads(then.p, else.p) /\ InPool(else.p, else.node)
  <2>1. CASE Match(after.p, "else")
    <3>1. PICK s : s = Advance(after.p)
      OBVIOUS
    <3>2. Leads(after.p, s) /\ Leads(then.p, s)
      BY <1>6, <1>8, <3>1, MovesOn, LeadsOn DEF Leads
    <3>3. Yields(s, else)
      BY <1>6, <1>9, <2>1, <3>1, <3>2, ReadyOn, ElseBranchYields
    <3> QED BY <3>2, <3>3, LeadsOn DEF Yields, Comes, Points
  <2>2. CASE ~Match(after.p, "else")
    <3>1. Leads(then.p, then.p) /\ else = Result(then.p, 0) /\ then.p \in States
      BY <1>6, <1>9, <2>2, LeadsHere DEF Sound
    <3>2. InPool(then.p, 0)
      BY <3>1, StateIs DEF InPool
    <3> QED BY <3>1, <3>2, ResultIs
  <2> QED BY <2>1, <2>2
<1>11. Leads(cond.p, else.p) /\ Leads(q, else.p) /\ Sound(else.p)
  BY <1>3, <1>5, <1>10, LeadsOn DEF Leads
<1>12. InPool(else.p, cond.node) /\ InPool(else.p, then.node)
  BY <1>3, <1>5, <1>10, <1>11, InPoolOn
<1>13. Yields(q, IfNode(cond, then, else))
  BY <1>6, <1>10, <1>11, <1>12, IfNodeYields, ComesOn
<1>14. ParseIf(sub, q) = IfNode(cond, then, else)
  BY <1>1, <1>3, <1>4, <1>5, <1>7, <1>8, <1>9, <1>10 DEF With, ParseIf
<1> QED BY <1>13, <1>14

LEMMA ForYields ==
    ASSUME NEW sub, NEW n \in Nat, NEW q, Ready(sub, q, 2, n)
    PROVE  Yields(q, ParseFor(sub, q))
<1>1. PICK ident : ident = ParseIdentifier(q)
  OBVIOUS
<1>2. ident \in Outs /\ Leads(q, ident.p) /\ InPool(ident.p, ident.node) /\ Tokens /\ Sound(ident.p)
  BY <1>1, IdentifierYields DEF Yields, Comes, Points, Leads, Ready
<1>3. PICK r : r = Expect(Advance(ident.p), "in")
  OBVIOUS
<1>4. Leads(ident.p, r)
  <2>1. Leads(ident.p, Advance(ident.p)) /\ Sound(Advance(ident.p))
    BY <1>2, MovesOn DEF Leads
  <2> QED BY <1>2, <1>3, <2>1, ExpectsOn, LeadsOn
<1>5. Leads(q, r) /\ Ready(sub, r, 1, n)
  BY <1>2, <1>4, LeadsOn, ReadyOn, Weaker
<1>6. PICK iter : iter = ParseExpr(sub, r)
  OBVIOUS
<1>7. Yields(r, iter)
  BY <1>5, <1>6, ExprSub DEF ParseExpr, NONE
<1>8. iter \in Outs /\ Leads(r, iter.p) /\ InPool(iter.p, iter.node) /\ Sound(iter.p)
  BY <1>7 DEF Yields, Comes, Points, Leads
<1>9. PICK s : s = Expect(iter.p, "{")
  OBVIOUS
<1>10. Leads(iter.p, s) /\ Leads(r, s) /\ Leads(q, s)
  BY <1>2, <1>5, <1>8, <1>9, ExpectsOn, LeadsOn
<1>11. PICK body : body = ParseBlock(sub, s)
  OBVIOUS
<1>12. Yields(s, body)
  BY <1>10, <1>11, ReadyOn, BlockYields
<1>13. body \in Outs /\ Leads(s, body.p) /\ Sound(body.p)
  BY <1>12 DEF Yields, Comes, Leads
<1>14. PICK t : t = NewNode(body.p)
  OBVIOUS
<1>15. Leads(body.p, t) /\ Leads(t, t) /\ Sound(t)
  BY <1>2, <1>13, <1>14, TakesOn, LeadsHere DEF Leads
<1>16. Leads(iter.p, t) /\ Leads(ident.p, t) /\ Leads(q, body.p)
  <2>1. Leads(s, t)
    BY <1>13, <1>15, LeadsOn
  <2>2. Leads(r, t)
    BY <1>10, <2>1, LeadsOn
  <2> QED BY <1>4, <1>10, <1>13, <2>1, <2>2, LeadsOn
<1>17. InPool(t, ident.node) /\ InPool(t, iter.node)
  BY <1>2, <1>8, <1>16, InPoolOn
<1>18. "FOR_EXPR" \in Plain /\ << >> \in Seq(TokenTexts)
  BY DEF Plain, Kinds
<1>19. PICK kids \in Seq(Nat) : /\ kids = <<ident.node, iter.node>>
                                /\ \A j \in 1 .. Len(kids) : InPool(t, kids[j])
  BY <1>17, TwoPointers
<1>20. Fitting(t, Node("FOR_EXPR", << >>, kids))
  BY <1>15, <1>18, <1>19, PlainFits
<1>21. Yields(body.p, Made(body.p, t, Node("FOR_EXPR", << >>, kids)))
  BY <1>2, <1>13, <1>14, <1>15, <1>20, Making
<1>22. ParseFor(sub, q) = Made(body.p, t, Node("FOR_EXPR", << >>, kids))
  BY <1>1, <1>2, <1>3, <1>6, <1>8, <1>9, <1>11, <1>13, <1>14, <1>19 DEF With, ParseFor
<1> QED BY <1>16, <1>21, <1>22, ComesOn

LEMMA LiteralYields ==
    ASSUME Tokens, NEW q, Sound(q), NEW i \in 1 .. Len(tokens)
    PROVE  Yields(q, ParseLiteral(q, tokens[i]))
<1>1. PICK s : s = IF tokens[i] \in OutOfRange THEN Error(NewNode(q)) ELSE NewNode(q)
  OBVIOUS
<1>2. Leads(NewNode(q), s) /\ Sound(s)
  BY <1>1, TakesOn, ReportsOn, LeadsHere DEF Leads
<1>3. Fitting(s, Node("LITERAL", <<tokens[i]>>, << >>))
  BY <1>2, LiteralFits
<1>4. ParseLiteral(q, tokens[i]) = Made(q, s, Node("LITERAL", <<tokens[i]>>, << >>))
  BY <1>1 DEF ParseLiteral
<1> QED BY <1>2, <1>3, <1>4, Making

-----------------------------------------------------------------------------
\* The table of parse functions, and the loop over it.
LEMMA PrefixYields ==
    ASSUME NEW sub, NEW n \in Nat, NEW q, Ready(sub, q, 2, n), NEW i \in 1 .. Len(tokens)
    PROVE  Yields(q, Prefix(sub, q, tokens[i]))
<1>1. Sound(q) /\ Tokens /\ Ready(sub, q, 1, n)
  BY Weaker DEF Ready
<1>2. PICK o : o = Prefix(sub, q, tokens[i])
  OBVIOUS
<1>3. \/ o = ParseIdentifier(q) \/ o = ParseLiteral(q, tokens[i]) \/ o = ParseGrouping(sub, q)
      \/ o = ParseArrayLit(sub, q) \/ o = ParseIf(sub, q) \/ o = ParseFor(sub, q)
      \/ o = ParseUnary(sub, q)
  BY <1>2 DEF Prefix
<1>4. /\ Yields(q, ParseIdentifier(q)) /\ Yields(q, ParseLiteral(q, tokens[i]))
      /\ Yields(q, ParseGrouping(sub, q)) /\ Yields(q, ParseArrayLit(sub, q))
  BY <1>1, IdentifierYields, LiteralYields, GroupingYields, ArrayLitYields
<1>5. Yields(q, ParseIf(sub, q)) /\ Yields(q, ParseFor(sub, q)) /\ Yields(q, ParseUnary(sub, q))
  BY <1>1, IfYields, ForYields, UnaryYields
<1> QED BY <1>2, <1>3, <1>4, <1>5

LEMMA InfixYields ==
    ASSUME NEW sub, NEW n \in Nat, NEW q, Ready(sub, q, 2, n), NEW t, NEW lhs, Points(q, lhs)
    PROVE  Yields(q, Infix(sub, q, t, lhs))
<1>1. Sound(q) /\ Tokens
  BY DEF Ready
<1>2. PICK o : o = Infix(sub, q, t, lhs)
  OBVIOUS
<1>3. \/ o = ParseCall(sub, q, lhs) \/ o = ParseIndex(sub, q, lhs) \/ o = ParseDot(q, lhs)
      \/ o = ParseAssign(sub, q, lhs) \/ o = ParseTernary(sub, q, lhs) \/ o = ParseComma(sub, q, lhs)
      \/ o = ParseRange(sub, q, lhs) \/ o = ParseBinary(sub, q, lhs)
  BY <1>2 DEF Infix
<1>4. /\ Yields(q, ParseCall(sub, q, lhs)) /\ Yields(q, ParseIndex(sub, q, lhs))
      /\ Yields(q, ParseDot(q, lhs)) /\ Yields(q, ParseAssign(sub, q, lhs))
  BY <1>1, CallYields, IndexYields, DotYields, AssignYields
<1>5. /\ Yields(q, ParseTernary(sub, q, lhs)) /\ Yields(q, ParseComma(sub, q, lhs))
      /\ Yields(q, ParseRange(sub, q, lhs)) /\ Yields(q, ParseBinary(sub, q, lhs))
  BY TernaryYields, CommaYields, RangeYields, BinaryYields
<1> QED BY <1>2, <1>3, <1>4, <1>5

LEMMA BehindThisToken ==
    ASSUME NEW sub, NEW n \in Nat, NEW q, Ready(sub, q, 0, n), Running(q)
    PROVE  /\ Ready(sub, Advance(q), 2, n) /\ Leads(q, Advance(q)) /\ Sound(q) /\ Tokens
           /\ q.pos \in 1 .. Len(tokens) /\ Tok(q) = tokens[q.pos]
<1>1. PICK r : r = Advance(q)
  OBVIOUS
<1>2. Sound(q) /\ Tokens /\ q \in States
  BY DEF Ready, Sound
<1>3. Leads(q, r) /\ (Running(r) => r.pos > q.pos)
  BY <1>1, <1>2, MovesOn
<1>4. Ready(sub, r, 2, n)
  BY <1>3, ReadyOn
<1>5. q.pos \in 1 .. Len(tokens) /\ Tok(q) = tokens[q.pos]
  BY <1>2, StateIs DEF Sound, Tokens, Tok
<1> QED BY <1>1, <1>2, <1>3, <1>4, <1>5

LEMMA InfixesYield ==
    ASSUME NEW sub, NEW n \in Nat, NEW q, Ready(sub, q, 0, n), NEW lhs \in Nat, Points(q, lhs),
           NEW prec \in Nat
    PROVE  Yields(q, Infixes(sub, q, lhs, prec))
<1>1. Sound(q) /\ Tokens /\ Leads(q, q)
  BY LeadsHere DEF Ready
<1>2. CASE ~Running(q) \/ prec >= Precedence(Tok(q))
  BY <1>1, <1>2, ResultIs DEF Infixes
<1>3. CASE Running(q) /\ ~(prec >= Precedence(Tok(q)))
  <2>1. PICK s : s = Advance(q)
    OBVIOUS
  <2>2. Ready(sub, s, 2, n) /\ Leads(q, s)
    BY <1>3, <2>1, BehindThisToken
  <2>3. PICK r : r = Infix(sub, s, Tok(q), lhs)
    OBVIOUS
  <2>4. Yields(s, r)
    BY <2>2, <2>3, InPoolOn, InfixYields
  <2>5. r \in Outs /\ Leads(s, r.p) /\ Points(r.p, r.node)
    BY <2>4 DEF Yields, Comes
  <2>6. Leads(q, r.p) /\ Ready(sub, r.p, 1, n)
    BY <2>2, <2>5, LeadsOn, ReadyOn, Weaker
  <2>7. Yields(q, InfixesOf(sub, r, prec))
    BY <2>5, <2>6, InfixesSub, ComesOn
  <2> QED BY <1>3, <2>1, <2>3, <2>5, <2>7 DEF With, Infixes
<1> QED BY <1>2, <1>3

LEMMA ExprPrecYields ==
    ASSUME NEW sub, NEW n \in Nat, NEW q, Ready(sub, q, 0, n), NEW prec \in Nat
    PROVE  /\ Yields(q, ParseExprPrec(sub, q, prec))
           /\ Running(ParseExprPrec(sub, q, prec).p) => ParseExprPrec(sub, q, prec).p.pos > q.pos
<1>1. Sound(q) /\ Tokens /\ Leads(q, q) /\ q \in States
  BY LeadsHere DEF Ready, Sound
<1>2. CASE ~Running(q)
  <2>1. Points(q, 0)
    BY <1>1, <1>2, StateIs DEF Points, InPool
  <2>2. ParseExprPrec(sub, q, prec) = Result(q, 0)
    BY <1>2 DEF ParseExprPrec
  <2> QED BY <1>1, <1>2, <2>1, <2>2, ResultIs
<1>3. CASE Running(q)
  <2>1. PICK s : s = Advance(q)
    OBVIOUS
  <2>2. Ready(sub, s, 2, n) /\ Leads(q, s) /\ q.pos \in 1 .. Len(tokens) /\ Tok(q) = tokens[q.pos]
    BY <1>3, <2>1, BehindThisToken
  <2>3. PICK o : o = ParseExprPrec(sub, q, prec)
    OBVIOUS
  <2>4. Yields(s, o)
    <3>1. CASE Tok(q) \notin Prefixes
      <4>1. PICK e : e = Error(s)
        OBVIOUS
      <4>2. Leads(s, e) /\ (Running(e) => e.errors > 0)
        BY <1>1, <2>2, <4>1, ReportsOn DEF Leads
      <4>3. Points(e, 0)
        <5>1. e \in States
          BY <4>2 DEF Leads, Sound
        <5> QED BY <4>2, <5>1, StateIs DEF Points, InPool
      <4>4. o = Result(e, 0)
        BY <1>3, <2>1, <2>3, <3>1, <4>1 DEF ParseExprPrec
      <4> QED BY <4>2, <4>3, <4>4, ResultIs
    <3>2. CASE Tok(q) \in Prefixes
      <4>1. PICK lhs : lhs = Prefix(sub, s, Tok(q))
        OBVIOUS
      <4>2. Yields(s, lhs)
        BY <2>2, <4>1, PrefixYields
      <4>3. lhs \in Outs /\ Leads(s, lhs.p) /\ Points(lhs.p, lhs.node)
        BY <4>2 DEF Yields, Comes
      <4>4. Ready(sub, lhs.p, 1, n)
        BY <2>2, <4>3, ReadyOn, Weaker
      <4>5. Yields(s, InfixesOf(sub, lhs, prec))
        BY <4>3, <4>4, InfixesSub, ComesOn
      <4> QED BY <1>3, <2>1, <2>3, <3>2, <4>1, <4>3, <4>5 DEF With, ParseExprPrec
    <3> QED BY <3>1, <3>2
  <2> QED BY <1>1, <2>1, <2>3, <2>4, BehindToken
<1> QED BY <1>2, <1>3

\* A function that keeps its promises to depth n keeps them to n + 1, one level up.
LEMMA CalledKeeps ==
    ASSUME Tokens, NEW sub, NEW n \in Nat, Good(sub, n), NEW c \in Calls, Proper(c),
           Fits(c.q, Rank(c.fn), n + 1)
    PROVE  Promise(c, Called(sub, c))
<1>1. c.q \in States /\ Sound(c.q) /\ c.lhs \in Nat /\ c.prec \in Nat
  BY DEF Proper, Sound, Calls
<1>2. c.q.pos \in Nat /\ Len(tokens) \in Nat
  BY <1>1, StateIs DEF Tokens
<1>3. PICK o : o = Called(sub, c)
  OBVIOUS
<1>4. CASE Rank(c.fn) = 1
  <2>1. Ready(sub, c.q, 0, n)
    <3>1. Running(c.q) => n + 1 >= 2 * (Len(tokens) + 1 - c.q.pos) + 1
      BY <1>4 DEF Fits
    <3>2. Fits(c.q, 0, n)
      BY <1>2, <3>1 DEF Fits
    <3> QED BY <1>1, <3>2 DEF Ready
  <2>2. c.fn \in {"expr", "infixes", "newlines"}
    BY <1>4 DEF Rank
  <2>3. CASE c.fn = "expr"
    <3>1. o = ParseExprPrec(sub, c.q, c.prec)
      BY <1>3, <2>3 DEF Called
    <3>2. Yields(c.q, o) /\ (Running(o.p) => o.p.pos > c.q.pos)
      BY <1>1, <2>1, <3>1, ExprPrecYields
    <3> QED BY <1>3, <2>3, <3>2 DEF Promise, Yields
  <2>4. CASE c.fn = "infixes"
    <3>1. o = Infixes(sub, c.q, c.lhs, c.prec) /\ Points(c.q, c.lhs)
      BY <1>3, <2>4 DEF Called, Proper
    <3>2. Yields(c.q, o)
      BY <1>1, <2>1, <3>1, InfixesYield
    <3> QED BY <1>3, <2>4, <3>2 DEF Promise, Yields
  <2>5. CASE c.fn = "newlines"
    <3>1. o = SkipNewlines(sub, c.q)
      BY <1>3, <2>5 DEF Called
    <3>2. Comes(c.q, o)
      BY <2>1, <3>1, NewlinesCome
    <3> QED BY <1>3, <2>5, <3>2 DEF Promise
  <2> QED BY <2>2, <2>3, <2>4, <2>5
<1>5. CASE Rank(c.fn) = 2
  <2>1. Ready(sub, c.q, 1, n)
    <3>1. Running(c.q) => n + 1 >= 2 * (Len(tokens) + 1 - c.q.pos) + 2
      BY <1>5 DEF Fits
    <3>2. Fits(c.q, 1, n)
      BY <1>2, <3>1 DEF Fits
    <3> QED BY <1>1, <3>2 DEF Ready
  <2>2. c.fn \in {"arguments", "elements", "targets", "values", "parameters", "statements", "if"}
    BY <1>5 DEF Rank, Calls
  <2>3. CASE c.fn = "if"
    <3>1. o = ParseIf(sub, c.q)
      BY <1>3, <2>3 DEF Called
    <3>2. Yields(c.q, o)
      BY <2>1, <3>1, IfYields
    <3> QED BY <1>3, <2>3, <3>2 DEF Promise, Yields
  <2>4. CASE c.fn \in {"targets", "values", "parameters"}
    <3>1. c.array \in Arrays
      BY DEF Calls
    <3>2. \/ o = Targets(sub, c.q, c.array) \/ o = Values(sub, c.q, c.array)
          \/ o = Parameters(sub, c.q, c.array)
      BY <1>3, <2>4 DEF Called
    <3>3. Comes(c.q, o)
      BY <2>1, <3>1, <3>2, TargetsCome, ValuesCome, ParametersCome
    <3> QED BY <1>3, <2>4, <3>3 DEF Promise
  <2>5. CASE c.fn \in {"arguments", "elements", "statements"}
    <3>1. Holds(c.q, c.array)
      BY <2>5 DEF Proper
    <3>2. \/ o = Arguments(sub, c.q, c.array) \/ o = Elements(sub, c.q, c.array)
          \/ o = BlockStatements(sub, c.q, c.array)
      BY <1>3, <2>5 DEF Called
    <3>3. Lists(c.q, o)
      BY <2>1, <3>1, <3>2, ArgumentsList, ElementsList, BlockStatementsList
    <3> QED BY <1>3, <2>5, <3>3 DEF Promise, Lists
  <2> QED BY <2>2, <2>3, <2>4, <2>5
<1>6. Rank(c.fn) = 1 \/ Rank(c.fn) = 2
  BY DEF Rank
<1> QED BY <1>4, <1>5, <1>6

-----------------------------------------------------------------------------
\* parse is what its definition says: the function it is chosen as exists.
LEMMA LeastNat ==
    ASSUME NEW T \in SUBSET Nat, T # {}
    PROVE  \E x \in T : \A y \in T : x <= y
<1>1. PICK x \in T : \A y \in T : ~(<<y, x>> \in OpToRel(<, Nat))
  BY WFMin, NatLessThanWellFounded
<1>2. ASSUME NEW y \in T PROVE x <= y
  <2>1. x \in Nat /\ y \in Nat
    OBVIOUS
  <2>2. ~(y < x)
    BY <1>1, <2>1 DEF OpToRel
  <2> QED BY <2>1, <2>2
<1> QED BY <1>2

Layer(n, g) == [c \in Calls |-> IF n = 0 THEN Result(Halt(c.q, "deep"), 0) ELSE Called(g, c)]

LEMMA LayersExist ==
    ASSUME NEW m \in Nat
    PROVE  \E f : f = [i \in 0 .. m |-> Layer(i, f[i - 1])]
<1> DEFINE Upto(k) == \E f : f = [i \in 0 .. k |-> Layer(i, f[i - 1])]
           T == {k \in 0 .. m : ~Upto(k)}
<1>1. SUFFICES ASSUME T # {} PROVE FALSE
  OBVIOUS
<1>2. PICK k \in T : \A j \in T : k <= j
  <2>1. T \in SUBSET Nat
    OBVIOUS
  <2> HIDE DEF T
  <2> QED BY <1>1, <2>1, LeastNat
<1>3. k \in 0 .. m /\ ~Upto(k) /\ k \in Nat
  OBVIOUS
<1>4. \A x, y : Layer(0, x) = Layer(0, y)
  BY DEF Layer
<1>5. CASE k = 0
  <2>1. PICK f : f = [i \in 0 .. 0 |-> Layer(0, 0)]
    OBVIOUS
  <2>2. \A i \in 0 .. 0 : Layer(i, f[i - 1]) = Layer(0, 0)
    BY <1>4
  <2>3. f = [i \in 0 .. 0 |-> Layer(i, f[i - 1])]
    BY <2>1, <2>2
  <2> QED BY <1>3, <1>5, <2>3
<1>6. CASE k # 0
  <2>1. k - 1 \in 0 .. m /\ k - 1 < k
    BY <1>3, <1>6
  <2>2. Upto(k - 1)
    <3>1. k - 1 \notin T
      BY <1>2, <1>3
    <3> QED BY <2>1, <3>1
  <2>3. PICK f : f = [i \in 0 .. k - 1 |-> Layer(i, f[i - 1])]
    BY <2>2
  <2>4. PICK g : g = [i \in 0 .. k |-> Layer(i, f[i - 1])]
    OBVIOUS
  <2>5. \A i \in 0 .. k - 1 : g[i] = f[i]
    <3> SUFFICES ASSUME NEW i \in 0 .. k - 1 PROVE g[i] = f[i]
      OBVIOUS
    <3>1. i \in 0 .. k
      BY <1>3
    <3>2. g[i] = Layer(i, f[i - 1])
      BY <2>4, <3>1
    <3>3. f[i] = Layer(i, f[i - 1])
      BY <2>3, Zenon
    <3> QED BY <3>2, <3>3
  <2>6. \A i \in 0 .. k : Layer(i, f[i - 1]) = Layer(i, g[i - 1])
    <3> SUFFICES ASSUME NEW i \in 0 .. k PROVE Layer(i, f[i - 1]) = Layer(i, g[i - 1])
      OBVIOUS
    <3>1. CASE i = 0
      BY <1>4, <3>1
    <3>2. CASE i # 0
      <4>1. i - 1 \in 0 .. k - 1
        BY <1>3, <3>2
      <4> QED BY <2>5, <4>1
    <3> QED BY <3>1, <3>2
  <2>7. g = [i \in 0 .. k |-> Layer(i, g[i - 1])]
    BY <2>4, <2>6
  <2> QED BY <1>3, <2>7
<1> QED BY <1>5, <1>6

LEMMA ParseIs ==
    ASSUME Tokens
    PROVE  \A n \in 0 .. Depth : parse[n] = Layer(n, parse[n - 1])
<1>1. Depth \in Nat
  BY DEF Depth, Tokens
<1> DEFINE Table(g) == [n \in 0 .. Depth |->
               [c \in Calls |-> IF n = 0 THEN Result(Halt(c.q, "deep"), 0) ELSE Called(g[n - 1], c)]]
<1>2. parse = CHOOSE g : g = Table(g)
  BY DEF parse
<1>3. \E f : f = Table(f)
  <2>1. PICK f : f = [i \in 0 .. Depth |-> Layer(i, f[i - 1])]
    BY <1>1, LayersExist
  <2>2. f = Table(f)
    BY <2>1, Zenon DEF Layer
  <2> QED BY <2>2
<1>4. parse = Table(parse)
  <2> HIDE DEF Table
  <2> QED BY <1>2, <1>3, Zenon
<1>5. PICK f : f = parse
  OBVIOUS
<1>6. f = [n \in 0 .. Depth |-> Layer(n, f[n - 1])]
  BY <1>4, <1>5, Zenon DEF Layer
<1>7. \A n \in 0 .. Depth : f[n] = Layer(n, f[n - 1])
  BY <1>6, Zenon
<1> QED BY <1>5, <1>7

\* The parse functions keep their promises as deep as they are nested.
LEMMA ParseGood ==
    ASSUME Tokens, NEW n \in 0 .. Depth
    PROVE  Good(parse[n], n)
<1> DEFINE T == {i \in 0 .. Depth : ~Good(parse[i], i)}
<1>1. SUFFICES ASSUME T # {} PROVE FALSE
  OBVIOUS
<1>2. PICK k \in T : \A j \in T : k <= j
  <2>1. T \in SUBSET Nat
    OBVIOUS
  <2> HIDE DEF T
  <2> QED BY <1>1, <2>1, LeastNat
<1>3. k \in 0 .. Depth /\ ~Good(parse[k], k) /\ k \in Nat
  OBVIOUS
<1>4. parse[k] = Layer(k, parse[k - 1])
  BY <1>3, ParseIs
<1>5. CASE k = 0
  <2> SUFFICES ASSUME NEW c \in Calls, Proper(c), Fits(c.q, Rank(c.fn), 0)
               PROVE  Promise(c, parse[0][c])
    BY <1>3, <1>5 DEF Good
  <2>1. Sound(c.q) /\ c.q \in States /\ Leads(c.q, c.q)
    BY LeadsHere DEF Proper, Sound
  <2>2. ~Running(c.q)
    <3>1. c.q.pos \in Nat /\ Len(tokens) \in Nat /\ (Running(c.q) => c.q.pos <= Len(tokens))
      BY <2>1, StateIs DEF Sound, Tokens
    <3>2. Rank(c.fn) > 0 /\ Rank(c.fn) \in Nat
      BY DEF Rank
    <3> QED BY <3>1, <3>2 DEF Fits
  <2>3. parse[0][c] = Result(c.q, 0)
    BY <1>4, <1>5, <2>2 DEF Layer, Halt
  <2>4. Points(c.q, 0)
    BY <2>2 DEF Points, InPool
  <2>5. Yields(c.q, Result(c.q, 0))
    BY <2>1, <2>4, ResultIs
  <2>6. Result(c.q, 0).p = c.q /\ Result(c.q, 0).list = << >>
    BY DEF Result
  <2>7. Lists(c.q, Result(c.q, 0))
    BY <2>5, <2>6 DEF Lists, Yields
  <2> QED BY <2>2, <2>3, <2>5, <2>6, <2>7 DEF Promise, Yields
<1>6. CASE k # 0
  <2>0. Depth \in Nat
    BY DEF Depth, Tokens
  <2>1. PICK m : m = k - 1 /\ m \in 0 .. Depth /\ m < k /\ m \in Nat /\ k = m + 1
    BY <1>3, <1>6, <2>0
  <2>2. Good(parse[m], m)
    <3>1. m \notin T
      BY <1>2, <1>3, <2>1
    <3> QED BY <2>1, <3>1
  <2> SUFFICES ASSUME NEW c \in Calls, Proper(c), Fits(c.q, Rank(c.fn), m + 1)
               PROVE  Promise(c, parse[k][c])
    BY <1>3, <2>1 DEF Good
  <2>3. parse[k][c] = Called(parse[m], c)
    BY <1>4, <1>6, <2>1 DEF Layer
  <2> QED BY <2>1, <2>2, <2>3, CalledKeeps
<1> QED BY <1>5, <1>6

-----------------------------------------------------------------------------
\* The invariant of parse_program: each statement takes a token at least, and the
\* last token is no part of one.
Parsing ==
    /\ Tokens /\ tokens[Len(tokens)] = "END"
    /\ Sound(p)
    /\ program \in Arrays /\ Len(program.items) < Len(tokens)
    /\ Running(p) => Len(program.items) < p.pos
    /\ done \in BOOLEAN

LEMMA InitParsing ==
    ASSUME Init
    PROVE  Parsing
<1>1. PICK k \in DOMAIN Sources : \E s \in Sources[k] : tokens = Append(s.tokens, "END")
  BY DEF Init
<1>2. PICK s \in Sources[k] : tokens = Append(s.tokens, "END")
  BY <1>1
<1>3. s.tokens \in Seq(TokenTexts) /\ NodeCap \in Nat \ {0}
  BY ParserAssumption
<1>4. "END" \in TokenTexts
  BY DEF TokenTexts, Terminals
<1>5. /\ tokens \in Seq(TokenTexts) /\ Len(tokens) = Len(s.tokens) + 1
      /\ tokens[Len(s.tokens) + 1] = "END" /\ Len(s.tokens) \in Nat
  BY <1>2, <1>3, <1>4, AppendProperties
<1>6. PICK root : root = Node("BLOCK", << >>, << >>)
  OBVIOUS
<1>7. root \in Nodes /\ root.kind = "BLOCK" /\ root.kids = << >>
  BY <1>6 DEF Node, Nodes, Kinds
<1>8. p = [pos |-> 1, pool |-> <<root>>, errors |-> 0, top |-> 1, halt |-> "no"]
  BY <1>6 DEF Init
<1>9. PICK kept : kept = <<root>>
  OBVIOUS
<1>10. kept \in Seq(Nodes) /\ Len(kept) = 1 /\ kept[1] = root
  BY <1>7, <1>9
<1>11. p.pos = 1 /\ p.pool = kept /\ p.errors = 0 /\ p.halt = "no"
  BY <1>8, <1>9
<1>18. Len(p.pool) = 1 /\ p.pool[1] = root
  <2>1. p.pool = kept
    BY <1>11
  <2> QED BY <1>10, <2>1
<1>12. p \in States
  BY <1>5, <1>8, <1>9, <1>10 DEF States
<1>13. PoolSound(p)
  <2>1. NodeSound(root, 1, 0)
    BY <1>7 DEF NodeSound
  <2>2. \A i \in 1 .. Len(p.pool) : p.pool[i] = root /\ Len(p.pool) = 1 /\ p.errors = 0
    BY <1>11, <1>18
  <2> QED BY <2>1, <2>2 DEF PoolSound
<1>14. Sound(p)
  <2>1. p.pos <= Len(tokens)
    BY <1>5, <1>11
  <2>2. Len(p.pool) \in 1 .. NodeCap
    BY <1>3, <1>18
  <2>3. p.halt # "deep" /\ p.halt # "crash"
    BY <1>11
  <2> QED BY <1>12, <1>13, <2>1, <2>2, <2>3 DEF Sound
<1>15. program = NoArray /\ done = FALSE
  BY DEF Init
<1>16. program \in Arrays /\ Len(program.items) = 0
  BY <1>15, NoArrayHolds
<1>17. Tokens /\ tokens[Len(tokens)] = "END" /\ 0 < Len(tokens)
  BY <1>5 DEF Tokens
<1>19. Len(program.items) < Len(tokens) /\ Len(program.items) < p.pos
  BY <1>11, <1>16, <1>17
<1>20. done \in BOOLEAN
  BY <1>15
<1> QED BY <1>14, <1>16, <1>17, <1>19, <1>20 DEF Parsing

\* Sound says the same of the next state when the tokens stay what they are.
LEMMA SoundNext ==
    ASSUME UNCHANGED tokens, NEW r, p' = r, Sound(r)
    PROVE  Sound(p)'
<1>1. p' \in States'
  BY DEF Sound, States
<1>2. /\ p'.halt # "deep" /\ (p'.halt = "no" => p'.pos <= Len(tokens'))
      /\ Len(p'.pool) \in 1 .. NodeCap /\ (p'.halt = "crash" => p'.errors > 0)
  BY DEF Sound, Running
<1>3. ASSUME NEW i \in 1 .. Len(p'.pool)
      PROVE  NodeSound(p.pool[i], Len(p.pool), p.errors)'
  <2>1. NodeSound(r.pool[i], Len(r.pool), r.errors)
    BY <1>3 DEF Sound, PoolSound
  <2> QED BY <2>1 DEF NodeSound
<1>4. PoolSound(p)'
  BY <1>3 DEF PoolSound
<1> QED BY <1>1, <1>2, <1>4 DEF Sound, Running

LEMMA StatementLeads ==
    ASSUME Parsing, Running(p), Tok(p) # "END", NEW stmt, stmt = ParseStmt(parse[Depth], p),
           NEW s, s = AddStmt(stmt.p, program),
           NEW r, r = IF Running(s) /\ Tok(s) \in Separators THEN Advance(s)
                      ELSE IF Match(s, "END") THEN s ELSE Error(s)
    PROVE  /\ Leads(p, r)
           /\ Added(stmt.p, program, stmt.node) \in Arrays
           /\ Len(Added(stmt.p, program, stmt.node).items) = Len(program.items) + 1
           /\ Running(r) => r.pos > p.pos
           /\ p.pos < Len(tokens)
<1>1. Tokens /\ Sound(p) /\ p \in States /\ tokens[Len(tokens)] = "END" /\ program \in Arrays
  BY DEF Parsing, Sound
<1>2. p.pos \in Nat /\ p.pos >= 1 /\ p.pos <= Len(tokens) /\ Len(tokens) \in Nat
  BY <1>1, StateIs DEF Sound, Tokens
<1>3. p.pos < Len(tokens)
  BY <1>1, <1>2 DEF Tok
<1>4. Ready(parse[Depth], p, 1, Depth) /\ Depth \in Nat
  <2>1. Depth \in Nat /\ Depth \in 0 .. Depth
    BY <1>2 DEF Depth
  <2>2. Good(parse[Depth], Depth)
    BY <1>1, <2>1, ParseGood
  <2>3. Fits(p, 1, Depth)
    BY <1>2 DEF Fits, Depth
  <2> QED BY <1>1, <2>1, <2>2, <2>3 DEF Ready
<1>5. Yields(p, stmt) /\ (Running(stmt.p) => stmt.p.pos > p.pos)
  BY <1>4, StmtYields
<1>6. Leads(p, stmt.p) /\ Sound(stmt.p) /\ stmt.node \in Nat
  BY <1>5 DEF Yields, Comes, Leads, Outs
<1>7. /\ Leads(stmt.p, s) /\ Sound(s) /\ Added(stmt.p, program, stmt.node) \in Arrays
      /\ Len(Added(stmt.p, program, stmt.node).items) = Len(program.items) + 1
  BY <1>1, <1>6, AddsOn DEF Leads
<1>8. Leads(stmt.p, r)
  <2>1. Leads(s, r)
    BY <1>1, <1>7, MovesOn, ReportsOn, LeadsHere
  <2> QED BY <1>7, <2>1, LeadsOn
<1>9. Leads(p, r)
  BY <1>6, <1>8, LeadsOn
<1>10. Running(r) => r.pos > p.pos
  <2>1. (Running(r) => Running(stmt.p)) /\ r.pos >= stmt.p.pos
    BY <1>8 DEF Leads
  <2>2. r.pos \in Nat /\ stmt.p.pos \in Nat
    BY <1>8, StateIs DEF Leads, Sound
  <2> QED BY <1>2, <1>5, <2>1, <2>2
<1> QED BY <1>3, <1>9, <1>10, <1>7

LEMMA StepParsing ==
    ASSUME Parsing, [Next]_vars
    PROVE  Parsing'
<1>1. /\ Tokens /\ tokens[Len(tokens)] = "END" /\ Sound(p) /\ p \in States
      /\ program \in Arrays /\ Len(program.items) < Len(tokens) /\ done \in BOOLEAN
      /\ Running(p) => Len(program.items) < p.pos
  BY DEF Parsing, Sound
<1>2. p.pos \in Nat /\ Len(program.items) \in Nat /\ Len(tokens) \in Nat
  BY <1>1, StateIs, WithNextIs DEF Tokens
<1>3. CASE Separator
  <2>1. PICK r : r = Advance(p)
    OBVIOUS
  <2>2. Leads(p, r) /\ p' = r /\ UNCHANGED <<tokens, program, done>> /\ Running(p)
    BY <1>1, <1>3, <2>1, MovesOn DEF Separator
  <2>3. Sound(r) /\ r.pos >= p.pos /\ r.pos \in Nat
    BY <2>2, StateIs DEF Leads, Sound
  <2>4. Sound(p)'
    BY <2>2, <2>3, SoundNext
  <2>5. Running(p)' => Len(program'.items) < p'.pos
    BY <1>1, <1>2, <2>2, <2>3
  <2> QED BY <1>1, <2>2, <2>4, <2>5 DEF Parsing, Tokens
<1>4. CASE Statement
  <2>1. PICK stmt : /\ stmt = ParseStmt(parse[Depth], p)
                    /\ LET s == AddStmt(stmt.p, program)
                       IN  p' = IF Running(s) /\ Tok(s) \in Separators THEN Advance(s)
                                ELSE IF Match(s, "END") THEN s ELSE Error(s)
                    /\ program' = Added(stmt.p, program, stmt.node)
    BY <1>4 DEF Statement
  <2>2. UNCHANGED <<tokens, done>> /\ Running(p) /\ Tok(p) # "END"
    BY <1>4 DEF Statement
  <2>3. PICK s, r : /\ s = AddStmt(stmt.p, program) /\ p' = r
                    /\ r = IF Running(s) /\ Tok(s) \in Separators THEN Advance(s)
                           ELSE IF Match(s, "END") THEN s ELSE Error(s)
    BY <2>1
  <2>4. /\ Leads(p, r) /\ (Running(r) => r.pos > p.pos) /\ p.pos < Len(tokens)
        /\ program' \in Arrays /\ Len(program'.items) = Len(program.items) + 1
    BY <2>1, <2>2, <2>3, StatementLeads
  <2>5. Sound(r) /\ p' = r /\ r.pos \in Nat
    BY <2>3, <2>4, StateIs DEF Leads, Sound
  <2>6. Sound(p)'
    BY <2>2, <2>5, SoundNext
  <2>8. Len(program'.items) < Len(tokens)
    BY <1>1, <1>2, <2>2, <2>4
  <2>9. Running(p)' => Len(program'.items) < p'.pos
    <3>1. Running(p)' => Running(r)
      BY <2>5 DEF Running
    <3> QED BY <1>1, <1>2, <2>2, <2>4, <2>5, <3>1
  <2> QED BY <1>1, <2>2, <2>4, <2>6, <2>8, <2>9 DEF Parsing, Tokens, Arrays
<1>5. CASE Return \/ UNCHANGED vars
  <2>1. UNCHANGED <<tokens, p, program>> /\ done' \in BOOLEAN
    BY <1>1, <1>5 DEF Return, vars
  <2>2. Sound(p)'
    BY <1>1, <2>1, SoundNext
  <2> QED BY <1>1, <2>1, <2>2 DEF Parsing, Tokens, Running
<1> QED BY <1>3, <1>4, <1>5 DEF Next

LEMMA ParsingTypes ==
    ASSUME Parsing
    PROVE  TypeOK /\ CrashOnlyAfterError
BY DEF Parsing, Tokens, Sound, TypeOK, CrashOnlyAfterError

\* The parser by itself: whatever the tokens, its calls nest no deeper than Depth,
\* its nodes stay within the pool, and there are fewer statements than tokens.
THEOREM ParserTypeCorrect == Spec => []TypeOK
<1>1. Init => Parsing
  BY InitParsing
<1>2. Parsing /\ [Next]_vars => Parsing'
  BY StepParsing
<1>3. Parsing => TypeOK
  BY ParsingTypes
<1> QED BY <1>1, <1>2, <1>3, PTL DEF Spec

-----------------------------------------------------------------------------
(* The compiler: what the generator's proofs show of a pool (CodegenProofs)  *)
(* holds of the pool that the parser leaves.                                 *)

GenProofs == INSTANCE CodegenProofs WITH nodes <- p.pool, PoolCap <- NodeCap

Generating == GenProofs!IInv /\ GenProofs!Kept

\* The generator of the proofs is that of the compiler: both are Codegen.
LEMMA SameGenerator ==
    /\ Gen!Next <=> GenProofs!Next
    /\ Gen!CodeOfNodes <=> GenProofs!CodeOfNodes
    /\ Gen!GenTypeOK <=> GenProofs!GenTypeOK
    /\ Gen!PoolOK <=> GenProofs!PoolOK
<1>1. Gen!VarDecl <=> GenProofs!VarDecl
  BY DEF Gen!VarDecl, Gen!Visiting, Gen!node, Gen!Emit, Gen!Words, Gen!NumberOf, Gen!LOADK_INT,
         Gen!Verdict, Gen!BinaryVerdict, Gen!IsNumber, Gen!IsNull, GenProofs!VarDecl,
         GenProofs!Visiting, GenProofs!node, GenProofs!Emit, GenProofs!Words,
         GenProofs!NumberOf, GenProofs!LOADK_INT, GenProofs!Verdict, GenProofs!BinaryVerdict,
         GenProofs!IsNumber, GenProofs!IsNull
<1>2. Gen!BinaryOp <=> GenProofs!BinaryOp
  BY DEF Gen!BinaryOp, Gen!Visiting, Gen!node, Gen!Emit, Gen!Verdict, Gen!BinaryVerdict,
         Gen!IsNumber, Gen!IsNull, GenProofs!BinaryOp, GenProofs!Visiting, GenProofs!node,
         GenProofs!Emit, GenProofs!Verdict, GenProofs!BinaryVerdict, GenProofs!IsNumber,
         GenProofs!IsNull
<1>3. Gen!FuncCall <=> GenProofs!FuncCall
  BY DEF Gen!FuncCall, Gen!Visiting, Gen!node, Gen!Emit, Gen!CALL_OP, Gen!Verdict,
         Gen!BinaryVerdict, Gen!IsNumber, Gen!IsNull, GenProofs!FuncCall, GenProofs!Visiting,
         GenProofs!node, GenProofs!Emit, GenProofs!CALL_OP, GenProofs!Verdict,
         GenProofs!BinaryVerdict, GenProofs!IsNumber, GenProofs!IsNull
<1>4. Gen!OtherNode <=> GenProofs!OtherNode
  BY DEF Gen!OtherNode, Gen!Visiting, Gen!node, Gen!Emit, GenProofs!OtherNode,
         GenProofs!Visiting, GenProofs!node, GenProofs!Emit
<1>5. Gen!Fail <=> GenProofs!Fail
  BY DEF Gen!Fail, Gen!Visiting, Gen!node, Gen!Stop, Gen!Verdict, Gen!BinaryVerdict,
         Gen!IsNumber, Gen!IsNull, GenProofs!Fail, GenProofs!Visiting, GenProofs!node,
         GenProofs!Stop, GenProofs!Verdict, GenProofs!BinaryVerdict, GenProofs!IsNumber,
         GenProofs!IsNull
<1>6. Gen!Return <=> GenProofs!Return
  BY DEF Gen!Return, Gen!Stop, GenProofs!Return, GenProofs!Stop
<1>7. Gen!CodeOfNodes <=> GenProofs!CodeOfNodes
  <2>1. \A n : Gen!Offset(n) = GenProofs!Offset(n) /\ Gen!Slots(n) = GenProofs!Slots(n)
    <3>1. ASSUME NEW n, NEW kinds PROVE Gen!HowMany(n, kinds) = GenProofs!HowMany(n, kinds)
      BY DEF Gen!HowMany, Gen!Cardinality, GenProofs!HowMany, GenProofs!Cardinality
    <3> QED BY <3>1 DEF Gen!Offset, Gen!Slots, GenProofs!Offset, GenProofs!Slots
  <2>2. \A i : Gen!Coded(i) <=> GenProofs!Coded(i)
    BY <2>1 DEF Gen!Coded, Gen!NumberAt, Gen!NumberOf, Gen!LOADK_INT, Gen!CALL_OP, GenProofs!Coded,
           GenProofs!NumberAt, GenProofs!NumberOf, GenProofs!LOADK_INT, GenProofs!CALL_OP
  <2> QED BY <2>1, <2>2 DEF Gen!CodeOfNodes, Gen!CodeFits, GenProofs!CodeOfNodes, GenProofs!CodeFits
<1>8. Gen!GenTypeOK <=> GenProofs!GenTypeOK
  BY DEF Gen!GenTypeOK, GenProofs!GenTypeOK
<1>9. Gen!PoolOK <=> GenProofs!PoolOK
  BY DEF Gen!PoolOK, GenProofs!PoolOK
<1>10. Gen!Next <=> GenProofs!Next
  BY <1>1, <1>2, <1>3, <1>4, <1>5, <1>6 DEF Gen!Next, GenProofs!Next
<1> QED BY <1>7, <1>8, <1>9, <1>10

LEMMA ParsingPool ==
    ASSUME Parsing
    PROVE  GenProofs!PoolOK
<1>1. p \in States /\ Sound(p) /\ PoolSound(p)
  BY DEF Parsing, Sound
<1>2. Len(p.pool) \in 1 .. NodeCap /\ p.pool \in Seq(Nodes)
  BY <1>1, StateIs DEF Sound
<1>3. ASSUME NEW i \in 1 .. Len(p.pool), p.pool[i].kind = "FUNC_CALL"
      PROVE  Len(p.pool[i].kids) \in Nat \ {0}
  <2>1. p.pool[i] \in Nodes
    BY <1>2
  <2>2. p.pool[i].kids \in Seq(Nat)
    BY <2>1 DEF Nodes
  <2>3. Len(p.pool[i].kids) > 0
    BY <1>1, <1>3 DEF PoolSound, NodeSound
  <2> QED BY <2>2, <2>3
<1> QED BY <1>2, <1>3 DEF GenProofs!PoolOK

LEMMA StartsGenerating ==
    ASSUME Parsing, Gen!Init
    PROVE  Generating
<1>1. GenProofs!CodegenAssumption
  BY CompilerAssumption DEF Gen!CodegenAssumption, GenProofs!CodegenAssumption
<1>2. GenProofs!Init /\ GenProofs!PoolOK
  BY ParsingPool DEF Gen!Init, GenProofs!Init
<1>3. GenProofs!IInv
  BY <1>1, <1>2, GenProofs!InitBounded
<1>4. GenProofs!Kept
  BY <1>2, <1>3, GenProofs!InitKept
<1> QED BY <1>3, <1>4 DEF Generating

\* The invariant of the compiler: the debug output begins when the parser is
\* done, the generator after that, over a pool that stays as it is.
Compiling ==
    /\ Parsing
    /\ stage \in {"PARSED", "CODEGEN", "RAN"}
    /\ printed \in {"no", "yes", "damaged", "crashed"}
    /\ printed # "no" => done
    /\ stage # "PARSED" => printed # "no"
    /\ stage = "PARSED" => Gen!Init
    /\ stage # "PARSED" => Generating
    /\ PrintSafe

LEMMA CompilingGenerates ==
    ASSUME Compiling
    PROVE  Generating
BY StartsGenerating DEF Compiling

\* Only a null operand, so an error, or a literal of many digits, is overlong.
LEMMA OverlongOnlyFor ==
    ASSUME Parsing, NEW i \in DOMAIN p.pool, Overlong(p.pool[i])
    PROVE  \/ p.errors > 0
           \/ \E j \in DOMAIN tokens : tokens[j] \in DOMAIN Digits /\ Digits[tokens[j]] > TempDigits
<1>1. p \in States /\ PoolSound(p) /\ Tokens
  BY DEF Parsing, Sound
<1>2. p.pool \in Seq(Nodes) /\ p.errors \in Nat
  BY <1>1, StateIs
<1>3. i \in 1 .. Len(p.pool) /\ DOMAIN tokens = 1 .. Len(tokens)
  BY <1>1, <1>2 DEF Tokens
<1>4. PICK n : n = p.pool[i] /\ NodeSound(n, Len(p.pool), p.errors)
  BY <1>1, <1>3 DEF PoolSound
<1>5. PICK d \in PrintedDigits(n) : d > TempDigits
  BY <1>4 DEF Overlong
<1>6. ASSUME NEW k, d = IndexDigits(k) PROVE k = 0
  BY <1>5, <1>6 DEF IndexDigits, TempDigits
<1>7. CASE n.kind \in {"ASSIGNMENT", "BINARY_OP"}
  <2>1. PrintedDigits(n) = {IndexDigits(n.kids[1]), IndexDigits(n.kids[2])}
    <3>1. n.kind # "FUNC_CALL" /\ ~IsNumber(n)
      BY <1>7 DEF IsNumber
    <3> QED BY <1>7, <3>1 DEF PrintedDigits
  <2>2. n.kids[1] = 0 \/ n.kids[2] = 0
    BY <1>5, <1>6, <2>1
  <2>3. p.errors # 0
    BY <1>4, <1>7, <2>2 DEF NodeSound
  <2> QED BY <1>2, <2>3
<1>8. CASE n.kind = "FUNC_CALL"
  <2>1. PrintedDigits(n) = {IndexDigits(n.kids[1])}
    <3>1. n.kind \notin {"ASSIGNMENT", "BINARY_OP"} /\ ~IsNumber(n)
      BY <1>8 DEF IsNumber
    <3> QED BY <1>8, <3>1 DEF PrintedDigits
  <2>2. n.kids[1] = 0
    BY <1>5, <1>6, <2>1
  <2>3. p.errors # 0
    BY <1>4, <1>8, <2>2 DEF NodeSound
  <2> QED BY <1>2, <2>3
<1>9. CASE n.kind \notin {"ASSIGNMENT", "BINARY_OP", "FUNC_CALL"}
  <2>1. IsNumber(n) /\ d \in {Digits[n.text[1]]}
    <3>1. CASE IsNumber(n)
      BY <1>5, <1>9, <3>1 DEF PrintedDigits
    <3>2. CASE ~IsNumber(n)
      <4>1. PrintedDigits(n) = {}
        BY <1>9, <3>2 DEF PrintedDigits
      <4> QED BY <1>5, <4>1
    <3> QED BY <3>1, <3>2
  <2>2. n.kind = "LITERAL" /\ n.text[1] \in DOMAIN Digits
    BY <2>1 DEF IsNumber
  <2>3. PICK j \in 1 .. Len(tokens) : tokens[j] = n.text[1]
    BY <1>4, <2>2 DEF NodeSound
  <2> QED BY <1>3, <1>5, <2>1, <2>2, <2>3
<1> QED BY <1>7, <1>8, <1>9

LEMMA InitCompiling ==
    ASSUME CompilerInit
    PROVE  Compiling
<1>1. Parsing
  BY InitParsing DEF CompilerInit
<1> QED BY <1>1 DEF CompilerInit, Compiling, PrintSafe

\* Only the generator's own steps change what it knows.
LEMMA StillGenerating ==
    ASSUME Generating, UNCHANGED <<p, genvars>>
    PROVE  Generating'
<1>1. GenProofs!CodegenAssumption
  BY CompilerAssumption DEF Gen!CodegenAssumption, GenProofs!CodegenAssumption
<1>2. [GenProofs!Next]_(GenProofs!genvars)
  BY DEF genvars, GenProofs!genvars
<1> QED BY <1>1, <1>2, GenProofs!StepBounded, GenProofs!StepKept DEF Generating

LEMMA StepCompiling ==
    ASSUME Compiling, [CompilerNext]_compilervars
    PROVE  Compiling'
<1>1. /\ Parsing /\ Generating /\ PrintSafe
      /\ stage \in {"PARSED", "CODEGEN", "RAN"} /\ printed \in {"no", "yes", "damaged", "crashed"}
      /\ printed # "no" => done
      /\ stage # "PARSED" => printed # "no"
      /\ stage = "PARSED" => Gen!Init
  BY CompilingGenerates DEF Compiling
<1>2. CASE Parse
  <2>1. ~done /\ UNCHANGED <<stage, printed, genvars>> /\ Parsing'
    BY <1>1, <1>2, StepParsing DEF Parse, Next, Separator, Statement, Return
  <2>2. stage = "PARSED" /\ printed = "no"
    BY <1>1, <2>1
  <2>3. Gen!Init'
    BY <1>1, <2>1, <2>2 DEF Gen!Init, genvars
  <2> QED BY <2>1, <2>2, <2>3 DEF Compiling, PrintSafe
<1>3. ASSUME UNCHANGED vars PROVE Parsing' /\ UNCHANGED <<tokens, p, done>>
  BY <1>1, <1>3, StepParsing DEF vars
<1>4. CASE DebugPrint
  <2>1. /\ UNCHANGED <<vars, stage, genvars>> /\ done /\ printed = "no"
        /\ printed' \in IF \E i \in DOMAIN p.pool : Overlong(p.pool[i])
                        THEN {"damaged", "crashed"} ELSE {"yes"}
    BY <1>4 DEF DebugPrint
  <2>2. Parsing' /\ UNCHANGED <<tokens, p, done>>
    BY <1>3, <2>1
  <2>3. stage' = stage /\ stage = "PARSED" /\ Gen!Init'
    BY <1>1, <2>1 DEF Gen!Init, genvars
  <2>4. PrintSafe'
    <3>1. CASE \E i \in DOMAIN p.pool : Overlong(p.pool[i])
      <4>1. \/ p.errors > 0
            \/ \E j \in DOMAIN tokens : tokens[j] \in DOMAIN Digits /\ Digits[tokens[j]] > TempDigits
        BY <1>1, <3>1, OverlongOnlyFor
      <4> QED BY <2>2, <4>1 DEF PrintSafe, TempDigits
    <3>2. CASE ~\E i \in DOMAIN p.pool : Overlong(p.pool[i])
      BY <2>1, <3>2 DEF PrintSafe
    <3> QED BY <3>1, <3>2
  <2>5. printed' \in {"no", "yes", "damaged", "crashed"}
    BY <2>1
  <2> QED BY <2>1, <2>2, <2>3, <2>4, <2>5 DEF Compiling
<1>5. CASE StartCodegen \/ Run \/ UNCHANGED compilervars
  <2>1. /\ UNCHANGED <<vars, printed, genvars>>
        /\ stage' = stage \/ (printed # "no" /\ stage' \in {"CODEGEN", "RAN"})
    BY <1>1, <1>5 DEF StartCodegen, Run, compilervars
  <2>2. Parsing' /\ UNCHANGED <<tokens, p, done>>
    BY <1>3, <2>1
  <2>3. Generating'
    BY <1>1, <2>1, <2>2, StillGenerating
  <2>4. PrintSafe'
    BY <1>1, <2>1, <2>2 DEF PrintSafe, TempDigits
  <2>5. stage' = "PARSED" => Gen!Init'
    BY <1>1, <2>1 DEF Gen!Init, genvars
  <2>6. /\ printed' \in {"no", "yes", "damaged", "crashed"} /\ stage' \in {"PARSED", "CODEGEN", "RAN"}
        /\ printed' # "no" => done'
        /\ stage' # "PARSED" => printed' # "no"
    BY <1>1, <2>1, <2>2
  <2> QED BY <2>2, <2>3, <2>4, <2>5, <2>6 DEF Compiling
<1>6. CASE Codegen
  <2>1. stage = "CODEGEN" /\ UNCHANGED <<vars, stage, printed>> /\ Gen!Next
    BY <1>6 DEF Codegen
  <2>2. Parsing' /\ UNCHANGED <<tokens, p, done>>
    BY <1>3, <2>1
  <2>3. Generating'
    <3>1. GenProofs!CodegenAssumption
      BY CompilerAssumption DEF Gen!CodegenAssumption, GenProofs!CodegenAssumption
    <3>2. GenProofs!Next
      BY <2>1, SameGenerator
    <3> QED BY <1>1, <3>1, <3>2, GenProofs!StepBounded, GenProofs!StepKept DEF Generating
  <2>4. PrintSafe'
    BY <1>1, <2>1, <2>2 DEF PrintSafe, TempDigits
  <2> QED BY <1>1, <2>1, <2>2, <2>3, <2>4 DEF Compiling
<1> QED BY <1>2, <1>4, <1>5, <1>6 DEF CompilerNext

LEMMA CompilingImplies ==
    ASSUME Compiling
    PROVE  CompilerTypeOK /\ CrashOnlyAfterError /\ PrintSafe /\ CodeOfNodes
<1>1. /\ Parsing /\ Generating /\ PrintSafe
      /\ stage \in {"PARSED", "CODEGEN", "RAN"} /\ printed \in {"no", "yes", "damaged", "crashed"}
  BY CompilingGenerates DEF Compiling
<1>2. TypeOK /\ CrashOnlyAfterError
  BY <1>1, ParsingTypes
<1>3. GenProofs!GenTypeOK /\ GenProofs!PoolOK /\ GenProofs!CodeFits
  BY <1>1 DEF Generating, GenProofs!IInv
<1>4. GenProofs!CodeOfNodes
  BY <1>1, <1>3 DEF Generating, GenProofs!Kept, GenProofs!EachCoded, GenProofs!CodeOfNodes
<1> QED BY <1>1, <1>2, <1>3, <1>4, SameGenerator DEF CompilerTypeOK, CodeOfNodes

\* The state of the whole compiler keeps its type, and the generator gets a pool
\* as it expects one, whatever file was parsed.
THEOREM CompilerTypeCorrect == CompilerSpec => []CompilerTypeOK
<1>1. CompilerInit => Compiling
  BY InitCompiling
<1>2. Compiling /\ [CompilerNext]_compilervars => Compiling'
  BY StepCompiling
<1>3. Compiling => CompilerTypeOK
  BY CompilingImplies
<1> QED BY <1>1, <1>2, <1>3, PTL DEF CompilerSpec

\* The parser reads a null pointer only in files with errors: each parse function
\* that returns NULL has raised one.
THEOREM NoCrashWithoutError == CompilerSpec => []CrashOnlyAfterError
<1>1. CompilerInit => Compiling
  BY InitCompiling
<1>2. Compiling /\ [CompilerNext]_compilervars => Compiling'
  BY StepCompiling
<1>3. Compiling => CrashOnlyAfterError
  BY CompilingImplies
<1> QED BY <1>1, <1>2, <1>3, PTL DEF CompilerSpec

\* The debug output stays within its digits for every file without errors and
\* without a literal of more than 16 digits.
THEOREM PrintingSafe == CompilerSpec => []PrintSafe
<1>1. CompilerInit => Compiling
  BY InitCompiling
<1>2. Compiling /\ [CompilerNext]_compilervars => Compiling'
  BY StepCompiling
<1>3. Compiling => PrintSafe
  BY CompilingImplies
<1> QED BY <1>1, <1>2, <1>3, PTL DEF CompilerSpec

\* The code of each node the parser took is where it belongs and all of it fits,
\* however the parser or the generator ends.
THEOREM CodeOfParsedNodes == CompilerSpec => []CodeOfNodes
<1>1. CompilerInit => Compiling
  BY InitCompiling
<1>2. Compiling /\ [CompilerNext]_compilervars => Compiling'
  BY StepCompiling
<1>3. Compiling => CodeOfNodes
  BY CompilingImplies
<1> QED BY <1>1, <1>2, <1>3, PTL DEF CompilerSpec
=============================================================================
