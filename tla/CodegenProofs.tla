---------------------------- MODULE CodegenProofs ----------------------------
(***************************************************************************)
(* The code of a whole pool fits the bytecode array, whatever the sizes of *)
(* the pool and the array, as long as there are six words for each node.   *)
(* And each node of the pool has its code, where it belongs, for good.     *)
(***************************************************************************)
EXTENDS Codegen, FiniteSetTheorems, SequenceTheorems, TLAPS

\* No node visited so far has taken more than one variable slot, or more than
\* six words of the array.
Bounded ==
    /\ var_slots <= next - 1
    /\ Len(code) <= 6 * (next - 1)

IInv == PoolOK /\ GenTypeOK /\ Bounded /\ CodeFits

\* Why CodeFits holds: the bound at the end of the pool is the whole array.
LEMMA RoomForAll ==
    ASSUME CodegenAssumption, PoolOK, NEW k \in 0 .. Len(nodes)
    PROVE  6 * k <= CodeCap
<1>1. PoolCap \in Nat /\ CodeCap \in Nat /\ 6 * PoolCap <= CodeCap
  BY DEF CodegenAssumption
<1>2. Len(nodes) \in 0 .. PoolCap
  BY DEF PoolOK
<1>3. k \in Nat /\ k <= PoolCap
  BY <1>1, <1>2
<1> QED BY <1>1, <1>3

\* bytecode_emit_64 appends four words, whatever the number.
LEMMA FourWords ==
    ASSUME CodegenAssumption, NEW value \in Nat
    PROVE  Words(value) \in Seq(Nat) /\ Len(Words(value)) = 4
<1>1. Half \in Nat \ {0}
  BY DEF CodegenAssumption
<1>2. Half * Half \in Nat \ {0}
  BY <1>1
<1>3. Half * Half * Half \in Nat \ {0}
  BY <1>1, <1>2
<1>4. ASSUME NEW x \in Nat PROVE x % Half \in Nat
  BY <1>1
<1>5. ASSUME NEW d \in Nat \ {0} PROVE value \div d \in Nat
  OBVIOUS
<1>6. /\ (value \div (Half * Half * Half)) % Half \in Nat
      /\ (value \div (Half * Half)) % Half \in Nat
      /\ (value \div Half) % Half \in Nat
      /\ value % Half \in Nat
  BY <1>1, <1>2, <1>3, <1>4, <1>5
<1> QED BY <1>6 DEF Words

\* A step that appends at most six words for the node at hand, and takes a slot
\* or none, keeps the invariant.
LEMMA EmitKeeps ==
    ASSUME CodegenAssumption, IInv, Visiting,
           code' \in Seq(Nat), Len(code') <= Len(code) + 6,
           outcome' = IF Len(code') > CodeCap THEN "overflow" ELSE "on",
           next' = next + 1, nodes' = nodes,
           var_slots' = var_slots \/ var_slots' = var_slots + 1
    PROVE  IInv'
<1>1. /\ code \in Seq(Nat) /\ next \in 1 .. Len(nodes) + 1 /\ Len(nodes) \in Nat
      /\ var_slots \in Nat
      /\ var_slots <= next - 1
      /\ Len(code) <= 6 * (next - 1)
  BY DEF IInv, GenTypeOK, Bounded, PoolOK
<1>2. Len(code) \in Nat /\ Len(code') \in Nat
  BY <1>1
<1>3. next \in 1 .. Len(nodes)
  BY <1>1 DEF Visiting
<1>4. Len(code') <= 6 * next
  BY <1>1, <1>2, <1>3
<1>5. PoolOK'
  BY DEF IInv, PoolOK
<1>6. outcome' = "on"
  <2>1. 6 * next <= CodeCap
    BY <1>3, RoomForAll DEF IInv
  <2>2. CodeCap \in Nat
    BY DEF CodegenAssumption
  <2> QED BY <1>2, <1>3, <1>4, <2>1, <2>2
<1>7. GenTypeOK' /\ Bounded'
  BY <1>1, <1>2, <1>3, <1>4, <1>6 DEF GenTypeOK, Bounded
<1> QED BY <1>5, <1>6, <1>7 DEF IInv, CodeFits

\* Emit is such a step, for at most six words.
LEMMA EmitIsBounded ==
    ASSUME GenTypeOK, NEW words \in Seq(Nat), Len(words) <= 6, Emit(words)
    PROVE  /\ code' \in Seq(Nat)
           /\ Len(code') <= Len(code) + 6
           /\ outcome' = IF Len(code') > CodeCap THEN "overflow" ELSE "on"
           /\ next' = next + 1
           /\ nodes' = nodes
<1>1. code \in Seq(Nat) /\ code' = code \o words
  BY DEF GenTypeOK, Emit
<1>2. code' \in Seq(Nat) /\ Len(code') = Len(code) + Len(words)
  BY <1>1
<1>3. Len(code) \in Nat /\ Len(words) \in Nat
  BY <1>1
<1> QED BY <1>2, <1>3 DEF Emit

\* The generator starts within its bounds.
LEMMA InitBounded ==
    ASSUME CodegenAssumption, PoolOK, Init PROVE IInv
  BY DEF Init, IInv, PoolOK, GenTypeOK, Bounded, CodeFits

\* Every step stays within them.
LEMMA StepBounded ==
    ASSUME CodegenAssumption, IInv, [Next]_genvars PROVE IInv'
<1>0. GenTypeOK
  BY DEF IInv
<1>1. CASE VarDecl
  <2>1. IsNumber(node.kids[2])
    BY <1>1 DEF VarDecl, Verdict, IsNull
  <2>2. PICK value \in Nat : value = NumberOf(node.kids[2])
    BY <2>1 DEF IsNumber, NumberOf, CodegenAssumption
  <2>3. PICK number \in Seq(Nat) : number = Words(value) /\ Len(number) = 4
    BY FourWords
  <2>4. PICK slot \in Nat : slot = var_slots
    BY DEF IInv, GenTypeOK, PoolOK
  <2>5. PICK opcode \in Seq(Nat) : opcode = <<LOADK_INT, slot>> /\ Len(opcode) = 2
    <3>1. <<LOADK_INT, slot>> \in Seq(Nat) /\ Len(<<LOADK_INT, slot>>) = 2
      BY DEF LOADK_INT
    <3> QED BY <3>1
  <2>6. PICK words \in Seq(Nat) : words = opcode \o number /\ Len(words) <= 6
    <3>1. Len(opcode) = 2 /\ Len(number) = 4
      BY <2>3, <2>5
    <3>2. opcode \o number \in Seq(Nat) /\ Len(opcode \o number) = Len(opcode) + Len(number)
      OBVIOUS
    <3>3. opcode \o number \in Seq(Nat) /\ Len(opcode \o number) <= 6
      BY <3>1, <3>2
    <3> QED BY <3>3
  <2>7. Visiting /\ Emit(words) /\ var_slots' = var_slots + 1
    BY <1>1, <2>2, <2>3, <2>4, <2>5, <2>6 DEF VarDecl, Emit
  <2> QED BY <1>0, <2>6, <2>7, EmitIsBounded, EmitKeeps
<1>2. CASE BinaryOp
  <2>1. Visiting /\ Emit(<< >>) /\ var_slots' = var_slots + 1
    BY <1>2 DEF BinaryOp
  <2>2. << >> \in Seq(Nat) /\ Len(<< >>) <= 6
    OBVIOUS
  <2> QED BY <1>0, <2>1, <2>2, EmitIsBounded, EmitKeeps
<1>3. CASE FuncCall
  <2>1. PICK slot \in Garbage : Emit(<<CALL_OP, 0, Len(node.kids) - 1, slot>>)
    BY <1>3 DEF FuncCall
  <2>2. slot \in Nat
    BY DEF CodegenAssumption
  <2>3. next \in 1 .. Len(nodes) /\ nodes[next].kind = "FUNC_CALL"
    BY <1>3 DEF FuncCall, Visiting, IInv, GenTypeOK, PoolOK, node
  <2>4. Len(nodes[next].kids) \in Nat \ {0}
    BY <2>3 DEF IInv, PoolOK
  <2>5. PICK args \in Nat : args = Len(node.kids) - 1
    <3>1. Len(node.kids) - 1 \in Nat
      BY <2>4 DEF node
    <3> QED BY <3>1
  <2>6. PICK words \in Seq(Nat) : words = <<CALL_OP, 0, args, slot>> /\ Len(words) <= 6
    <3>1. <<CALL_OP, 0, args, slot>> \in Seq(Nat) /\ Len(<<CALL_OP, 0, args, slot>>) <= 6
      BY <2>2 DEF CALL_OP
    <3> QED BY <3>1
  <2>7. Visiting /\ Emit(words) /\ var_slots' = var_slots
    BY <1>3, <2>1, <2>5, <2>6 DEF FuncCall, Emit
  <2> QED BY <1>0, <2>6, <2>7, EmitIsBounded, EmitKeeps
<1>4. CASE OtherNode
  <2>1. Visiting /\ Emit(<< >>) /\ var_slots' = var_slots
    BY <1>4 DEF OtherNode
  <2>2. << >> \in Seq(Nat) /\ Len(<< >>) <= 6
    OBVIOUS
  <2> QED BY <1>0, <2>1, <2>2, EmitIsBounded, EmitKeeps
<1>5. ASSUME NEW how \in {"crash", "assert", "done"}, Stop(how) PROVE IInv'
  BY <1>5 DEF Stop, IInv, PoolOK, GenTypeOK, Bounded, CodeFits
<1>6. CASE Fail
  <2>1. Verdict(node) \in {"crash", "assert", "on"}
    BY DEF Verdict, BinaryVerdict
  <2> QED BY <1>5, <1>6, <2>1 DEF Fail
<1>7. CASE Return
  BY <1>5, <1>7 DEF Return
<1>8. CASE UNCHANGED genvars
  BY <1>8 DEF genvars, IInv, PoolOK, GenTypeOK, Bounded, CodeFits
<1> QED BY <1>1, <1>2, <1>3, <1>4, <1>6, <1>7, <1>8 DEF Next

\* bootstrap_codegen never writes past the bytecode array, although nothing in
\* it looks at the array's size: the pool it walks is small enough for that.
THEOREM CodeAlwaysFits ==
    ASSUME CodegenAssumption PROVE GenSpec => []CodeFits
<1>1. PoolOK /\ Init => IInv
  BY InitBounded
<1>2. IInv /\ [Next]_genvars => IInv'
  BY StepBounded
<1>3. IInv => CodeFits
  BY DEF IInv
<1> QED BY <1>1, <1>2, <1>3, PTL DEF GenSpec

\* The generator's state keeps its type: it visits the pool in order and takes at
\* most one slot for a node.
THEOREM GeneratorTypeCorrect ==
    ASSUME CodegenAssumption PROVE GenSpec => []GenTypeOK
<1>1. PoolOK /\ Init => IInv
  BY InitBounded
<1>2. IInv /\ [Next]_genvars => IInv'
  BY StepBounded
<1>3. IInv => GenTypeOK
  BY DEF IInv
<1> QED BY <1>1, <1>2, <1>3, PTL DEF GenSpec
-----------------------------------------------------------------------------
(* What a number is worth in code.                                         *)

\* Quotient and remainder are the only ones there are.
LEMMA QuotientIs ==
    ASSUME NEW q \in Nat, NEW d \in Nat \ {0}, NEW r \in Nat, r < d
    PROVE  (q * d + r) \div d = q
<1>1. PICK v \in Nat : v = q * d + r
  OBVIOUS
<1>2. PICK p \in Nat : p = v \div d
  OBVIOUS
<1>3. PICK s \in Nat : s = v % d
  OBVIOUS
<1>4. s < d /\ v = p * d + s
  BY <1>2, <1>3
<1>5. ASSUME p < q PROVE FALSE
  <2>1. PICK k \in Nat : q = p + 1 + k
    <3>1. q - p - 1 \in Nat /\ q = p + 1 + (q - p - 1)
      BY <1>5
    <3> QED BY <3>1
  <2>2. q * d = p * d + d + k * d
    BY <2>1
  <2>3. k * d >= 0
    OBVIOUS
  <2>4. q * d \in Nat /\ p * d \in Nat /\ k * d \in Nat
    OBVIOUS
  <2> QED BY <1>1, <1>4, <2>2, <2>3, <2>4
<1>6. ASSUME q < p PROVE FALSE
  <2>1. PICK k \in Nat : p = q + 1 + k
    <3>1. p - q - 1 \in Nat /\ p = q + 1 + (p - q - 1)
      BY <1>6
    <3> QED BY <3>1
  <2>2. p * d = q * d + d + k * d
    BY <2>1
  <2>3. k * d >= 0
    OBVIOUS
  <2>4. q * d \in Nat /\ p * d \in Nat /\ k * d \in Nat
    OBVIOUS
  <2> QED BY <1>1, <1>4, <2>2, <2>3, <2>4
<1> QED BY <1>1, <1>2, <1>5, <1>6

\* Quotient and remainder.
LEMMA Divided ==
    ASSUME NEW v \in Nat, NEW h \in Nat \ {0}
    PROVE  v \div h \in Nat /\ v % h \in Nat /\ v % h < h /\ v = (v \div h) * h + (v % h)
<1>1. v \div h \in Nat /\ v % h \in 0 .. h - 1 /\ v = h * (v \div h) + (v % h)
  OBVIOUS
<1>2. PICK q \in Nat : q = v \div h
  BY <1>1
<1>3. h * q = q * h
  OBVIOUS
<1> QED BY <1>1, <1>2, <1>3

\* Dividing twice is dividing once by the product.
LEMMA DividingTwice ==
    ASSUME NEW v \in Nat, NEW h \in Nat \ {0}, NEW e \in Nat \ {0}
    PROVE  v \div (e * h) = (v \div h) \div e
<1>1. PICK d \in Nat, g \in Nat : d = v \div h /\ g < h /\ v = d * h + g
  BY Divided
<1>2. PICK q \in Nat, f \in Nat : q = d \div e /\ f < e /\ d = q * e + f
  BY Divided
<1>3. PICK r \in Nat : r = f * h + g
  OBVIOUS
<1>4. v = q * (e * h) + r
  <2>1. d * h = (q * e) * h + f * h
    BY <1>2
  <2>2. (q * e) * h = q * (e * h)
    OBVIOUS
  <2>3. q * (e * h) \in Nat /\ f * h \in Nat
    OBVIOUS
  <2> QED BY <1>1, <1>3, <2>1, <2>2, <2>3
<1>5. r < e * h
  <2>1. PICK k \in Nat : e = f + 1 + k
    <3>1. e - f - 1 \in Nat /\ e = f + 1 + (e - f - 1)
      BY <1>2
    <3> QED BY <3>1
  <2>2. e * h = f * h + h + k * h
    BY <2>1
  <2>3. k * h >= 0 /\ f * h \in Nat /\ k * h \in Nat
    OBVIOUS
  <2> QED BY <1>1, <1>3, <2>2, <2>3
<1>6. e * h \in Nat \ {0}
  OBVIOUS
<1>7. (q * (e * h) + r) \div (e * h) = q
  BY <1>5, <1>6, QuotientIs
<1> QED BY <1>1, <1>2, <1>4, <1>7

\* bytecode_emit_64 loses nothing: the four words of a number below Half to the
\* power of four are its digits to that base.
LEMMA WordsAreWorth ==
    ASSUME CodegenAssumption, NEW v \in 0 .. (Half * Half * Half * Half) - 1
    PROVE  ((Words(v)[1] * Half + Words(v)[2]) * Half + Words(v)[3]) * Half + Words(v)[4] = v
<1>1. PICK h \in Nat \ {0} : h = Half
  BY DEF CodegenAssumption
<1>2. PICK a \in Nat : a = v \div h
  BY <1>1
<1>3. PICK b \in Nat : b = a \div h
  BY <1>1
<1>4. PICK c \in Nat : c = b \div h
  BY <1>1
<1>5. PICK x \in Nat, y \in Nat, z \in Nat :
          /\ x = v % h /\ y = a % h /\ z = b % h
          /\ v = a * h + x /\ a = b * h + y /\ b = c * h + z
  <2>1. v \in Nat
    BY <1>1
  <2>2. v % h \in Nat /\ v = a * h + (v % h)
    BY <1>2, <2>1, Divided
  <2>3. a % h \in Nat /\ a = b * h + (a % h)
    BY <1>3, Divided
  <2>4. b % h \in Nat /\ b = c * h + (b % h)
    BY <1>4, Divided
  <2> QED BY <2>2, <2>3, <2>4
<1>6. v \div (h * h) = b
  <2>1. v \in Nat
    BY <1>1
  <2>2. v \div (h * h) = (v \div h) \div h
    BY <2>1, DividingTwice
  <2> QED BY <1>2, <1>3, <2>2
<1>7. v \div (h * h * h) = c
  <2>1. h * h \in Nat \ {0}
    OBVIOUS
  <2>2. v \in Nat /\ h * h * h = (h * h) * h
    BY <1>1
  <2>3. v \div ((h * h) * h) = (v \div h) \div (h * h)
    BY <2>1, <2>2, DividingTwice
  <2>4. a \div (h * h) = (a \div h) \div h
    BY DividingTwice
  <2> QED BY <1>2, <1>3, <1>4, <2>2, <2>3, <2>4
<1>8. c < h
  <2>1. PICK cube \in Nat \ {0} : cube = h * h * h
    <3>1. h * h \in Nat \ {0}
      OBVIOUS
    <3>2. h * h * h \in Nat \ {0}
      BY <3>1
    <3> QED BY <3>2
  <2>2. v \in Nat /\ v < cube * h
    BY <1>1, <2>1
  <2>3. v \div cube = c
    BY <1>7, <2>1
  <2>4. PICK r \in Nat : v = c * cube + r
    BY <2>1, <2>2, <2>3, Divided
  <2>5. SUFFICES ASSUME h <= c PROVE FALSE
    OBVIOUS
  <2>6. PICK k \in Nat : c = h + k
    <3>1. c - h \in Nat /\ c = h + (c - h)
      BY <2>5
    <3> QED BY <3>1
  <2>7. c * cube = cube * h + k * cube
    BY <2>6
  <2>8. c * cube \in Nat /\ cube * h \in Nat /\ k * cube \in Nat
    OBVIOUS
  <2> QED BY <2>2, <2>4, <2>7, <2>8
<1>9. c % h = c
  BY <1>8
<1>10. Words(v) = <<c, z, y, x>>
  BY <1>1, <1>2, <1>3, <1>5, <1>6, <1>7, <1>9 DEF Words
<1>11. Words(v)[1] = c /\ Words(v)[2] = z /\ Words(v)[3] = y /\ Words(v)[4] = x
  BY <1>10
<1>12. ((c * h + z) * h + y) * h + x = v
  BY <1>5
<1> QED BY <1>1, <1>11, <1>12
-----------------------------------------------------------------------------
(* Where the code of a node stands.                                        *)

\* Counting goes up by one with each node of the kinds counted.
LEMMA HowManyMore ==
    ASSUME NEW n \in Nat, NEW kinds
    PROVE  /\ HowMany(n, kinds) \in Nat
           /\ HowMany(n + 1, kinds) =
                  IF nodes[n + 1].kind \in kinds THEN HowMany(n, kinds) + 1
                  ELSE HowMany(n, kinds)
<1> DEFINE Of(m) == {i \in 1 .. m : nodes[i].kind \in kinds}
<1>1. IsFiniteSet(Of(n))
  <2>1. IsFiniteSet(1 .. n)
    BY FS_Interval
  <2>2. Of(n) \subseteq 1 .. n
    OBVIOUS
  <2> QED BY <2>1, <2>2, FS_Subset
<1>2. Cardinality(Of(n)) \in Nat
  BY <1>1, FS_CardinalityType
<1>3. 1 .. n + 1 = (1 .. n) \cup {n + 1} /\ n + 1 \notin 1 .. n
  OBVIOUS
<1>4. CASE nodes[n + 1].kind \in kinds
  <2>1. Of(n + 1) = Of(n) \cup {n + 1} /\ n + 1 \notin Of(n)
    BY <1>3, <1>4
  <2>2. Cardinality(Of(n) \cup {n + 1}) = Cardinality(Of(n)) + 1
    BY <1>1, <2>1, FS_AddElement
  <2> QED BY <1>2, <1>4, <2>1, <2>2 DEF HowMany
<1>5. CASE nodes[n + 1].kind \notin kinds
  <2>1. Of(n + 1) = Of(n)
    BY <1>3, <1>5
  <2> QED BY <1>2, <1>5, <2>1 DEF HowMany
<1> QED BY <1>4, <1>5

LEMMA HowManyNone ==
    ASSUME NEW kinds PROVE HowMany(0, kinds) = 0
<1>1. {i \in 1 .. 0 : nodes[i].kind \in kinds} = {}
  OBVIOUS
<1> QED BY <1>1, FS_EmptySet DEF HowMany

\* How many words and slots a node takes.
LEMMA PlacesMore ==
    ASSUME NEW n \in Nat
    PROVE  /\ Offset(n) \in Nat /\ Slots(n) \in Nat
           /\ nodes[n + 1].kind = "VAR_DECL" =>
                 Offset(n + 1) = Offset(n) + 6 /\ Slots(n + 1) = Slots(n) + 1
           /\ nodes[n + 1].kind = "FUNC_CALL" =>
                 Offset(n + 1) = Offset(n) + 4 /\ Slots(n + 1) = Slots(n)
           /\ nodes[n + 1].kind = "BINARY_OP" =>
                 Offset(n + 1) = Offset(n) /\ Slots(n + 1) = Slots(n) + 1
           /\ nodes[n + 1].kind \notin {"VAR_DECL", "BINARY_OP", "FUNC_CALL"} =>
                 Offset(n + 1) = Offset(n) /\ Slots(n + 1) = Slots(n)
<1>0. n + 1 \in Nat
  OBVIOUS
<1>1. PICK d \in Nat, e \in Nat :
          /\ d = HowMany(n, {"VAR_DECL"}) /\ e = HowMany(n + 1, {"VAR_DECL"})
          /\ e = IF nodes[n + 1].kind \in {"VAR_DECL"} THEN d + 1 ELSE d
  BY <1>0, HowManyMore
<1>2. PICK c \in Nat, b \in Nat :
          /\ c = HowMany(n, {"FUNC_CALL"}) /\ b = HowMany(n + 1, {"FUNC_CALL"})
          /\ b = IF nodes[n + 1].kind \in {"FUNC_CALL"} THEN c + 1 ELSE c
  BY <1>0, HowManyMore
<1>3. PICK s \in Nat, t \in Nat :
          /\ s = HowMany(n, {"VAR_DECL", "BINARY_OP"})
          /\ t = HowMany(n + 1, {"VAR_DECL", "BINARY_OP"})
          /\ t = IF nodes[n + 1].kind \in {"VAR_DECL", "BINARY_OP"} THEN s + 1 ELSE s
  BY <1>0, HowManyMore
<1>4. Offset(n) = 6 * d + 4 * c /\ Offset(n + 1) = 6 * e + 4 * b
  BY <1>1, <1>2 DEF Offset
<1>5. Slots(n) = s /\ Slots(n + 1) = t
  BY <1>3 DEF Slots
<1>6. CASE nodes[n + 1].kind = "VAR_DECL"
  BY <1>1, <1>2, <1>3, <1>4, <1>5, <1>6
<1>7. CASE nodes[n + 1].kind = "FUNC_CALL"
  BY <1>1, <1>2, <1>3, <1>4, <1>5, <1>7
<1>8. CASE nodes[n + 1].kind = "BINARY_OP"
  BY <1>1, <1>2, <1>3, <1>4, <1>5, <1>8
<1>9. CASE nodes[n + 1].kind \notin {"VAR_DECL", "BINARY_OP", "FUNC_CALL"}
  BY <1>1, <1>2, <1>3, <1>4, <1>5, <1>9
<1> QED BY <1>6, <1>7, <1>8, <1>9

\* The code of a node that was visited ends within the code.
Behind == \A i \in 1 .. next - 1 : Offset(i) <= Len(code)

EachCoded == Len(code) = Offset(next - 1) /\ \A i \in 1 .. next - 1 : Coded(i)

\* What the generator has kept of the nodes it visited.
Kept == EachCoded /\ Behind /\ var_slots = Slots(next - 1)

\* What it appends for the node at hand.
NodeWords(words) ==
    /\ node.kind = "VAR_DECL" =>
          /\ words[1] = LOADK_INT
          /\ words[2] = var_slots
          /\ ((words[3] * Half + words[4]) * Half + words[5]) * Half + words[6]
                 = NumberOf(node.kids[2])
    /\ node.kind = "FUNC_CALL" =>
          /\ words[1] = CALL_OP
          /\ words[2] = 0
          /\ words[3] = Len(node.kids) - 1

\* The words and slots it takes for it.
Takes(words, slots) ==
    /\ Offset(next) = Offset(next - 1) + Len(words)
    /\ Slots(next) = Slots(next - 1) + slots

\* Code stays where it is when more is appended, and nodes where they are.
LEMMA CodedStays ==
    ASSUME GenTypeOK, NEW i \in Nat \ {0}, Coded(i), Offset(i) <= Len(code),
           NEW words \in Seq(Nat), code' = code \o words, nodes' = nodes
    PROVE  Coded(i)'
<1>1. code \in Seq(Nat) /\ Len(code) \in Nat
  BY DEF GenTypeOK
<1>2. \A k \in 1 .. Len(code) : code'[k] = code[k]
  BY <1>1
<1>3. Offset(i - 1)' = Offset(i - 1) /\ Slots(i - 1)' = Slots(i - 1)
  BY DEF Offset, Slots, HowMany
<1>4. PICK place \in Nat : place = Offset(i - 1)
  <2>1. i - 1 \in Nat
    OBVIOUS
  <2> QED BY <2>1, PlacesMore
<1>5. i - 1 \in Nat /\ i - 1 + 1 = i
  OBVIOUS
<1>6. CASE nodes[i].kind = "VAR_DECL"
  <2>1. place + 6 <= Len(code)
    BY <1>4, <1>5, <1>6, PlacesMore
  <2>2. place + 1 \in 1 .. Len(code) /\ place + 2 \in 1 .. Len(code)
    BY <1>1, <2>1
  <2>3. /\ (place + 2) + 1 \in 1 .. Len(code) /\ (place + 2) + 2 \in 1 .. Len(code)
        /\ (place + 2) + 3 \in 1 .. Len(code) /\ (place + 2) + 4 \in 1 .. Len(code)
    BY <1>1, <2>1
  <2>4. code'[place + 1] = code[place + 1] /\ code'[place + 2] = code[place + 2]
    BY <1>2, <2>2
  <2>5. /\ code'[(place + 2) + 1] = code[(place + 2) + 1]
        /\ code'[(place + 2) + 2] = code[(place + 2) + 2]
        /\ code'[(place + 2) + 3] = code[(place + 2) + 3]
        /\ code'[(place + 2) + 4] = code[(place + 2) + 4]
    BY <1>2, <2>3
  <2>6. NumberAt(place + 2)' = NumberAt(place + 2)
    BY <2>5 DEF NumberAt
  <2> QED BY <1>3, <1>4, <1>6, <2>4, <2>6 DEF Coded, LOADK_INT, NumberOf
<1>7. CASE nodes[i].kind = "FUNC_CALL"
  <2>1. place + 4 <= Len(code)
    BY <1>4, <1>5, <1>7, PlacesMore
  <2>2. /\ place + 1 \in 1 .. Len(code) /\ place + 2 \in 1 .. Len(code)
        /\ place + 3 \in 1 .. Len(code)
    BY <1>1, <2>1
  <2>3. /\ code'[place + 1] = code[place + 1] /\ code'[place + 2] = code[place + 2]
        /\ code'[place + 3] = code[place + 3]
    BY <1>2, <2>2
  <2> QED BY <1>3, <1>4, <1>7, <2>3 DEF Coded, CALL_OP
<1>8. CASE nodes[i].kind \notin {"VAR_DECL", "FUNC_CALL"}
  BY <1>8 DEF Coded
<1> QED BY <1>6, <1>7, <1>8

\* The same, seen from the next node.
LEMMA PlacesNext ==
    ASSUME next \in Nat \ {0}
    PROVE  /\ Offset(next - 1) \in Nat /\ Slots(next - 1) \in Nat
           /\ nodes[next].kind = "VAR_DECL" =>
                 Offset(next) = Offset(next - 1) + 6 /\ Slots(next) = Slots(next - 1) + 1
           /\ nodes[next].kind = "FUNC_CALL" =>
                 Offset(next) = Offset(next - 1) + 4 /\ Slots(next) = Slots(next - 1)
           /\ nodes[next].kind = "BINARY_OP" =>
                 Offset(next) = Offset(next - 1) /\ Slots(next) = Slots(next - 1) + 1
           /\ nodes[next].kind \notin {"VAR_DECL", "BINARY_OP", "FUNC_CALL"} =>
                 Offset(next) = Offset(next - 1) /\ Slots(next) = Slots(next - 1)
<1>1. PICK n \in Nat : n = next - 1 /\ n + 1 = next
  <2>1. next - 1 \in Nat /\ (next - 1) + 1 = next
    OBVIOUS
  <2> QED BY <2>1
<1>2. nodes[n + 1] = nodes[next] /\ Offset(n + 1) = Offset(next) /\ Slots(n + 1) = Slots(next)
  BY <1>1
<1>3. Offset(n) = Offset(next - 1) /\ Slots(n) = Slots(next - 1)
  BY <1>1
<1>4. PICK m \in Nat : m = n /\ nodes[m + 1] = nodes[next] /\ Offset(m + 1) = Offset(next)
                      /\ Slots(m + 1) = Slots(next)
  BY <1>2
<1> QED BY <1>3, <1>4, PlacesMore

\* A step that appends the code of the node at hand keeps what there is.
LEMMA EmitKept ==
    ASSUME CodegenAssumption, IInv, Kept, Visiting, NEW words \in Seq(Nat), NEW slots \in Nat,
           Emit(words), var_slots' = var_slots + slots, NodeWords(words), Takes(words, slots)
    PROVE  Kept'
<1>1. /\ next \in Nat \ {0} /\ next - 1 \in Nat /\ (next - 1) + 1 = next
      /\ code \in Seq(Nat) /\ Len(code) \in Nat /\ Len(words) \in Nat
  BY DEF IInv, GenTypeOK, PoolOK
<1>2. /\ nodes' = nodes /\ next' = next + 1 /\ code' = code \o words
      /\ next' - 1 = next
  BY <1>1 DEF Emit
<1>3. Len(code') = Len(code) + Len(words)
  BY <1>1, <1>2
<1>4. \A n : Offset(n)' = Offset(n) /\ Slots(n)' = Slots(n)
  BY <1>2 DEF Offset, Slots, HowMany
<1>5. Len(code) = Offset(next - 1) /\ var_slots = Slots(next - 1)
  BY DEF Kept, EachCoded
<1>6. Offset(next) = Len(code') /\ Slots(next) = var_slots'
  BY <1>3, <1>5 DEF Takes
<1>7. PICK at \in Nat \ {0} : at = next
  BY <1>1
<1>8. ASSUME NEW i \in 1 .. at PROVE Offset(i) <= Len(code')
  <2>1. CASE i = at
    BY <1>1, <1>3, <1>6, <1>7, <2>1
  <2>2. CASE i # at
    <3>1. i \in 1 .. next - 1
      BY <1>1, <1>7, <2>2
    <3>2. Offset(i) <= Len(code)
      BY <3>1 DEF Kept, Behind
    <3>3. Offset(i) \in Nat
      <4>1. i \in Nat
        OBVIOUS
      <4> QED BY <4>1, PlacesMore
    <3> QED BY <1>1, <1>3, <3>2, <3>3
  <2> QED BY <2>1, <2>2
<1>9. Coded(at)'
  <2>1. PICK place \in Nat :
            place = Offset(at - 1) /\ place = Offset(next - 1) /\ place = Len(code)
    BY <1>1, <1>5, <1>7
  <2>2. PICK slot : slot = var_slots
    OBVIOUS
  <2>3. Offset(at - 1)' = place /\ Slots(at - 1)' = slot
    <3>1. Offset(at - 1)' = Offset(at - 1) /\ Slots(at - 1)' = Slots(at - 1)
      BY <1>4
    <3>2. Slots(at - 1) = slot
      BY <1>5, <1>7, <2>2
    <3> QED BY <2>1, <3>1, <3>2
  <2>4. ASSUME NEW k \in 1 .. Len(words) PROVE code'[place + k] = words[k]
    <3>1. PICK c \in Seq(Nat) : c = code
      BY <1>1
    <3>2. /\ Len(c \o words) = Len(c) + Len(words)
          /\ \A j \in 1 .. Len(c) + Len(words) :
                (c \o words)[j] = IF j <= Len(c) THEN c[j] ELSE words[j - Len(c)]
      BY ConcatProperties
    <3>3. code' = c \o words /\ Len(c) = place
      BY <1>2, <2>1, <3>1
    <3>4. /\ place + k \in 1 .. place + Len(words)
          /\ ~(place + k <= place) /\ (place + k) - place = k
      BY <1>1
    <3> QED BY <3>2, <3>3, <3>4
  <2>5. nodes'[at] = nodes[next] /\ node = nodes[next]
    BY <1>2, <1>7 DEF node
  <2>6. CASE nodes[next].kind = "VAR_DECL"
    <3>1. Len(words) = 6
      <4>1. Offset(next) = Offset(next - 1) + 6
        BY <1>1, <2>6, PlacesMore
      <4>2. Offset(next) = Offset(next - 1) + Len(words)
        BY DEF Takes
      <4>3. PICK l \in Nat : l = Len(words)
        BY <1>1
      <4>4. place + 6 = place + l
        BY <2>1, <4>1, <4>2, <4>3
      <4>5. l = 6
        BY <4>4
      <4> QED BY <4>3, <4>5
    <3>2. code'[place + 1] = words[1] /\ code'[place + 2] = words[2]
      BY <2>4, <3>1
    <3>3. /\ (place + 2) + 1 = place + 3 /\ (place + 2) + 2 = place + 4
          /\ (place + 2) + 3 = place + 5 /\ (place + 2) + 4 = place + 6
      OBVIOUS
    <3>4. code'[place + 3] = words[3] /\ code'[place + 4] = words[4]
      BY <2>4, <3>1
    <3>5. code'[place + 5] = words[5] /\ code'[place + 6] = words[6]
      BY <2>4, <3>1
    <3>6. NumberAt(place + 2)' =
              ((words[3] * Half + words[4]) * Half + words[5]) * Half + words[6]
      <4>1. NumberAt(place + 2)' =
                ((code'[(place + 2) + 1] * Half + code'[(place + 2) + 2]) * Half
                    + code'[(place + 2) + 3]) * Half + code'[(place + 2) + 4]
        BY DEF NumberAt
      <4> QED BY <3>3, <3>4, <3>5, <4>1
    <3>7. /\ words[1] = LOADK_INT /\ words[2] = slot
          /\ NumberAt(place + 2)' = NumberOf(nodes[next].kids[2])
      BY <2>2, <2>5, <2>6, <3>6 DEF NodeWords
    <3>8. NumberOf(nodes[at].kids[2])' = NumberOf(nodes[next].kids[2])
      BY <1>2, <2>5 DEF NumberOf
    <3> QED BY <2>3, <2>5, <2>6, <3>2, <3>7, <3>8 DEF Coded, LOADK_INT
  <2>7. CASE nodes[next].kind = "FUNC_CALL"
    <3>1. Len(words) = 4
      <4>1. Offset(next) = Offset(next - 1) + 4
        BY <1>1, <2>7, PlacesMore
      <4>2. Offset(next) = Offset(next - 1) + Len(words)
        BY DEF Takes
      <4>3. PICK l \in Nat : l = Len(words)
        BY <1>1
      <4>4. place + 4 = place + l
        BY <2>1, <4>1, <4>2, <4>3
      <4>5. l = 4
        BY <4>4
      <4> QED BY <4>3, <4>5
    <3>2. code'[place + 1] = words[1] /\ code'[place + 2] = words[2]
      BY <2>4, <3>1
    <3>3. code'[place + 3] = words[3]
      BY <2>4, <3>1
    <3>4. words[1] = CALL_OP /\ words[2] = 0 /\ words[3] = Len(nodes[next].kids) - 1
      BY <2>5, <2>7 DEF NodeWords
    <3> QED BY <2>3, <2>5, <2>7, <3>2, <3>3, <3>4 DEF Coded, CALL_OP
  <2>8. CASE nodes[next].kind \notin {"VAR_DECL", "FUNC_CALL"}
    BY <2>5, <2>8 DEF Coded
  <2> QED BY <2>6, <2>7, <2>8
<1>10. ASSUME NEW i \in 1 .. at PROVE Coded(i)'
  <2>1. CASE i # at
    <3>1. i \in 1 .. next - 1 /\ i \in Nat \ {0}
      BY <1>1, <1>7, <2>1
    <3>2. Coded(i) /\ Offset(i) <= Len(code)
      BY <3>1 DEF Kept, EachCoded, Behind
    <3>3. GenTypeOK /\ code' = code \o words /\ nodes' = nodes
      BY <1>2 DEF IInv
    <3> QED BY <3>1, <3>2, <3>3, CodedStays
  <2> QED BY <1>9, <2>1
<1>11. next' - 1 = at
  BY <1>2, <1>7
<1>12. EachCoded'
  BY <1>4, <1>6, <1>7, <1>10, <1>11 DEF EachCoded
<1>13. Behind'
  BY <1>4, <1>8, <1>11 DEF Behind
<1> QED BY <1>4, <1>6, <1>7, <1>11, <1>12, <1>13 DEF Kept

LEMMA InitKept ==
    ASSUME PoolOK, Init PROVE Kept
<1>1. next - 1 = 0 /\ Len(code) = 0 /\ var_slots = 0 /\ 1 .. 0 = {}
  BY DEF Init
<1>2. Offset(0) = 0 /\ Slots(0) = 0
  BY HowManyNone DEF Offset, Slots
<1> QED BY <1>1, <1>2 DEF Kept, EachCoded, Behind

\* Every step keeps what was emitted, and emits what the node means.
LEMMA StepKept ==
    ASSUME CodegenAssumption, IInv, Kept, [Next]_genvars PROVE Kept'
<1>0. next \in Nat \ {0} /\ next - 1 \in Nat /\ (next - 1) + 1 = next /\ var_slots \in Nat
  BY DEF IInv, GenTypeOK, PoolOK
<1>1. CASE VarDecl
  <2>1. IsNumber(node.kids[2])
    BY <1>1 DEF VarDecl, Verdict, IsNull
  <2>2. PICK value \in 0 .. (Half * Half * Half * Half) - 1 : value = NumberOf(node.kids[2])
    BY <2>1 DEF IsNumber, NumberOf, CodegenAssumption
  <2>3. value \in Nat
    OBVIOUS
  <2>4. PICK number \in Seq(Nat) : number = Words(value) /\ Len(number) = 4
    BY <2>3, FourWords
  <2>5. ((number[1] * Half + number[2]) * Half + number[3]) * Half + number[4] = value
    BY <2>4, WordsAreWorth
  <2>6. PICK slot \in Nat : slot = var_slots
    BY <1>0
  <2>7. PICK opcode \in Seq(Nat) : opcode = <<LOADK_INT, slot>> /\ Len(opcode) = 2
    <3>1. <<LOADK_INT, slot>> \in Seq(Nat) /\ Len(<<LOADK_INT, slot>>) = 2
      BY DEF LOADK_INT
    <3> QED BY <3>1
  <2>8. PICK words \in Seq(Nat) :
            /\ words = opcode \o number /\ Len(words) = 6
            /\ words[1] = opcode[1] /\ words[2] = opcode[2]
            /\ words[3] = number[1] /\ words[4] = number[2]
            /\ words[5] = number[3] /\ words[6] = number[4]
    <3>1. Len(opcode) = 2 /\ Len(number) = 4
      BY <2>4, <2>7
    <3>2. /\ opcode \o number \in Seq(Nat)
          /\ Len(opcode \o number) = Len(opcode) + Len(number)
          /\ \A k \in 1 .. Len(opcode) + Len(number) :
                (opcode \o number)[k] =
                    IF k <= Len(opcode) THEN opcode[k] ELSE number[k - Len(opcode)]
      BY ConcatProperties
    <3>3. PICK words \in Seq(Nat) : words = opcode \o number /\ Len(words) = 6
      <4>1. opcode \o number \in Seq(Nat) /\ Len(opcode \o number) = 6
        BY <3>1, <3>2
      <4> QED BY <4>1
    <3>4. ASSUME NEW k \in 1 .. 2 PROVE words[k] = opcode[k]
      <4>1. k \in 1 .. 6 /\ k <= 2
        OBVIOUS
      <4> QED BY <3>1, <3>2, <3>3, <4>1
    <3>5. ASSUME NEW k \in 1 .. 4 PROVE words[2 + k] = number[k]
      <4>1. 2 + k \in 1 .. 6 /\ ~(2 + k <= 2) /\ (2 + k) - 2 = k
        OBVIOUS
      <4> QED BY <3>1, <3>2, <3>3, <4>1
    <3>6. words[1] = opcode[1] /\ words[2] = opcode[2]
      BY <3>4
    <3>7. words[2 + 1] = number[1] /\ words[2 + 2] = number[2]
      BY <3>5
    <3>8. words[2 + 3] = number[3] /\ words[2 + 4] = number[4]
      BY <3>5
    <3>9. /\ words[3] = number[1] /\ words[4] = number[2]
          /\ words[5] = number[3] /\ words[6] = number[4]
      <4>1. 2 + 1 = 3 /\ 2 + 2 = 4 /\ 2 + 3 = 5 /\ 2 + 4 = 6
        OBVIOUS
      <4> QED BY <3>7, <3>8, <4>1
    <3> QED BY <3>3, <3>6, <3>9
  <2>9. opcode[1] = LOADK_INT /\ opcode[2] = slot
    BY <2>7
  <2>10. Visiting /\ Emit(words) /\ var_slots' = var_slots + 1 /\ nodes[next].kind = "VAR_DECL"
    BY <1>1, <2>2, <2>4, <2>6, <2>7, <2>8 DEF VarDecl, Emit, node
  <2>11. NodeWords(words)
    BY <2>2, <2>5, <2>6, <2>8, <2>9, <2>10 DEF NodeWords, node
  <2>12. Takes(words, 1)
    BY <1>0, <2>8, <2>10, PlacesNext DEF Takes
  <2> QED BY <2>10, <2>11, <2>12, EmitKept
<1>2. CASE BinaryOp
  <2>0. Visiting /\ Emit(<< >>) /\ var_slots' = var_slots + 1 /\ node.kind = "BINARY_OP"
    BY <1>2 DEF BinaryOp
  <2>1. nodes[next].kind = "BINARY_OP"
    BY <2>0 DEF node
  <2>2. PICK words \in Seq(Nat) : words = << >> /\ Len(words) = 0
    <3>1. << >> \in Seq(Nat) /\ Len(<< >>) = 0
      OBVIOUS
    <3> QED BY <3>1
  <2>3. NodeWords(words)
    BY <2>0 DEF NodeWords
  <2>4. Takes(words, 1)
    BY <1>0, <2>1, <2>2, PlacesNext DEF Takes
  <2> QED BY <2>0, <2>2, <2>3, <2>4, EmitKept
<1>3. CASE FuncCall
  <2>1. PICK slot \in Garbage : Emit(<<CALL_OP, 0, Len(node.kids) - 1, slot>>)
    BY <1>3 DEF FuncCall
  <2>2. slot \in Nat
    BY DEF CodegenAssumption
  <2>3. next \in 1 .. Len(nodes) /\ nodes[next].kind = "FUNC_CALL" /\ Visiting
    BY <1>3 DEF FuncCall, Visiting, IInv, GenTypeOK, PoolOK, node
  <2>4. Len(nodes[next].kids) \in Nat \ {0}
    BY <2>3 DEF IInv, PoolOK
  <2>5. PICK args \in Nat : args = Len(node.kids) - 1
    <3>1. Len(node.kids) - 1 \in Nat
      BY <2>4 DEF node
    <3> QED BY <3>1
  <2>6. PICK words \in Seq(Nat) :
            /\ words = <<CALL_OP, 0, args, slot>> /\ Len(words) = 4
            /\ words[1] = CALL_OP /\ words[2] = 0 /\ words[3] = args
    <3>1. <<CALL_OP, 0, args, slot>> \in Seq(Nat) /\ Len(<<CALL_OP, 0, args, slot>>) = 4
      BY <2>2 DEF CALL_OP
    <3> QED BY <3>1
  <2>7. Emit(words)
    BY <2>1, <2>5, <2>6
  <2>8. var_slots' = var_slots + 0
    BY <1>0, <1>3 DEF FuncCall
  <2>9. NodeWords(words)
    <3>1. node.kind = "FUNC_CALL"
      BY <1>3 DEF FuncCall
    <3> QED BY <2>5, <2>6, <3>1 DEF NodeWords
  <2>10. Takes(words, 0)
    BY <1>0, <2>3, <2>6, PlacesNext DEF Takes
  <2> QED BY <2>3, <2>7, <2>8, <2>9, <2>10, EmitKept
<1>4. CASE OtherNode
  <2>0. /\ Visiting /\ Emit(<< >>) /\ var_slots' = var_slots
        /\ node.kind \notin {"VAR_DECL", "BINARY_OP", "FUNC_CALL"}
    BY <1>4 DEF OtherNode
  <2>1. nodes[next].kind \notin {"VAR_DECL", "BINARY_OP", "FUNC_CALL"}
    BY <2>0 DEF node
  <2>2. PICK words \in Seq(Nat) : words = << >> /\ Len(words) = 0
    <3>1. << >> \in Seq(Nat) /\ Len(<< >>) = 0
      OBVIOUS
    <3> QED BY <3>1
  <2>3. NodeWords(words)
    BY <2>0 DEF NodeWords
  <2>4. Takes(words, 0)
    BY <1>0, <2>1, <2>2, PlacesNext DEF Takes
  <2>5. var_slots' = var_slots + 0
    BY <1>0, <2>0
  <2> QED BY <2>0, <2>2, <2>3, <2>4, <2>5, EmitKept
<1>5. ASSUME UNCHANGED <<nodes, next, code, var_slots>> PROVE Kept'
  <2>1. \A n : Offset(n)' = Offset(n) /\ Slots(n)' = Slots(n)
    BY <1>5 DEF Offset, Slots, HowMany
  <2>2. \A n : Coded(n)' <=> Coded(n)
    BY <1>5, <2>1 DEF Coded, NumberAt, NumberOf, LOADK_INT, CALL_OP
  <2>3. EachCoded'
    BY <1>5, <2>1, <2>2 DEF Kept, EachCoded
  <2>4. Behind' /\ (var_slots = Slots(next - 1))'
    BY <1>5, <2>1 DEF Kept, Behind
  <2> QED BY <2>3, <2>4 DEF Kept
<1>6. CASE Fail
  BY <1>5, <1>6 DEF Fail, Stop
<1>7. CASE Return
  BY <1>5, <1>7 DEF Return, Stop
<1>8. CASE UNCHANGED genvars
  BY <1>5, <1>8 DEF genvars
<1> QED BY <1>1, <1>2, <1>3, <1>4, <1>6, <1>7, <1>8 DEF Next

\* Whatever the pool: each node visited has its own code, in its own place, which
\* a reader of the code finds by counting nodes; a declaration's number is there
\* with all its bits. What is emitted later, and a failed assertion, leave it so.
THEOREM CodeIsOfItsNodes ==
    ASSUME CodegenAssumption PROVE GenSpec => []CodeOfNodes
<1>1. PoolOK /\ Init => IInv /\ Kept
  BY InitBounded, InitKept
<1>2. IInv /\ Kept /\ [Next]_genvars => IInv' /\ Kept'
  BY StepBounded, StepKept
<1>3. IInv /\ Kept => CodeOfNodes
  BY DEF IInv, Kept, EachCoded, CodeOfNodes
<1> QED BY <1>1, <1>2, <1>3, PTL DEF GenSpec
=============================================================================
