--------------------------- MODULE GrowArrayProofs ---------------------------
(***************************************************************************)
(* For every arena, every number of elements and every nesting: the arrays *)
(* under construction keep to their blocks. The invariant is about the     *)
(* stack of arrays: whose block is where, and how far behind a block's end *)
(* the top of the arena can be, since realloc_array_ takes an array to be  *)
(* the last one when the top is where the next element would end.          *)
(***************************************************************************)
EXTENDS GrowArray, SequenceTheorems, TLAPS

Tuples == {"targets", "values"}

ArrayRec == [kind : Kinds, base : Nat, count : Nat, awaiting : BOOLEAN, cap : Nat,
             elems : Seq(1 .. MaxStored)]

\* The words of an array's block.
Words(a) == Width(a.kind) * a.cap

\* The elements stored, or about to be stored, as the next store counts them.
Reach(a) == a.count + (IF a.awaiting /\ a.kind \in {"list", "values"} THEN 1 ELSE 0)

\* count is what was stored (collect_lhs_tuple counts the target to come), a null
\* array has no elements, or one to come that will crash; any other has a block
\* below the top, right below it if no expression is parsed for its elements.
\* Lists of tuples leave their blocks by little.
Fits(a, used, n) ==
    /\ Len(a.elems) <= n
    /\ a.count = Len(a.elems) + (IF a.kind = "targets" /\ a.awaiting THEN 1 ELSE 0)
    /\ a.kind = "targets" => a.base # NULL /\ Len(a.elems) >= 1
    /\ a.kind = "values" /\ a.base = NULL => used = Capacity /\ ~a.awaiting
    /\ a.base = NULL => a.cap = 0 /\ (a.count = 0 \/ (a.kind = "list" /\ a.awaiting))
    /\ a.base # NULL => a.cap \in 1 .. 2 * (MaxStored + 1) /\ a.base + Words(a) <= 1 + used
    /\ a.kind = "params" /\ a.base # NULL =>
          a.base + Words(a) = 1 + used /\ a.count <= a.cap
    /\ a.kind \in Tuples /\ a.base # NULL =>
          \/ Reach(a) <= a.cap + 1
          \/ Reach(a) = a.cap + 2 /\ used = Capacity /\ a.base + a.cap = used

\* Without tuple assignments no array leaves its block.
Room(a) == "tuple" \notin Constructs =>
              a.kind \notin Tuples /\ (a.base # NULL => Reach(a) <= a.cap)

\* The top is one word behind a block's end: a list of targets was begun and not
\* yet finished there, or the arena is full.
OneBehind(a, used) == a.base # NULL /\ a.kind # "params" /\ a.base + a.cap = used

Excused(s, i, used) ==
    "tuple" \in Constructs /\ (used = Capacity \/ \E j \in i + 1 .. Len(s) : s[j].kind = "targets")

Stacked(s, used, n) ==
    /\ s \in Seq(ArrayRec)
    /\ \A i \in 1 .. Len(s) : Fits(s[i], used, n) /\ Room(s[i])
    /\ \A i \in 1 .. Len(s) : s[i].kind = "params" => i = Len(s)
    /\ \A i, j \in 1 .. Len(s) : i < j /\ s[i].base # NULL /\ s[j].base # NULL
                                    => s[i].base + Words(s[i]) <= s[j].base

StackOK(s, used, n) ==
    /\ Stacked(s, used, n)
    /\ \A i \in 1 .. Len(s) : OneBehind(s[i], used) => Excused(s, i, used)
-----------------------------------------------------------------------------
LEMMA Bounds ==
    /\ Capacity \in Nat \ {0} /\ ParamWords \in Nat \ {0} /\ FuncDataWords \in Nat \ {0, 1}
    /\ MaxStored \in Nat /\ MaxDepth \in Nat /\ WordMod \in Nat \ {0}
BY GrowAssumption, WordAssumption

LEMMA TimesMonotone ==
    ASSUME NEW k \in Nat, NEW x \in Nat, NEW y \in Nat, x <= y
    PROVE  k * x \in Nat /\ k * x <= k * y
<1>1. PICK d \in Nat : y = x + d
  <2>1. y - x \in Nat /\ y = x + (y - x)
    OBVIOUS
  <2> QED BY <2>1
<1>2. k * y = k * x + k * d /\ k * d \in Nat /\ k * x \in Nat
  BY <1>1
<1> QED BY <1>2

LEMMA TimesCancel ==
    ASSUME NEW k \in Nat \ {0}, NEW x \in Nat, NEW y \in Nat, k * x = k * y
    PROVE  x = y
<1>1. ASSUME NEW v \in Nat, NEW z \in Nat, v < z PROVE k * v < k * z
  <2>1. k * (v + 1) <= k * z
    BY <1>1, TimesMonotone
  <2>2. k * (v + 1) = k * v + k /\ k * v \in Nat
    OBVIOUS
  <2>3. k * z \in Nat
    OBVIOUS
  <2> QED BY <2>1, <2>2, <2>3
<1>2. k * x \in Nat /\ k * y \in Nat
  OBVIOUS
<1>3. ~(x < y)
  BY <1>1, <1>2
<1>4. ~(y < x)
  BY <1>1, <1>2
<1> QED BY <1>3, <1>4

LEMMA WordsIs ==
    ASSUME NEW a \in ArrayRec
    PROVE  /\ Words(a) \in Nat
           /\ a.kind # "params" => Words(a) = a.cap
           /\ a.kind = "params" => Words(a) = ParamWords * a.cap
           /\ a.cap >= 1 => Words(a) >= 1
<1>1. a.cap \in Nat
  BY DEF ArrayRec
<1>2. CASE a.kind # "params"
  BY <1>1, <1>2 DEF Words, Width
<1>3. CASE a.kind = "params"
  <2>1. Words(a) = ParamWords * a.cap
    BY <1>3 DEF Words, Width
  <2>2. ParamWords * a.cap \in Nat
    BY <1>1, Bounds
  <2>3. a.cap >= 1 => ParamWords * 1 <= ParamWords * a.cap
    BY <1>1, Bounds, TimesMonotone
  <2>4. ParamWords * 1 >= 1
    BY Bounds
  <2>5. ParamWords * 1 \in Nat
    BY Bounds
  <2> QED BY <1>3, <2>1, <2>2, <2>3, <2>4, <2>5
<1> QED BY <1>2, <1>3

\* What was said of an array stays true when others are allocated behind it.
LEMMA FitsLater ==
    ASSUME NEW a \in ArrayRec, NEW used \in 0 .. Capacity, NEW u \in used .. Capacity,
           NEW n \in Nat, NEW m \in Nat, n <= m, Fits(a, used, n),
           a.kind = "params" => u = used
    PROVE  Fits(a, u, m)
<1>1. /\ Words(a) \in Nat /\ a.base \in Nat /\ Len(a.elems) \in Nat
      /\ used \in Nat /\ u \in Nat /\ used <= u /\ u <= Capacity /\ Capacity \in Nat
  BY WordsIs, Bounds, LenProperties DEF ArrayRec
<1>2. used = Capacity => u = used
  BY <1>1
<1>3. CASE u = used
  <2>1. Len(a.elems) <= m
    BY <1>1 DEF Fits
  <2>2. Fits(a, used, m)
    BY <2>1 DEF Fits
  <2> QED BY <2>2, <1>3
<1>4. CASE u # used
  <2>1. a.kind # "params" /\ used # Capacity /\ used < u
    BY <1>1, <1>2, <1>4
  <2>2. a.base + Words(a) <= 1 + used => a.base + Words(a) <= 1 + u
    BY <1>1, <2>1
  <2>3. Len(a.elems) <= n => Len(a.elems) <= m
    BY <1>1
  <2> QED BY <2>1, <2>2, <2>3 DEF Fits
<1> QED BY <1>3, <1>4
-----------------------------------------------------------------------------
LEMMA FrontIs ==
    ASSUME NEW s \in Seq(ArrayRec), s # << >>
    PROVE  /\ Len(s) \in Nat /\ Len(s) >= 1
           /\ SubSeq(s, 1, Len(s) - 1) \in Seq(ArrayRec)
           /\ Len(SubSeq(s, 1, Len(s) - 1)) = Len(s) - 1
           /\ \A i \in 1 .. Len(s) - 1 : SubSeq(s, 1, Len(s) - 1)[i] = s[i]
<1>1. Len(s) \in Nat /\ Len(s) # 0
  BY EmptySeq, LenProperties
<1>2. \A i \in 1 .. Len(s) - 1 : s[i] \in ArrayRec
  BY <1>1, ElementOfSeq
<1>3. /\ SubSeq(s, 1, Len(s) - 1) \in Seq(ArrayRec)
      /\ Len(SubSeq(s, 1, Len(s) - 1)) = IF 1 <= Len(s) - 1 THEN (Len(s) - 1) - 1 + 1 ELSE 0
      /\ \A i \in 1 .. (Len(s) - 1) - 1 + 1 : SubSeq(s, 1, Len(s) - 1)[i] = s[1 + i - 1]
  BY <1>1, <1>2, SubSeqProperties
<1>4. Len(SubSeq(s, 1, Len(s) - 1)) = Len(s) - 1
  <2>1. PICK l \in Nat : l = Len(s) - 1
    BY <1>1
  <2>2. Len(SubSeq(s, 1, l)) = IF 1 <= l THEN l - 1 + 1 ELSE 0
    BY <1>3, <2>1
  <2>3. (IF 1 <= l THEN l - 1 + 1 ELSE 0) = l
    OBVIOUS
  <2> QED BY <2>1, <2>2, <2>3
<1>5. ASSUME NEW i \in 1 .. Len(s) - 1 PROVE SubSeq(s, 1, Len(s) - 1)[i] = s[i]
  <2>1. i \in 1 .. (Len(s) - 1) - 1 + 1 /\ 1 + i - 1 = i
    BY <1>1
  <2> QED BY <2>1, <1>3
<1> QED BY <1>1, <1>3, <1>4, <1>5

\* Where a block ends there is no array of an inner block, if the top is there.
LEMMA BlockIs ==
    ASSUME NEW s, NEW used \in 0 .. Capacity, NEW n \in Nat, Stacked(s, used, n),
           NEW i \in 1 .. Len(s)
    PROVE  /\ s[i] \in ArrayRec /\ Fits(s[i], used, n) /\ Room(s[i])
           /\ s[i].base \in Nat /\ s[i].cap \in Nat /\ Words(s[i]) \in Nat
           /\ s[i].base # NULL => s[i].base + Words(s[i]) <= 1 + used
           /\ s[i].kind # "params" => Words(s[i]) = s[i].cap
<1>1. s[i] \in ArrayRec
  BY ElementOfSeq DEF Stacked
<1>2. Fits(s[i], used, n) /\ Room(s[i])
  BY DEF Stacked
<1>3. s[i].base # NULL => s[i].base + Words(s[i]) <= 1 + used
  BY <1>2 DEF Fits
<1> QED BY <1>1, <1>2, <1>3, WordsIs DEF ArrayRec

\* The innermost array is left: the one it was parsed for is the innermost again.
LEMMA PopKeeps ==
    ASSUME NEW s, NEW used \in 0 .. Capacity, NEW n \in Nat, StackOK(s, used, n),
           s # << >>
    PROVE  /\ Stacked(SubSeq(s, 1, Len(s) - 1), used, n)
           /\ s[Len(s)].kind # "targets" => StackOK(SubSeq(s, 1, Len(s) - 1), used, n)
<1>1. s \in Seq(ArrayRec) /\ Len(s) \in Nat /\ Len(s) >= 1 /\ Stacked(s, used, n)
  BY FrontIs DEF StackOK, Stacked
<1>2. PICK t : t = SubSeq(s, 1, Len(s) - 1)
  OBVIOUS
<1>3. /\ t \in Seq(ArrayRec) /\ Len(t) = Len(s) - 1
      /\ \A i \in 1 .. Len(t) : i \in 1 .. Len(s) /\ t[i] = s[i] /\ i # Len(s)
  BY <1>1, <1>2, FrontIs
<1>4. \A i \in 1 .. Len(t) : Fits(t[i], used, n) /\ Room(t[i]) /\ t[i].kind # "params"
  BY <1>1, <1>3 DEF Stacked
<1>5. \A i, j \in 1 .. Len(t) : i < j /\ t[i].base # NULL /\ t[j].base # NULL
                                  => t[i].base + Words(t[i]) <= t[j].base
  BY <1>1, <1>3 DEF Stacked
<1>6. ASSUME NEW i \in 1 .. Len(t), OneBehind(t[i], used), s[Len(s)].kind # "targets"
      PROVE  Excused(t, i, used)
  <2>1. Excused(s, i, used)
    BY <1>3, <1>6 DEF StackOK
  <2>2. ASSUME NEW j \in i + 1 .. Len(s), s[j].kind = "targets"
        PROVE  j \in i + 1 .. Len(t) /\ t[j].kind = "targets"
    <3>1. j # Len(s)
      BY <1>6, <2>2
    <3>2. j \in i + 1 .. Len(t)
      <4>1. i \in Nat /\ j \in Nat /\ i + 1 <= j /\ j <= Len(s) /\ Len(t) = Len(s) - 1
        BY <1>1, <1>3
      <4> QED BY <1>1, <3>1, <4>1
    <3>3. j \in 1 .. Len(t) /\ t[j] = s[j]
      <4>1. j \in 1 .. Len(t)
        BY <1>1, <1>3, <3>2
      <4> QED BY <1>3, <4>1
    <3> QED BY <2>2, <3>2, <3>3
  <2> QED BY <2>1, <2>2 DEF Excused
<1>7. Stacked(t, used, n)
  BY <1>3, <1>4, <1>5 DEF Stacked
<1> QED BY <1>2, <1>6, <1>7 DEF StackOK

\* An array begins, or one is put in the place of another, with its block behind
\* all others. What is allocated with it is nothing, more than a word, or a word
\* behind another block of a list, or the block of a list of targets.
LEMMA PushKeeps ==
    ASSUME NEW s, NEW used \in 0 .. Capacity, NEW n \in Nat, Stacked(s, used, n),
           NEW u \in used .. Capacity, NEW m \in Nat, n <= m,
           NEW x \in ArrayRec, Fits(x, u, m), Room(x),
           \A i \in 1 .. Len(s) : s[i].kind # "params",
           x.base # NULL => \A i \in 1 .. Len(s) :
                               s[i].base # NULL => s[i].base + Words(s[i]) <= x.base,
           OneBehind(x, u) => u = Capacity /\ "tuple" \in Constructs,
           \A i \in 1 .. Len(s) : OneBehind(s[i], u) =>
               "tuple" \in Constructs /\
               (u = Capacity \/ x.kind = "targets" \/ \E j \in i + 1 .. Len(s) : s[j].kind = "targets")
    PROVE  StackOK(Append(s, x), u, m)
<1>1. s \in Seq(ArrayRec) /\ Len(s) \in Nat
  BY LenProperties DEF Stacked
<1>2. PICK t : t = Append(s, x)
  OBVIOUS
<1>3. /\ t \in Seq(ArrayRec) /\ Len(t) = Len(s) + 1 /\ t[Len(s) + 1] = x
      /\ \A i \in 1 .. Len(s) : t[i] = s[i]
  BY <1>1, <1>2, AppendProperties
<1>4. \A i \in 1 .. Len(t) : i \in 1 .. Len(s) \/ i = Len(s) + 1
  BY <1>1, <1>3
<1>5. ASSUME NEW i \in 1 .. Len(s) PROVE Fits(s[i], u, m) /\ Room(s[i])
  <2>1. s[i] \in ArrayRec /\ Fits(s[i], used, n) /\ Room(s[i])
    BY <1>1, BlockIs
  <2> QED BY <2>1, FitsLater
<1>6. \A i \in 1 .. Len(t) : Fits(t[i], u, m) /\ Room(t[i])
  BY <1>3, <1>4, <1>5
<1>7. \A i \in 1 .. Len(t) : t[i].kind = "params" => i = Len(t)
  BY <1>3, <1>4
<1>8. ASSUME NEW i \in 1 .. Len(t), NEW j \in 1 .. Len(t), i < j, t[i].base # NULL, t[j].base # NULL
      PROVE  t[i].base + Words(t[i]) <= t[j].base
  <2>1. i \in 1 .. Len(s)
    BY <1>1, <1>3, <1>8
  <2>2. CASE j \in 1 .. Len(s)
    BY <1>3, <1>8, <2>1, <2>2 DEF Stacked
  <2>3. CASE j = Len(s) + 1
    BY <1>3, <1>8, <2>1, <2>3
  <2> QED BY <1>4, <2>2, <2>3
<1>9. ASSUME NEW i \in 1 .. Len(t), OneBehind(t[i], u) PROVE Excused(t, i, u)
  <2>1. CASE i = Len(s) + 1
    BY <1>3, <1>9, <2>1 DEF Excused
  <2>2. CASE i \in 1 .. Len(s)
    <3>1. OneBehind(s[i], u)
      BY <1>3, <1>9, <2>2
    <3>2. CASE u = Capacity
      BY <3>1, <3>2, <2>2 DEF Excused
    <3>3. CASE x.kind = "targets"
      <4>1. Len(s) + 1 \in i + 1 .. Len(t) /\ t[Len(s) + 1].kind = "targets"
        BY <1>1, <1>3, <2>2, <3>3
      <4> QED BY <2>2, <3>1, <4>1 DEF Excused
    <3>4. ASSUME NEW j \in i + 1 .. Len(s), s[j].kind = "targets"
          PROVE  Excused(t, i, u)
      <4>1. j \in i + 1 .. Len(t) /\ t[j].kind = "targets"
        BY <1>1, <1>3, <2>2, <3>4
      <4> QED BY <2>2, <3>1, <4>1 DEF Excused
    <3> QED BY <2>2, <3>1, <3>2, <3>3, <3>4
  <2> QED BY <1>4, <2>1, <2>2
<1>10. Stacked(t, u, m)
  BY <1>3, <1>6, <1>7, <1>8 DEF Stacked
<1> QED BY <1>2, <1>9, <1>10 DEF StackOK

\* The top is one word behind the innermost array only if the arena is full.
LEMMA InnerBehind ==
    ASSUME NEW s, NEW used \in 0 .. Capacity, NEW n \in Nat, StackOK(s, used, n),
           s # << >>, OneBehind(s[Len(s)], used)
    PROVE  used = Capacity /\ "tuple" \in Constructs
<1>1. Len(s) \in 1 .. Len(s) /\ Len(s) \in Nat
  BY FrontIs DEF StackOK, Stacked
<1>2. Excused(s, Len(s), used)
  BY <1>1 DEF StackOK
<1> QED BY <1>1, <1>2 DEF Excused

\* The innermost array is put in the place of itself: where it was, or behind all.
LEMMA ReplaceKeeps ==
    ASSUME NEW s, NEW used \in 0 .. Capacity, NEW n \in Nat, StackOK(s, used, n), s # << >>,
           NEW u \in used .. Capacity, NEW m \in Nat, n <= m,
           NEW x \in ArrayRec, Fits(x, u, m), Room(x),
           x.base # NULL => x.base = s[Len(s)].base \/ x.base = 1 + used,
           OneBehind(x, u) => u = Capacity /\ "tuple" \in Constructs,
           \/ u = used /\ (s[Len(s)].kind = "targets" => x.kind = "targets" \/ u = Capacity)
           \/ u >= used + 2
           \/ u > used /\ s[Len(s)].base # NULL
    PROVE  StackOK(Append(SubSeq(s, 1, Len(s) - 1), x), u, m)
<1>1. /\ s \in Seq(ArrayRec) /\ Len(s) \in Nat /\ Len(s) >= 1 /\ Len(s) \in 1 .. Len(s)
      /\ Stacked(s, used, n)
  BY FrontIs DEF StackOK, Stacked
<1>2. used \in Nat /\ u \in Nat /\ used <= u
  BY Bounds
<1>3. PICK t : t = SubSeq(s, 1, Len(s) - 1)
  OBVIOUS
<1>4. /\ Stacked(t, used, n) /\ Len(t) = Len(s) - 1
      /\ \A i \in 1 .. Len(t) : i \in 1 .. Len(s) /\ t[i] = s[i] /\ i < Len(s)
  <2>1. Stacked(t, used, n)
    BY <1>3, PopKeeps
  <2>2. /\ Len(t) = Len(s) - 1
        /\ \A i \in 1 .. Len(s) - 1 : t[i] = s[i]
    BY <1>1, <1>3, FrontIs
  <2>3. \A i \in 1 .. Len(t) : i \in 1 .. Len(s) /\ i < Len(s) /\ i \in 1 .. Len(s) - 1
    BY <1>1, <2>2
  <2> QED BY <2>1, <2>2, <2>3
<1>5. \A i \in 1 .. Len(t) : t[i].kind # "params"
  <2> SUFFICES ASSUME NEW i \in 1 .. Len(t), t[i].kind = "params" PROVE FALSE
    OBVIOUS
  <2>1. i \in 1 .. Len(s) /\ s[i].kind = "params" /\ i < Len(s)
    BY <1>4
  <2>2. i = Len(s)
    BY <1>1, <2>1 DEF Stacked
  <2> QED BY <1>1, <2>1, <2>2
<1>6. ASSUME NEW i \in 1 .. Len(t), t[i].base # NULL
      PROVE  /\ t[i].base \in Nat /\ Words(t[i]) \in Nat /\ t[i].cap \in Nat
             /\ Words(t[i]) = t[i].cap
             /\ t[i].base + Words(t[i]) <= 1 + used
             /\ s[Len(s)].base # NULL => t[i].base + Words(t[i]) <= s[Len(s)].base
  <2>1. i \in 1 .. Len(s) /\ t[i] = s[i] /\ i < Len(s)
    BY <1>4
  <2>2. s[Len(s)].base # NULL => s[i].base + Words(s[i]) <= s[Len(s)].base
    BY <1>1, <1>6, <2>1 DEF Stacked
  <2>3. /\ s[i].base \in Nat /\ s[i].cap \in Nat /\ Words(s[i]) \in Nat
        /\ s[i].base # NULL => s[i].base + Words(s[i]) <= 1 + used
        /\ s[i].kind # "params" => Words(s[i]) = s[i].cap
    BY <1>1, <2>1, BlockIs
  <2>4. t[i].kind # "params"
    BY <1>5
  <2> QED BY <1>6, <2>1, <2>2, <2>3, <2>4
<1>7. ASSUME x.base # NULL, NEW i \in 1 .. Len(t), t[i].base # NULL
      PROVE  t[i].base + Words(t[i]) <= x.base
  <2>1. x.base = s[Len(s)].base \/ x.base = 1 + used
    BY <1>7
  <2> QED BY <1>6, <1>7, <2>1
<1>8. ASSUME NEW i \in 1 .. Len(t), OneBehind(t[i], u)
      PROVE  "tuple" \in Constructs /\
             (u = Capacity \/ x.kind = "targets" \/ \E j \in i + 1 .. Len(t) : t[j].kind = "targets")
  <2>0. t[i].base # NULL /\ t[i].base + t[i].cap = u
    BY <1>8 DEF OneBehind
  <2>1. CASE u = used /\ (s[Len(s)].kind = "targets" => x.kind = "targets" \/ u = Capacity)
    <3>1. Excused(s, i, used)
      BY <1>4, <1>8, <2>1 DEF StackOK
    <3>2. ASSUME NEW j \in i + 1 .. Len(s), s[j].kind = "targets", j # Len(s)
          PROVE  j \in i + 1 .. Len(t) /\ t[j].kind = "targets"
      <4>1. i \in Nat /\ j \in Nat /\ i + 1 <= j /\ j <= Len(s)
        BY <1>1
      <4>2. j \in i + 1 .. Len(t) /\ j \in 1 .. Len(t)
        <5>1. Len(t) = Len(s) - 1 /\ Len(t) \in Nat
          BY <1>1, <1>4
        <5>2. j <= Len(t) /\ 1 <= j
          BY <1>1, <3>2, <4>1, <5>1
        <5> QED BY <4>1, <5>1, <5>2
      <4> QED BY <1>4, <3>2, <4>2
    <3> QED BY <2>1, <3>1, <3>2 DEF Excused
  <2>2. CASE u >= used + 2
    BY <1>2, <1>6, <2>0, <2>2
  <2>3. CASE u > used /\ s[Len(s)].base # NULL
    <3>1. /\ s[Len(s)] \in ArrayRec /\ Fits(s[Len(s)], used, n)
          /\ s[Len(s)].base \in Nat /\ s[Len(s)].cap \in Nat
          /\ s[Len(s)].base + Words(s[Len(s)]) <= 1 + used
      BY <1>1, <2>3, BlockIs
    <3>2. s[Len(s)].cap >= 1
      BY <2>3, <3>1 DEF Fits
    <3>3. Words(s[Len(s)]) \in Nat /\ Words(s[Len(s)]) >= 1
      BY <3>1, <3>2, WordsIs
    <3>4. t[i].base + t[i].cap <= s[Len(s)].base
      BY <1>6, <2>0, <2>3
    <3>5. used \in Nat /\ u \in Nat /\ t[i].base \in Nat /\ t[i].cap \in Nat
      BY <1>2, <1>6, <2>0
    <3>6. s[Len(s)].base \in Nat /\ s[Len(s)].base <= used
      <4>1. /\ s[Len(s)].base \in Nat /\ Words(s[Len(s)]) \in Nat /\ Words(s[Len(s)]) >= 1
            /\ s[Len(s)].base + Words(s[Len(s)]) <= 1 + used
        BY <3>1, <3>3
      <4> QED BY <3>5, <4>1
    <3>7. t[i].base + t[i].cap <= used
      BY <3>4, <3>5, <3>6
    <3> QED BY <2>0, <2>3, <3>5, <3>7
  <2> QED BY <2>1, <2>2, <2>3
<1> QED BY <1>3, <1>4, <1>5, <1>7, <1>8, PushKeeps

\* Any array but a list of tuples begins without a block.
LEMMA NewArray ==
    ASSUME NEW kind \in Kinds \ Tuples, NEW used \in 0 .. Capacity, NEW n \in Nat
    PROVE  /\ Array(kind) \in ArrayRec /\ Fits(Array(kind), used, n) /\ Room(Array(kind))
           /\ Array(kind).base = NULL /\ ~OneBehind(Array(kind), used)
<1>1. /\ Array(kind) \in ArrayRec /\ Array(kind).kind = kind /\ Array(kind).base = NULL
      /\ Array(kind).cap = 0 /\ Array(kind).count = 0 /\ Array(kind).elems = << >>
  BY EmptySeq DEF Array, ArrayRec, NULL, Kinds
<1>2. Len(Array(kind).elems) = 0
  BY <1>1
<1>3. kind # "targets" /\ kind # "values"
  BY DEF Tuples
<1>4. PICK a : a = Array(kind)
  OBVIOUS
<1>5. Fits(a, used, n)
  <2>1. /\ a.kind # "targets" /\ a.kind # "values" /\ a.base = NULL /\ a.cap = 0
        /\ a.count = 0 /\ Len(a.elems) = 0
    BY <1>1, <1>2, <1>3, <1>4
  <2>2. (IF a.kind = "targets" /\ a.awaiting THEN 1 ELSE 0) = 0
    BY <2>1
  <2> QED BY <2>1, <2>2 DEF Fits
<1>6. Room(a)
  <2>1. a.kind \notin Tuples /\ ~(a.base # NULL)
    BY <1>1, <1>4
  <2> QED BY <2>1 DEF Room
<1>7. ~OneBehind(a, used)
  BY <1>1, <1>4 DEF OneBehind
<1> QED BY <1>1, <1>4, <1>5, <1>6, <1>7

\* The array that an expression is parsed for awaits it.
LEMMA AwaitKeeps ==
    ASSUME NEW s, NEW used \in 0 .. Capacity, NEW n \in Nat, StackOK(s, used, n), s # << >>,
           s[Len(s)].kind = "stmts" \/ s[Len(s)].awaiting
    PROVE  StackOK(Append(SubSeq(s, 1, Len(s) - 1), [s[Len(s)] EXCEPT !.awaiting = TRUE]), used, n)
<1>1. Len(s) \in 1 .. Len(s) /\ Stacked(s, used, n)
  BY FrontIs DEF StackOK, Stacked
<1>2. PICK a : a = s[Len(s)]
  OBVIOUS
<1>3. a \in ArrayRec /\ Fits(a, used, n) /\ Room(a)
  BY <1>1, <1>2, BlockIs
<1>4. PICK x : x = [a EXCEPT !.awaiting = TRUE]
  OBVIOUS
<1>5. /\ x \in ArrayRec /\ x.kind = a.kind /\ x.base = a.base /\ x.count = a.count
      /\ x.cap = a.cap /\ x.elems = a.elems /\ x.awaiting = TRUE
  BY <1>3, <1>4 DEF ArrayRec
<1>6. Words(x) = Words(a)
  BY <1>5 DEF Words
<1>7. Reach(x) = Reach(a)
  BY <1>2, <1>5 DEF Reach
<1>8. Fits(x, used, n)
  BY <1>2, <1>3, <1>5, <1>6, <1>7 DEF Fits
<1>9. Room(x)
  BY <1>3, <1>5, <1>7 DEF Room
<1>10. OneBehind(x, used) => used = Capacity /\ "tuple" \in Constructs
  BY <1>2, <1>5, InnerBehind DEF OneBehind
<1>11. used \in used .. Capacity /\ n <= n
  BY Bounds
<1> QED BY <1>2, <1>4, <1>5, <1>8, <1>9, <1>10, <1>11, ReplaceKeeps
-----------------------------------------------------------------------------
Arenas == [base : {1}, size : {Capacity}, used : 0 .. Capacity]

LEMMA WrapSmall ==
    ASSUME NEW x \in Nat, x < WordMod
    PROVE  Wrap(x) = x
BY Bounds DEF Wrap

\* Words need no padding: a block begins at the top, or there is no room for it.
LEMMA AllocIs ==
    ASSUME NEW ar \in Arenas, NEW size \in Nat \ {0}, NEW count \in Nat \ {0},
           NEW r, r = [size |-> size, align |-> 1, count |-> count],
           size * count + Capacity + 1 < WordMod
    PROVE  /\ ar.used + size * count <= Capacity =>
                 AllocPtr(ar, r) = 1 + ar.used
                 /\ AllocArena(ar, r) = [ar EXCEPT !.used = ar.used + size * count]
           /\ ar.used + size * count > Capacity => AllocPtr(ar, r) = NULL /\ AllocArena(ar, r) = ar
<1>1. /\ ar.base = 1 /\ ar.size = Capacity /\ ar.used \in Nat /\ ar.used <= Capacity
      /\ Capacity \in Nat /\ WordMod \in Nat
  BY Bounds DEF Arenas
<1>2. PICK len \in Nat : len = size * count
  OBVIOUS
<1>3. len + Capacity + 1 < WordMod
  BY <1>2
<1>4. r.size = size /\ r.align = 1 /\ r.count = count
  OBVIOUS
<1>5. BlockStart(ar, r) = 1 + ar.used
  <2>1. Wrap(1 + ar.used) = 1 + ar.used
    BY <1>1, <1>3, WrapSmall
  <2>2. Wrap(1 + ar.used + 1 - 1) = 1 + ar.used
    <3>1. 1 + ar.used + 1 - 1 = 1 + ar.used
      BY <1>1
    <3> QED BY <2>1, <3>1
  <2>3. BlockStart(ar, r) = (Wrap(1 + ar.used + 1 - 1) \div 1) * 1
    BY <1>1, <1>4, <2>1 DEF BlockStart, AlignUp
  <2>4. \A x \in Nat : (x \div 1) * 1 = x
    OBVIOUS
  <2> QED BY <1>1, <2>2, <2>3, <2>4
<1>6. BlockLen(r) = len
  BY <1>1, <1>2, <1>3, <1>4, WrapSmall DEF BlockLen
<1>7. NewUsed(ar, r) = ar.used + len
  <2>1. NewUsed(ar, r) = Wrap((1 + ar.used - 1) + len)
    BY <1>1, <1>5, <1>6 DEF NewUsed
  <2>2. (1 + ar.used - 1) + len = ar.used + len /\ ar.used + len \in Nat /\ ar.used + len < WordMod
    BY <1>1, <1>3
  <2> QED BY <2>1, <2>2, WrapSmall
<1>8. ~BadRequest(ar, r)
  BY <1>1, <1>4 DEF BadRequest, NULL
<1>9. Refuses(ar, r) <=> ar.used + len > Capacity
  BY <1>1, <1>7, <1>8 DEF Refuses
<1> QED BY <1>1, <1>2, <1>5, <1>7, <1>9 DEF AllocPtr, AllocArena

LEMMA AllocOneIs ==
    ASSUME NEW ar \in Arenas, NEW size \in Nat \ {0}, size + Capacity + 1 < WordMod
    PROVE  \E r : /\ r = [size |-> size, align |-> 1, count |-> 1]
                  /\ ar.used + size <= Capacity =>
                        AllocPtr(ar, r) = 1 + ar.used
                        /\ AllocArena(ar, r) = [ar EXCEPT !.used = ar.used + size]
                  /\ ar.used + size > Capacity => AllocPtr(ar, r) = NULL /\ AllocArena(ar, r) = ar
<1>1. PICK k \in Nat \ {0} : k = 1
  OBVIOUS
<1>2. size * k = size
  BY <1>1
<1>3. size * k + Capacity + 1 < WordMod
  BY <1>2
<1>4. PICK r : r = [size |-> size, align |-> 1, count |-> k]
  OBVIOUS
<1>5. /\ ar.used + size * k <= Capacity =>
            AllocPtr(ar, r) = 1 + ar.used
            /\ AllocArena(ar, r) = [ar EXCEPT !.used = ar.used + size * k]
      /\ ar.used + size * k > Capacity => AllocPtr(ar, r) = NULL /\ AllocArena(ar, r) = ar
  BY <1>3, <1>4, AllocIs
<1> QED BY <1>1, <1>2, <1>4, <1>5

Widths == {1, ParamWords}

LEMMA WidthIs == ASSUME NEW kind PROVE Width(kind) \in Widths /\ Width(kind) \in Nat \ {0}
BY Bounds DEF Width, Widths

LEMMA NextCapacityIs ==
    ASSUME NEW c \in 0 .. MaxStored + 1
    PROVE  /\ NextCapacity(c) \in 1 .. 2 * (MaxStored + 1) /\ NextCapacity(c) \in Nat \ {0}
           /\ c # 0 => NextCapacity(c) = 2 * c
           /\ c = 0 => NextCapacity(c) = 1
<1>1. c \in Nat /\ c <= MaxStored + 1 /\ MaxStored \in Nat
  BY Bounds
<1>2. CASE c = 0
  BY <1>1, <1>2 DEF NextCapacity
<1>3. CASE c # 0
  <2>1. NextCapacity(c) = c * 2
    BY <1>3 DEF NextCapacity
  <2> QED BY <1>1, <1>3, <2>1
<1> QED BY <1>2, <1>3

\* What an array asks for never comes near the word size.
LEMMA DemandIs ==
    ASSUME NEW w \in Widths, NEW k \in 1 .. 2 * (MaxStored + 1)
    PROVE  w * k \in Nat /\ w * k >= k /\ w * k + Capacity + 1 < WordMod
<1>1. /\ w \in Nat \ {0} /\ k \in Nat \ {0} /\ 2 * (MaxStored + 1) \in Nat
      /\ ParamWords \in Nat \ {0} /\ FuncDataWords \in Nat /\ Capacity \in Nat /\ WordMod \in Nat
  BY Bounds DEF Widths
<1>2. k * w \in Nat /\ k * 1 <= k * w /\ k * 1 = k /\ w * k = k * w
  <2>1. k * 1 <= k * w
    BY <1>1, TimesMonotone
  <2> QED BY <1>1, <2>1
<1>3. k * w <= k * ParamWords
  <2>1. w <= ParamWords
    BY <1>1 DEF Widths
  <2> QED BY <1>1, <2>1, TimesMonotone
<1>4. ParamWords * k <= ParamWords * (2 * (MaxStored + 1))
  <2>1. k <= 2 * (MaxStored + 1)
    BY <1>1
  <2>2. PICK h \in Nat : h = 2 * (MaxStored + 1)
    BY <1>1
  <2> QED BY <1>1, <2>1, <2>2, TimesMonotone
<1>5. PICK p \in Nat : p = ParamWords * k
  BY <1>1
<1>6. PICK q \in Nat : q = ParamWords * (2 * (MaxStored + 1))
  <2>1. PICK h \in Nat : h = 2 * (MaxStored + 1)
    BY <1>1
  <2> QED BY <1>1, <2>1
<1>7. Capacity + FuncDataWords + q + 1 < WordMod
  BY <1>6, GrowAssumption
<1>8. PICK v \in Nat : v = w * k
  BY <1>2
<1>9. v <= p /\ p <= q
  <2>1. k * ParamWords = ParamWords * k
    BY <1>1
  <2> QED BY <1>2, <1>3, <1>4, <1>5, <1>6, <1>8, <2>1
<1>10. v + Capacity + 1 < WordMod
  BY <1>1, <1>7, <1>9
<1> QED BY <1>2, <1>8, <1>10

LEMMA GrowthIs ==
    ASSUME NEW ar \in Arenas, NEW b \in Nat, NEW w \in Widths, NEW c \in 0 .. MaxStored + 1,
           NEW len \in Nat, len = w * NextCapacity(c)
    PROVE  /\ AtTop(ar, b, w, c) <=> b # NULL /\ b + w * c = 1 + ar.used
           /\ AtTop(ar, b, w, c) =>
                 ReallocPtr(ar, b, w, 1, c) = b /\ ReallocArena(ar, b, w, 1, c) = ar
           /\ ~AtTop(ar, b, w, c) /\ ar.used + len <= Capacity =>
                 /\ ReallocPtr(ar, b, w, 1, c) = 1 + ar.used
                 /\ ReallocArena(ar, b, w, 1, c) = [ar EXCEPT !.used = ar.used + len]
           /\ ~AtTop(ar, b, w, c) /\ ar.used + len > Capacity =>
                 ReallocPtr(ar, b, w, 1, c) = NULL /\ ReallocArena(ar, b, w, 1, c) = ar
<1>1. AtTop(ar, b, w, c) <=> b # NULL /\ b + w * c = 1 + ar.used
  BY DEF AtTop, ArrayEnd, Arenas
<1>2. PICK k \in 1 .. 2 * (MaxStored + 1) : k = NextCapacity(c)
  BY NextCapacityIs
<1>3. w \in Nat \ {0} /\ k \in Nat \ {0} /\ w * k + Capacity + 1 < WordMod /\ len = w * k
  <2>1. w * k + Capacity + 1 < WordMod
    BY <1>2, DemandIs
  <2>2. w \in Nat \ {0} /\ k \in Nat \ {0}
    BY Bounds DEF Widths
  <2> QED BY <1>2, <2>1, <2>2
<1>4. PICK r : r = [size |-> w, align |-> 1, count |-> k]
  OBVIOUS
<1>5. MoveRequest(w, 1, c) = r
  BY <1>2, <1>4 DEF MoveRequest
<1>6. /\ ar.used + w * k <= Capacity =>
            AllocPtr(ar, r) = 1 + ar.used
            /\ AllocArena(ar, r) = [ar EXCEPT !.used = ar.used + w * k]
      /\ ar.used + w * k > Capacity => AllocPtr(ar, r) = NULL /\ AllocArena(ar, r) = ar
  BY <1>3, <1>4, AllocIs
<1> QED BY <1>1, <1>3, <1>5, <1>6 DEF ReallocPtr, ReallocArena
-----------------------------------------------------------------------------
Vals == 0 .. MaxStored \cup {Scrambled}

Mems == [1 .. Capacity + 2 -> Vals]

LEMMA FillIs ==
    ASSUME NEW m \in Mems, NEW at \in Nat, NEW w \in Nat, NEW v \in Vals
    PROVE  /\ Fill(m, at, w, v) \in Mems
           /\ \A c \in 1 .. Capacity + 2 :
                 Fill(m, at, w, v)[c] = IF c \in at .. at + w - 1 THEN v ELSE m[c]
BY DEF Fill, Mems

\* An array is copied upwards, into a block with room for twice as much: what lies
\* in it is a copy, or, when the two overlap, zero if all words behind the array are.
LEMMA CopyIs ==
    ASSUME NEW m \in Mems, NEW dest \in Nat \ {0}, NEW src \in Nat \ {0}, NEW n \in Nat,
           src <= dest, n = 0 \/ dest + 2 * n <= Capacity + 1
    PROVE  /\ MemCpy(m, dest, src, n) \in Mems
           /\ \A c \in 1 .. Capacity + 2 :
                 c \notin dest .. dest + n - 1 => MemCpy(m, dest, src, n)[c] = m[c]
           /\ \A c \in dest .. dest + n - 1 : src + n <= dest =>
                 MemCpy(m, dest, src, n)[c] = m[src + (c - dest)]
           /\ \A c \in dest .. dest + n - 1 :
                 src < dest /\ dest < src + n /\ (\A x \in src + n .. Capacity + 2 : m[x] = 0)
                    => MemCpy(m, dest, src, n)[c] = 0
<1>1. PICK t : t = MemCpy(m, dest, src, n)
  OBVIOUS
<1>2. Capacity \in Nat /\ DOMAIN m = 1 .. Capacity + 2
  BY Bounds DEF Mems
<1>3. t = [c \in 1 .. Capacity + 2 |->
              IF c \notin dest .. dest + n - 1 THEN m[c]
              ELSE IF Overlaps(dest, src, n)
                   THEN BackwardStep(m, dest, src, n, (dest + n - 1) - c)
                   ELSE m[src + (c - dest)]]
  BY <1>1, <1>2 DEF MemCpy, NULL
<1>4. \A x \in 1 .. Capacity + 2 : m[x] \in Vals
  BY DEF Mems
<1>5. ASSUME NEW c \in dest .. dest + n - 1
      PROVE  /\ c \in 1 .. Capacity + 2 /\ src + (c - dest) \in 1 .. Capacity + 2
             /\ n \in Nat \ {0} /\ dest + 2 * n <= Capacity + 1
  BY <1>2
<1>6. ASSUME NEW c \in dest .. dest + n - 1, Overlaps(dest, src, n)
      PROVE  \E x \in src + n .. Capacity + 2 :
                t[c] = Scramble(m[x]) /\ x \in 1 .. Capacity + 2
  <2>1. PICK k \in Int : k = (dest + n - 1) - c
    OBVIOUS
  <2>2. k \in 0 .. n - 1
    BY <2>1
  <2>3. PICK j \in Int : j = (dest - src) - 1 - k
    BY <2>1
  <2>4. t[c] = Scramble(IF j >= 0 /\ j < k THEN m[src + n + j] ELSE m[src + n + k])
    BY <1>3, <1>5, <1>6, <2>1, <2>3 DEF BackwardStep
  <2>5. CASE j >= 0 /\ j < k
    <3>1. src + n + j \in src + n .. Capacity + 2 /\ src + n + j \in 1 .. Capacity + 2
      BY <1>2, <1>5, <2>2, <2>5
    <3>2. t[c] = Scramble(m[src + n + j])
      BY <2>4, <2>5
    <3> QED BY <3>1, <3>2
  <2>6. CASE ~(j >= 0 /\ j < k)
    <3>1. src + n + k \in src + n .. Capacity + 2 /\ src + n + k \in 1 .. Capacity + 2
      BY <1>2, <1>5, <2>2
    <3>2. t[c] = Scramble(m[src + n + k])
      BY <2>4, <2>6
    <3> QED BY <3>1, <3>2
  <2> QED BY <2>5, <2>6
<1>7. ASSUME NEW c \in dest .. dest + n - 1, ~Overlaps(dest, src, n)
      PROVE  t[c] = m[src + (c - dest)]
  BY <1>3, <1>5, <1>7
<1>8. \A v \in Vals : Scramble(v) \in Vals
  BY Bounds DEF Vals, Scramble, Scrambled
<1>9. ASSUME NEW c \in 1 .. Capacity + 2 PROVE t[c] \in Vals
  <2>1. CASE c \notin dest .. dest + n - 1
    BY <1>3, <1>4, <2>1
  <2>2. CASE c \in dest .. dest + n - 1 /\ Overlaps(dest, src, n)
    BY <1>4, <1>6, <1>8, <2>2
  <2>3. CASE c \in dest .. dest + n - 1 /\ ~Overlaps(dest, src, n)
    BY <1>4, <1>5, <1>7, <2>3
  <2> QED BY <2>1, <2>2, <2>3
<1>10. t \in Mems
  BY <1>3, <1>9 DEF Mems
<1>11. \A c \in 1 .. Capacity + 2 : c \notin dest .. dest + n - 1 => t[c] = m[c]
  BY <1>3
<1>12. src + n <= dest => ~Overlaps(dest, src, n)
  BY DEF Overlaps
<1>13. src < dest /\ dest < src + n => Overlaps(dest, src, n)
  BY DEF Overlaps
<1>14. ASSUME NEW c \in dest .. dest + n - 1, src < dest, dest < src + n,
              \A x \in src + n .. Capacity + 2 : m[x] = 0
       PROVE  t[c] = 0
  <2>1. PICK x \in src + n .. Capacity + 2 : t[c] = Scramble(m[x])
    BY <1>6, <1>13, <1>14
  <2>2. m[x] = 0
    BY <1>14
  <2> QED BY <2>1, <2>2 DEF Scramble
<1> QED BY <1>1, <1>7, <1>10, <1>11, <1>12, <1>14
-----------------------------------------------------------------------------
\* Realloc, of any arena and memory, and what may come of it.
Grown(ar, m, a, count) ==
    LET w   == Width(a.kind)
        ptr == ReallocPtr(ar, a.base, w, 1, count)
    IN  [array |-> [a EXCEPT !.base = ptr,
                             !.cap = IF AtTop(ar, a.base, w, count) THEN @
                                     ELSE IF ptr = NULL THEN 0 ELSE NextCapacity(count)],
         mem   |-> IF AtTop(ar, a.base, w, count) THEN m
                   ELSE MemCpy(m, ptr, a.base, w * count),
         arena |-> ReallocArena(ar, a.base, w, 1, count)]

EndsAt(a, count, used) == a.base # NULL /\ a.base + Width(a.kind) * count = 1 + used

Demand(a, count) == Width(a.kind) * NextCapacity(count)

Stays(ar, m, a, count, g) ==
    EndsAt(a, count, ar.used) /\ g.array = a /\ g.mem = m /\ g.arena = ar

Fails(ar, m, a, count, g) ==
    /\ ~EndsAt(a, count, ar.used) /\ ar.used + Demand(a, count) > Capacity
    /\ g.array = [a EXCEPT !.base = NULL, !.cap = 0] /\ g.mem = m /\ g.arena = ar

Moves(ar, m, a, count, g) ==
    /\ ~EndsAt(a, count, ar.used) /\ ar.used + Demand(a, count) <= Capacity
    /\ g.array = [a EXCEPT !.base = 1 + ar.used, !.cap = NextCapacity(count)]
    /\ g.mem = MemCpy(m, 1 + ar.used, a.base, Width(a.kind) * count)
    /\ g.arena = [ar EXCEPT !.used = ar.used + Demand(a, count)]

LEMMA DemandOf ==
    ASSUME NEW a \in ArrayRec, NEW c \in 0 .. MaxStored + 1
    PROVE  /\ Demand(a, c) \in Nat /\ Demand(a, c) >= NextCapacity(c) /\ Demand(a, c) >= 1
           /\ Width(a.kind) * c \in Nat
           /\ c # 0 => Demand(a, c) = 2 * (Width(a.kind) * c) /\ Demand(a, c) >= 2
           /\ c = 0 => Width(a.kind) * c = 0
<1>1. PICK w \in Widths : w = Width(a.kind)
  BY WidthIs
<1>2. w \in Nat \ {0} /\ c \in Nat
  BY <1>1, Bounds, WidthIs
<1>3. PICK k \in 1 .. 2 * (MaxStored + 1) : k = NextCapacity(c)
  BY NextCapacityIs
<1>4. w * k \in Nat /\ w * k >= k /\ k \in Nat /\ k >= 1
  BY <1>3, DemandIs, Bounds
<1>5. c # 0 => k = 2 * c
  BY <1>3, NextCapacityIs
<1>6. c # 0 => w * (2 * c) = 2 * (w * c)
  BY <1>2
<1>7. w * c \in Nat /\ (c = 0 => w * c = 0)
  BY <1>2
<1>8. Demand(a, c) = w * k
  BY <1>1, <1>3 DEF Demand
<1>9. c # 0 => w * k = 2 * (w * c) /\ k >= 2
  BY <1>2, <1>5, <1>6
<1> QED BY <1>1, <1>3, <1>4, <1>7, <1>8, <1>9

LEMMA GrownIs ==
    ASSUME NEW ar \in Arenas, NEW m \in Mems, NEW a \in ArrayRec, NEW c \in 0 .. MaxStored + 1,
           a.base # NULL => a.base <= 1 + ar.used
    PROVE  \E g : /\ g = Grown(ar, m, a, c) /\ g.mem \in Mems
                  /\ \/ Stays(ar, m, a, c, g) \/ Fails(ar, m, a, c, g) \/ Moves(ar, m, a, c, g)
<1>1. PICK g : g = Grown(ar, m, a, c)
  OBVIOUS
<1>2. PICK w \in Widths : w = Width(a.kind)
  BY WidthIs
<1>3. PICK len \in Nat : len = Demand(a, c)
  BY DemandOf
<1>4. a.base \in Nat /\ len = w * NextCapacity(c) /\ ar.used \in Nat /\ ar.used <= Capacity
  BY <1>2, <1>3, Bounds DEF ArrayRec, Arenas, Demand
<1>5. /\ AtTop(ar, a.base, w, c) <=> EndsAt(a, c, ar.used)
      /\ AtTop(ar, a.base, w, c) =>
            ReallocPtr(ar, a.base, w, 1, c) = a.base /\ ReallocArena(ar, a.base, w, 1, c) = ar
      /\ ~AtTop(ar, a.base, w, c) /\ ar.used + len <= Capacity =>
            /\ ReallocPtr(ar, a.base, w, 1, c) = 1 + ar.used
            /\ ReallocArena(ar, a.base, w, 1, c) = [ar EXCEPT !.used = ar.used + len]
      /\ ~AtTop(ar, a.base, w, c) /\ ar.used + len > Capacity =>
            ReallocPtr(ar, a.base, w, 1, c) = NULL /\ ReallocArena(ar, a.base, w, 1, c) = ar
  <2>1. AtTop(ar, a.base, w, c) <=> EndsAt(a, c, ar.used)
    BY <1>2, <1>4, GrowthIs DEF EndsAt
  <2> QED BY <1>4, <2>1, GrowthIs
<1>6. CASE AtTop(ar, a.base, w, c)
  <2>1. g.array = a
    <3>1. g.array = [a EXCEPT !.base = a.base, !.cap = a.cap]
      BY <1>1, <1>2, <1>5, <1>6 DEF Grown
    <3> QED BY <3>1 DEF ArrayRec
  <2>2. g.mem = m /\ g.arena = ar
    BY <1>1, <1>2, <1>5, <1>6 DEF Grown
  <2> QED BY <1>1, <1>5, <1>6, <2>1, <2>2 DEF Stays
<1>7. CASE ~AtTop(ar, a.base, w, c) /\ ar.used + len > Capacity
  <2>1. g.array = [a EXCEPT !.base = NULL, !.cap = 0] /\ g.arena = ar
    BY <1>1, <1>2, <1>5, <1>7 DEF Grown
  <2>2. g.mem = m
    BY <1>1, <1>2, <1>5, <1>7 DEF Grown, MemCpy
  <2> QED BY <1>1, <1>3, <1>5, <1>7, <2>1, <2>2 DEF Fails
<1>8. CASE ~AtTop(ar, a.base, w, c) /\ ar.used + len <= Capacity
  <2>1. /\ g.array = [a EXCEPT !.base = 1 + ar.used, !.cap = NextCapacity(c)]
        /\ g.arena = [ar EXCEPT !.used = ar.used + len]
    <3>1. 1 + ar.used # NULL
      BY <1>4 DEF NULL
    <3> QED BY <1>1, <1>2, <1>5, <1>8, <3>1 DEF Grown
  <2>2. g.mem = MemCpy(m, 1 + ar.used, a.base, w * c)
    BY <1>1, <1>2, <1>5, <1>8 DEF Grown
  <2>3. g.mem \in Mems
    <3>1. CASE a.base = NULL
      BY <2>2, <3>1 DEF MemCpy
    <3>2. CASE a.base # NULL
      <4>1. PICK n \in Nat : n = w * c
        BY <1>2, DemandOf
      <4>2. n = 0 \/ 1 + ar.used + 2 * n <= Capacity + 1
        <5>1. c # 0 => len = 2 * n
          BY <1>2, <1>3, <4>1, DemandOf
        <5>2. c = 0 => n = 0
          BY <1>2, <4>1, DemandOf
        <5> QED BY <1>4, <1>8, <5>1, <5>2, Bounds
      <4>3. a.base \in Nat \ {0} /\ a.base <= 1 + ar.used /\ 1 + ar.used \in Nat \ {0}
        BY <1>4, <3>2 DEF NULL
      <4>4. PICK d \in Nat \ {0}, src \in Nat \ {0} : d = 1 + ar.used /\ src = a.base
        BY <4>3
      <4>5. src <= d /\ (n = 0 \/ d + 2 * n <= Capacity + 1)
        BY <4>2, <4>3, <4>4
      <4>6. MemCpy(m, d, src, n) \in Mems
        BY <4>5, CopyIs
      <4> QED BY <2>2, <4>1, <4>4, <4>6
    <3> QED BY <3>1, <3>2
  <2> QED BY <1>1, <1>2, <1>3, <1>5, <1>8, <2>1, <2>2, <2>3 DEF Moves
<1>9. len \in Nat /\ ar.used \in Nat /\ Capacity \in Nat
  BY <1>4, Bounds
<1> QED BY <1>6, <1>7, <1>8, <1>9
-----------------------------------------------------------------------------
\* The part of the invariant that holds of every program.
Shape ==
    /\ arena \in Arenas /\ mem \in Mems
    /\ stored \in 0 .. MaxStored /\ crashed \in BOOLEAN
    /\ \A f \in finished : f.base \in 0 .. Capacity /\ f.width \in Nat
    /\ StackOK(open, arena.used, stored)

\* The arena with its top moved.
LEMMA ArenaWithTop ==
    ASSUME arena \in Arenas, NEW u \in 0 .. Capacity, NEW ar, ar = [arena EXCEPT !.used = u]
    PROVE  ar \in Arenas /\ ar.used = u
BY DEF Arenas

\* The innermost array, as the actions know it.
LEMMA InnerIs ==
    ASSUME Shape, open # << >>
    PROVE  /\ Inner \in ArrayRec /\ Fits(Inner, arena.used, stored) /\ Room(Inner)
           /\ Inner.base \in Nat /\ Inner.base <= Capacity
           /\ Inner.base # NULL => Inner.base + Words(Inner) <= 1 + arena.used
                                   /\ Inner.base <= 1 + arena.used
           /\ Inner = open[Len(open)] /\ Outer = SubSeq(open, 1, Len(open) - 1)
           /\ OneBehind(Inner, arena.used) => arena.used = Capacity /\ "tuple" \in Constructs
           /\ arena.used \in 0 .. Capacity /\ arena.used \in Nat /\ stored \in Nat
<1>1. /\ Stacked(open, arena.used, stored) /\ arena.used \in 0 .. Capacity
      /\ arena.used \in Nat /\ arena.used <= Capacity /\ stored \in Nat /\ Capacity \in Nat
  BY Bounds DEF Shape, StackOK, Arenas
<1>2. Len(open) \in 1 .. Len(open)
  BY <1>1, FrontIs DEF Stacked
<1>3. PICK a : a = open[Len(open)]
  OBVIOUS
<1>4. /\ a \in ArrayRec /\ Fits(a, arena.used, stored) /\ Room(a)
      /\ a.base \in Nat
      /\ a.base # NULL => a.base + Words(a) <= 1 + arena.used
      /\ Words(a) \in Nat
  BY <1>1, <1>2, <1>3, BlockIs
<1>5. a.base # NULL => Words(a) >= 1
  <2>1. a.base # NULL => a.cap >= 1
    BY <1>4 DEF Fits
  <2> QED BY <1>4, <2>1, WordsIs
<1>6. a.base <= Capacity /\ (a.base # NULL => a.base <= 1 + arena.used)
  BY <1>1, <1>4, <1>5 DEF NULL
<1>7. OneBehind(a, arena.used) => arena.used = Capacity /\ "tuple" \in Constructs
  BY <1>1, <1>3, InnerBehind DEF Shape
<1> QED BY <1>1, <1>3, <1>4, <1>6, <1>7 DEF Inner, Outer

\* An array begins inside the innermost one, with its block, if any, behind all.
LEMMA NestKeeps ==
    ASSUME Shape, open # << >>, Inner.kind # "params", Inner.kind = "stmts" \/ Inner.awaiting,
           NEW x \in ArrayRec, NEW u \in arena.used .. Capacity, NEW m \in Nat, stored <= m,
           Fits(x, u, m), Room(x), x.base = NULL \/ x.base = 1 + arena.used,
           OneBehind(x, u) => u = Capacity /\ "tuple" \in Constructs,
           \/ u = arena.used
           \/ u >= arena.used + 2
           \/ x.kind = "targets" /\ "tuple" \in Constructs
    PROVE  StackOK(Nest(x), u, m)
<1>1. PICK used \in 0 .. Capacity : used = arena.used
  BY InnerIs
<1>2. PICK n \in Nat : n = stored
  BY InnerIs
<1>3. PICK a \in ArrayRec : a = Inner
  BY InnerIs
<1>4. PICK s : s = open
  OBVIOUS
<1>5. StackOK(s, used, n) /\ s # << >> /\ a = s[Len(s)] /\ used \in Nat
  BY <1>1, <1>2, <1>3, <1>4, InnerIs DEF Shape
<1>6. PICK t : t = Append(SubSeq(s, 1, Len(s) - 1), [a EXCEPT !.awaiting = TRUE])
  OBVIOUS
<1>7. StackOK(t, used, n)
  BY <1>3, <1>5, <1>6, AwaitKeeps
<1>8. /\ t \in Seq(ArrayRec) /\ Len(t) \in Nat /\ t[Len(t)].kind # "params"
      /\ Stacked(t, used, n)
  <2>1. [a EXCEPT !.awaiting = TRUE] \in ArrayRec /\ [a EXCEPT !.awaiting = TRUE].kind = a.kind
    BY DEF ArrayRec
  <2>2. SubSeq(s, 1, Len(s) - 1) \in Seq(ArrayRec)
    BY <1>5, FrontIs DEF StackOK, Stacked
  <2>3. t[Len(t)] = [a EXCEPT !.awaiting = TRUE]
    BY <1>6, <2>1, <2>2, AppendProperties
  <2> QED BY <1>3, <1>7, <2>1, <2>3, LenProperties DEF StackOK, Stacked
<1>9. \A i \in 1 .. Len(t) : t[i].kind # "params"
  BY <1>8 DEF Stacked
<1>10. ASSUME NEW i \in 1 .. Len(t), t[i].base # NULL
       PROVE  /\ t[i].base + Words(t[i]) <= 1 + used /\ Words(t[i]) = t[i].cap
              /\ t[i].base \in Nat /\ t[i].cap \in Nat
  BY <1>8, <1>9, <1>10, BlockIs
<1>11. x.base # NULL => \A i \in 1 .. Len(t) :
                           t[i].base # NULL => t[i].base + Words(t[i]) <= x.base
  BY <1>1, <1>10
<1>12. ASSUME NEW i \in 1 .. Len(t), OneBehind(t[i], u)
       PROVE  "tuple" \in Constructs /\
              (u = Capacity \/ x.kind = "targets" \/ \E j \in i + 1 .. Len(t) : t[j].kind = "targets")
  <2>1. CASE u = used
    <3>1. Excused(t, i, used)
      BY <1>7, <1>12, <2>1 DEF StackOK
    <3> QED BY <2>1, <3>1 DEF Excused
  <2>2. CASE u >= used + 2
    <3>1. t[i].base # NULL /\ t[i].base + t[i].cap = u
      BY <1>12 DEF OneBehind
    <3> QED BY <1>5, <1>10, <2>2, <3>1
  <2> QED BY <1>1, <2>1, <2>2
<1>13. u \in used .. Capacity /\ n <= m
  BY <1>1, <1>2
<1>14. StackOK(Append(t, x), u, m)
  BY <1>8, <1>9, <1>11, <1>12, <1>13, PushKeeps
<1>15. Nest(x) = Append(t, x)
  BY <1>3, <1>4, <1>6, InnerIs DEF Nest
<1> QED BY <1>14, <1>15

LEMMA ArenaStays ==
    ASSUME Shape, arena' = arena, mem' = mem, stored' = stored, crashed' \in BOOLEAN,
           finished' = finished, StackOK(open', arena.used, stored)
    PROVE  Shape'
BY DEF Shape

\* A list, a block or the parameters of a function begin.
LEMMA OpenListStep == Shape /\ OpenList => Shape'
<1> SUFFICES ASSUME Shape, OpenList PROVE Shape'
  OBVIOUS
<1>1. /\ open # << >> /\ Inner.kind # "params" /\ (Inner.kind = "stmts" \/ Inner.awaiting)
      /\ open' = Nest(Array("list")) /\ UNCHANGED <<arena, mem, finished, stored, crashed>>
  BY DEF OpenList, InExpression, Running
<1>2. arena.used \in 0 .. Capacity /\ stored \in Nat /\ "list" \in Kinds \ Tuples /\ arena.used \in arena.used .. Capacity
  BY <1>1, InnerIs DEF Kinds, Tuples
<1>3. PICK x \in ArrayRec : x = Array("list")
  BY <1>2, NewArray
<1>4. /\ Fits(x, arena.used, stored) /\ Room(x) /\ x.base = NULL /\ ~OneBehind(x, arena.used)
  BY <1>2, <1>3, NewArray
<1>5. StackOK(Nest(x), arena.used, stored)
  BY <1>1, <1>2, <1>4, NestKeeps
<1> QED BY <1>1, <1>3, <1>5, ArenaStays DEF Shape

LEMMA OpenBlockStep == Shape /\ OpenBlock => Shape'
<1> SUFFICES ASSUME Shape, OpenBlock PROVE Shape'
  OBVIOUS
<1>1. /\ open # << >> /\ Inner.kind # "params" /\ (Inner.kind = "stmts" \/ Inner.awaiting)
      /\ open' = Nest(Array("stmts")) /\ UNCHANGED <<arena, mem, finished, stored, crashed>>
  BY DEF OpenBlock, InExpression, Running
<1>2. arena.used \in 0 .. Capacity /\ stored \in Nat /\ "stmts" \in Kinds \ Tuples /\ arena.used \in arena.used .. Capacity
  BY <1>1, InnerIs DEF Kinds, Tuples
<1>3. PICK x \in ArrayRec : x = Array("stmts")
  BY <1>2, NewArray
<1>4. /\ Fits(x, arena.used, stored) /\ Room(x) /\ x.base = NULL /\ ~OneBehind(x, arena.used)
  BY <1>2, <1>3, NewArray
<1>5. StackOK(Nest(x), arena.used, stored)
  BY <1>1, <1>2, <1>4, NestKeeps
<1> QED BY <1>1, <1>3, <1>5, ArenaStays DEF Shape

LEMMA OpenParamsStep == Shape /\ OpenParams => Shape'
<1> SUFFICES ASSUME Shape, OpenParams PROVE Shape'
  OBVIOUS
<1>1. /\ open # << >> /\ Inner.kind # "params" /\ (Inner.kind = "stmts" \/ Inner.awaiting)
      /\ open' = Nest(Array("params")) /\ UNCHANGED <<arena, mem, finished, stored, crashed>>
  BY DEF OpenParams, Running
<1>2. arena.used \in 0 .. Capacity /\ stored \in Nat /\ "params" \in Kinds \ Tuples /\ arena.used \in arena.used .. Capacity
  BY <1>1, InnerIs DEF Kinds, Tuples
<1>3. PICK x \in ArrayRec : x = Array("params")
  BY <1>2, NewArray
<1>4. /\ Fits(x, arena.used, stored) /\ Room(x) /\ x.base = NULL /\ ~OneBehind(x, arena.used)
  BY <1>2, <1>3, NewArray
<1>5. StackOK(Nest(x), arena.used, stored)
  BY <1>1, <1>2, <1>4, NestKeeps
<1> QED BY <1>1, <1>3, <1>5, ArenaStays DEF Shape

\* The innermost array, not a list of tuples, is finished.
LEMMA CloseStep == Shape /\ Close => Shape'
<1> SUFFICES ASSUME Shape, Close PROVE Shape'
  OBVIOUS
<1>1. /\ open # << >> /\ Inner.kind \in {"list", "stmts"} /\ open' = Outer
      /\ finished' = finished \cup {Record(Inner)} /\ UNCHANGED <<arena, mem, stored, crashed>>
  BY DEF Close, Running
<1>2. /\ Inner = open[Len(open)] /\ Outer = SubSeq(open, 1, Len(open) - 1)
      /\ Inner.base \in Nat /\ Inner.base <= Capacity /\ arena.used \in 0 .. Capacity /\ stored \in Nat
  BY <1>1, InnerIs
<1>3. StackOK(open', arena.used, stored)
  BY <1>1, <1>2, PopKeeps DEF Shape
<1>4. Record(Inner).base \in 0 .. Capacity /\ Record(Inner).width \in Nat
  BY <1>2, Bounds, WidthIs DEF Record
<1>5. \A f \in finished' : f.base \in 0 .. Capacity /\ f.width \in Nat
  BY <1>1, <1>4 DEF Shape
<1> QED BY <1>1, <1>3, <1>5 DEF Shape

\* The lists of a tuple assignment are dropped.
LEMMA CloseValuesStep == Shape /\ CloseValues => Shape'
<1> SUFFICES ASSUME Shape, CloseValues PROVE Shape'
  OBVIOUS
<1>1. /\ open # << >> /\ Inner.kind = "values" /\ open' = Outer
      /\ UNCHANGED <<arena, mem, finished, stored, crashed>>
  BY DEF CloseValues, TupleListEnds, Running
<1>2. /\ Inner = open[Len(open)] /\ Outer = SubSeq(open, 1, Len(open) - 1)
      /\ arena.used \in 0 .. Capacity /\ stored \in Nat
  BY <1>1, InnerIs
<1>3. StackOK(open', arena.used, stored)
  BY <1>1, <1>2, PopKeeps DEF Shape
<1> QED BY <1>1, <1>3, ArenaStays DEF Shape

LEMMA CrashStep == Shape /\ Crash /\ arena' = arena => Shape'
<1> SUFFICES ASSUME Shape, Crash, arena' = arena PROVE Shape'
  OBVIOUS
<1>1. crashed' = TRUE /\ UNCHANGED <<mem, open, finished, stored>>
  BY DEF Crash
<1> QED BY <1>1, ArenaStays DEF Shape
-----------------------------------------------------------------------------
\* The innermost array is grown, in place or by moving behind all others: x is what
\* becomes of it, g.arena.used the new top.
LEMMA GrowthFits ==
    ASSUME Shape, open # << >>, NEW a \in ArrayRec, a = Inner, NEW c \in 0 .. MaxStored + 1,
           NEW g, Stays(arena, mem, a, c, g) \/ Moves(arena, mem, a, c, g),
           NEW x \in ArrayRec, x.kind = a.kind, x.base = g.array.base, x.cap = g.array.cap
    PROVE  /\ g.arena \in Arenas /\ g.arena.used \in arena.used .. Capacity /\ g.arena.used \in Nat
           /\ x.base # NULL /\ (x.base = a.base \/ x.base = 1 + arena.used)
           /\ x.cap \in 1 .. 2 * (MaxStored + 1)
           /\ x.base + Words(x) <= 1 + g.arena.used
           /\ x.kind = "params" => x.base + Words(x) = 1 + g.arena.used
           /\ OneBehind(x, g.arena.used) => g.arena.used = Capacity /\ "tuple" \in Constructs
           /\ Stays(arena, mem, a, c, g) =>
                 g.arena.used = arena.used /\ x.base = a.base /\ x.cap = a.cap
           /\ Moves(arena, mem, a, c, g) =>
                 /\ x.cap = NextCapacity(c) /\ g.arena.used > arena.used
                 /\ c # 0 => g.arena.used >= arena.used + 2
<1>1. /\ Fits(a, arena.used, stored) /\ Room(a) /\ arena.used \in Nat /\ arena.used \in 0 .. Capacity
      /\ OneBehind(a, arena.used) => arena.used = Capacity /\ "tuple" \in Constructs
      /\ arena \in Arenas /\ Capacity \in Nat /\ a.base \in Nat /\ a.cap \in Nat
      /\ x.base \in Nat /\ x.cap \in Nat
  BY InnerIs, Bounds DEF ArrayRec, Shape
<1>2. CASE Stays(arena, mem, a, c, g)
  <2>1. /\ a.base # NULL /\ g.array = a /\ g.arena = arena
    BY <1>2 DEF Stays, EndsAt
  <2>2. x.base = a.base /\ x.cap = a.cap /\ Words(x) = Words(a)
    BY <2>1 DEF Words
  <2>3. /\ a.cap \in 1 .. 2 * (MaxStored + 1) /\ a.base + Words(a) <= 1 + arena.used
        /\ a.kind = "params" => a.base + Words(a) = 1 + arena.used
    BY <1>1, <2>1 DEF Fits
  <2>4. OneBehind(x, arena.used) => OneBehind(a, arena.used)
    BY <2>2 DEF OneBehind
  <2>5. ~Moves(arena, mem, a, c, g)
    BY <1>2 DEF Stays, Moves
  <2> QED BY <1>1, <2>1, <2>2, <2>3, <2>4, <2>5
<1>3. CASE Moves(arena, mem, a, c, g)
  <2>1. PICK d \in Nat : d = Demand(a, c)
    BY DemandOf
  <2>2. d >= 1 /\ (c # 0 => d >= 2)
    BY <2>1, DemandOf
  <2>3. /\ arena.used + d <= Capacity
        /\ g.array = [a EXCEPT !.base = 1 + arena.used, !.cap = NextCapacity(c)]
        /\ g.arena = [arena EXCEPT !.used = arena.used + d]
    BY <1>3, <2>1 DEF Moves
  <2>4. g.array.base = 1 + arena.used /\ g.array.cap = NextCapacity(c)
    BY <2>3 DEF ArrayRec
  <2>5. Words(x) = d
    BY <2>1, <2>4 DEF Words, Demand
  <2>6. g.arena \in Arenas /\ g.arena.used = arena.used + d
    BY <1>1, <2>3 DEF Arenas
  <2>7. ~OneBehind(x, arena.used + d)
    <3>1. x.kind # "params" => Words(x) = x.cap
      BY WordsIs
    <3> QED BY <1>1, <2>4, <2>5, <3>1 DEF OneBehind
  <2>8. x.cap \in 1 .. 2 * (MaxStored + 1)
    BY <2>4, NextCapacityIs
  <2>9. ~Stays(arena, mem, a, c, g)
    BY <1>3 DEF Stays, Moves
  <2>10. x.base = 1 + arena.used /\ x.base # NULL
    BY <1>1, <2>4 DEF NULL
  <2>11. /\ arena.used + d \in arena.used .. Capacity /\ arena.used + d \in Nat
         /\ arena.used + d > arena.used /\ (c # 0 => arena.used + d >= arena.used + 2)
         /\ x.base + Words(x) = 1 + (arena.used + d)
    BY <1>1, <2>2, <2>3, <2>5, <2>10
  <2>12. x.base + Words(x) <= 1 + (arena.used + d)
    BY <1>1, <2>11
  <2> QED BY <2>4, <2>6, <2>7, <2>8, <2>9, <2>10, <2>11, <2>12
<1> QED BY <1>2, <1>3

LEMMA GrowthKeeps ==
    ASSUME Shape, open # << >>, NEW a \in ArrayRec, a = Inner, NEW c \in 0 .. MaxStored + 1,
           NEW g, Stays(arena, mem, a, c, g) \/ Moves(arena, mem, a, c, g),
           c # 0 \/ a.base # NULL,
           NEW x \in ArrayRec, x.kind = a.kind, x.base = g.array.base, x.cap = g.array.cap,
           NEW m \in Nat, stored <= m, Fits(x, g.arena.used, m), Room(x)
    PROVE  StackOK(Append(Outer, x), g.arena.used, m)
<1>1. /\ g.arena.used \in arena.used .. Capacity /\ g.arena.used \in Nat
      /\ x.base = a.base \/ x.base = 1 + arena.used
      /\ OneBehind(x, g.arena.used) => g.arena.used = Capacity /\ "tuple" \in Constructs
      /\ \/ g.arena.used = arena.used
         \/ g.arena.used > arena.used /\ (c # 0 => g.arena.used >= arena.used + 2)
  BY GrowthFits
<1>2. PICK u \in arena.used .. Capacity : u = g.arena.used
  BY <1>1
<1>3. /\ arena.used \in 0 .. Capacity /\ stored \in Nat /\ StackOK(open, arena.used, stored)
      /\ a = open[Len(open)] /\ Outer = SubSeq(open, 1, Len(open) - 1)
  BY InnerIs DEF Shape
<1>4. \/ u = arena.used /\ (a.kind = "targets" => x.kind = "targets" \/ u = Capacity)
      \/ u >= arena.used + 2
      \/ u > arena.used /\ a.base # NULL
  BY <1>1, <1>2
<1>5. OneBehind(x, u) => u = Capacity /\ "tuple" \in Constructs
  BY <1>1, <1>2
<1>6. Fits(x, u, m)
  BY <1>2
<1>7. StackOK(Append(SubSeq(open, 1, Len(open) - 1), x), u, m)
  BY <1>1, <1>3, <1>4, <1>5, <1>6, ReplaceKeeps
<1> QED BY <1>2, <1>3, <1>7

\* What Realloc of the innermost array is.
LEMMA ReallocIs ==
    ASSUME Shape, open # << >>, NEW a \in ArrayRec, a = Inner, NEW c \in 0 .. MaxStored + 1
    PROVE  \E g : /\ g = Realloc(Inner, c) /\ g.mem \in Mems
                  /\ \/ Stays(arena, mem, a, c, g)
                     \/ Fails(arena, mem, a, c, g)
                     \/ Moves(arena, mem, a, c, g)
<1>1. /\ arena \in Arenas /\ mem \in Mems
      /\ a.base # NULL => a.base <= 1 + arena.used
  BY InnerIs DEF Shape
<1>2. Realloc(Inner, c) = Grown(arena, mem, a, c)
  BY DEF Realloc, Grown
<1> QED BY <1>1, <1>2, GrownIs

\* An array grown in place has room for one element more, unless a tuple assignment
\* made it seem to be the last.
LEMMA InPlaceFits ==
    ASSUME Shape, open # << >>, NEW a \in ArrayRec, a = Inner, a.kind # "params",
           NEW c \in 0 .. MaxStored + 1, EndsAt(a, c, arena.used),
           "tuple" \notin Constructs, c <= a.cap + 1
    PROVE  c <= a.cap
<1>1. /\ OneBehind(a, arena.used) => arena.used = Capacity /\ "tuple" \in Constructs
      /\ arena.used \in Nat
  BY InnerIs
<1>2. a.base # NULL /\ a.base + 1 * c = 1 + arena.used
  BY DEF EndsAt, Width
<1>3. a.base \in Nat /\ a.cap \in Nat /\ c \in Nat
  BY DEF ArrayRec
<1>4. ~OneBehind(a, arena.used)
  BY <1>1
<1>5. a.base + a.cap # arena.used
  BY <1>2, <1>4 DEF OneBehind
<1>6. a.base + c = 1 + arena.used
  BY <1>2, <1>3
<1>7. c # a.cap + 1
  BY <1>1, <1>3, <1>5, <1>6
<1> QED BY <1>3, <1>7

LEMMA ReserveElementStep == Shape /\ ReserveElement => Shape'
<1> SUFFICES ASSUME Shape, ReserveElement PROVE Shape'
  OBVIOUS
<1>1. /\ open # << >> /\ Inner.kind = "list" /\ ~Inner.awaiting /\ stored < MaxStored
      /\ open' = Append(Outer, [Realloc(Inner, Inner.count + 1).array EXCEPT !.awaiting = TRUE])
      /\ mem' = Realloc(Inner, Inner.count + 1).mem
      /\ arena' = Realloc(Inner, Inner.count + 1).arena
      /\ UNCHANGED <<finished, stored, crashed>>
  BY DEF ReserveElement, Running
<1>2. PICK a \in ArrayRec : a = Inner
  BY <1>1, InnerIs
<1>3. /\ Fits(a, arena.used, stored) /\ Room(a) /\ a.kind = "list" /\ ~a.awaiting
      /\ stored \in Nat /\ stored < MaxStored /\ MaxStored \in Nat
      /\ arena.used \in 0 .. Capacity /\ arena \in Arenas
      /\ a.cap \in Nat /\ a.count \in Nat /\ Len(a.elems) \in Nat /\ a.elems \in Seq(1 .. MaxStored)
  BY <1>1, <1>2, InnerIs, Bounds, LenProperties DEF ArrayRec, Shape
<1>4. a.count = Len(a.elems) /\ Len(a.elems) <= stored
  BY <1>3 DEF Fits
<1>5. PICK c \in 0 .. MaxStored + 1 : c = a.count + 1
  BY <1>3, <1>4
<1>6. PICK g : /\ g = Realloc(Inner, c) /\ g.mem \in Mems
               /\ \/ Stays(arena, mem, a, c, g)
                  \/ Fails(arena, mem, a, c, g)
                  \/ Moves(arena, mem, a, c, g)
  BY <1>1, <1>2, ReallocIs
<1>7. /\ open' = Append(Outer, [g.array EXCEPT !.awaiting = TRUE])
      /\ mem' = g.mem /\ arena' = g.arena
  BY <1>1, <1>2, <1>5, <1>6
<1>8. PICK x : x = [g.array EXCEPT !.awaiting = TRUE]
  OBVIOUS
<1>9. CASE Stays(arena, mem, a, c, g) \/ Moves(arena, mem, a, c, g)
  <2>1. /\ x \in ArrayRec /\ x.kind = "list" /\ x.awaiting = TRUE /\ x.count = a.count
        /\ x.elems = a.elems /\ x.base = g.array.base /\ x.cap = g.array.cap
    <3>1. CASE Stays(arena, mem, a, c, g)
      <4>1. g.array = a
        BY <3>1 DEF Stays
      <4> QED BY <1>3, <1>8, <4>1 DEF ArrayRec
    <3>2. CASE Moves(arena, mem, a, c, g)
      <4>1. g.array = [a EXCEPT !.base = 1 + arena.used, !.cap = NextCapacity(c)]
        BY <3>2 DEF Moves
      <4>2. 1 + arena.used \in Nat /\ NextCapacity(c) \in Nat
        BY <1>3, NextCapacityIs
      <4> QED BY <1>3, <1>8, <4>1, <4>2 DEF ArrayRec
    <3> QED BY <1>9, <3>1, <3>2
  <2>2. /\ g.arena \in Arenas /\ x.base # NULL /\ x.cap \in 1 .. 2 * (MaxStored + 1)
        /\ x.base + Words(x) <= 1 + g.arena.used
        /\ Stays(arena, mem, a, c, g) => x.cap = a.cap
        /\ Moves(arena, mem, a, c, g) => x.cap = NextCapacity(c)
    <3>1. open # << >> /\ a = Inner /\ x \in ArrayRec /\ x.kind = a.kind
      BY <1>1, <1>2, <2>1
    <3> QED BY <1>9, <2>1, <3>1, GrowthFits
  <2>3. Reach(x) = c
    BY <1>3, <1>5, <2>1 DEF Reach
  <2>4. Fits(x, g.arena.used, stored)
    BY <1>4, <2>1, <2>2 DEF Fits, Tuples
  <2>5. Room(x)
    <3> SUFFICES ASSUME "tuple" \notin Constructs PROVE c <= x.cap /\ x.kind \notin Tuples
      BY <2>3 DEF Room
    <3>1. CASE Stays(arena, mem, a, c, g)
      <4>1. EndsAt(a, c, arena.used) /\ a.base # NULL
        BY <3>1 DEF Stays, EndsAt
      <4>2. a.count <= a.cap
        <5>1. Reach(a) = a.count
          BY <1>3 DEF Reach
        <5> QED BY <1>3, <4>1, <5>1 DEF Room
      <4>3. c <= a.cap
        BY <1>1, <1>2, <1>3, <1>5, <4>1, <4>2, InPlaceFits
      <4> QED BY <2>1, <2>2, <3>1, <4>3 DEF Tuples
    <3>2. CASE Moves(arena, mem, a, c, g)
      <4>1. x.cap = 2 * c
        <5>1. c # 0
          BY <1>3, <1>5
        <5>2. NextCapacity(c) = 2 * c
          BY <5>1, NextCapacityIs
        <5> QED BY <2>2, <3>2, <5>2
      <4> QED BY <1>3, <1>5, <2>1, <4>1 DEF Tuples
    <3> QED BY <1>9, <3>1, <3>2
  <2>6. StackOK(Append(Outer, x), g.arena.used, stored)
    <3>1. /\ open # << >> /\ a = Inner /\ c # 0 /\ stored \in Nat /\ stored <= stored
          /\ x \in ArrayRec /\ x.kind = a.kind /\ x.base = g.array.base /\ x.cap = g.array.cap
      BY <1>1, <1>2, <1>3, <1>5, <2>1
    <3> QED BY <1>9, <2>4, <2>5, <3>1, GrowthKeeps
  <2> QED BY <1>1, <1>6, <1>7, <1>8, <2>2, <2>6 DEF Shape
<1>10. CASE Fails(arena, mem, a, c, g)
  <2>1. g.array = [a EXCEPT !.base = NULL, !.cap = 0] /\ g.arena = arena
    BY <1>10 DEF Fails
  <2>2. /\ x \in ArrayRec /\ x.kind = "list" /\ x.awaiting = TRUE /\ x.count = a.count
        /\ x.elems = a.elems /\ x.base = NULL /\ x.cap = 0
    <3>1. PICK y : y = g.array
      OBVIOUS
    <3>2. NULL \in Nat /\ 0 \in Nat
      BY DEF NULL
    <3>3. /\ y \in ArrayRec /\ y.kind = a.kind /\ y.count = a.count /\ y.elems = a.elems
          /\ y.base = NULL /\ y.cap = 0
      BY <2>1, <3>1, <3>2 DEF ArrayRec
    <3> QED BY <1>3, <1>8, <3>1, <3>3 DEF ArrayRec
  <2>3. Fits(x, arena.used, stored)
    BY <1>4, <2>2 DEF Fits, Tuples
  <2>4. Room(x) /\ ~OneBehind(x, arena.used)
    BY <2>2 DEF Room, OneBehind, Tuples
  <2>5. StackOK(open, arena.used, stored) /\ a = open[Len(open)] /\ Outer = SubSeq(open, 1, Len(open) - 1)
    BY <1>1, <1>2, InnerIs DEF Shape
  <2>6. arena.used \in arena.used .. Capacity
    BY <1>3
  <2>7. StackOK(Append(Outer, x), arena.used, stored)
    BY <1>1, <1>3, <2>2, <2>3, <2>4, <2>5, <2>6, ReplaceKeeps
  <2> QED BY <1>1, <1>6, <1>7, <1>8, <2>1, <2>7 DEF Shape
<1> QED BY <1>6, <1>9, <1>10

\* One element more, and k of them by the program's count.
LEMMA StoredIs ==
    ASSUME NEW a \in ArrayRec, stored \in Nat, stored < MaxStored, NEW k \in Nat
    PROVE  \E x \in ArrayRec :
              /\ x = [Stored(a) EXCEPT !.count = k]
              /\ x.kind = a.kind /\ x.base = a.base /\ x.cap = a.cap /\ x.count = k
              /\ x.awaiting = FALSE /\ Len(x.elems) = Len(a.elems) + 1
              /\ Len(a.elems) \in Nat
<1>1. PICK e : e = Append(a.elems, stored + 1)
  OBVIOUS
<1>2. stored + 1 \in 1 .. MaxStored /\ a.elems \in Seq(1 .. MaxStored)
  BY Bounds DEF ArrayRec
<1>3. e \in Seq(1 .. MaxStored) /\ Len(e) = Len(a.elems) + 1 /\ Len(a.elems) \in Nat
  BY <1>1, <1>2, AppendProperties, LenProperties
<1>4. PICK y : y = Stored(a)
  OBVIOUS
<1>5. /\ y \in ArrayRec /\ y.kind = a.kind /\ y.base = a.base /\ y.cap = a.cap
      /\ y.awaiting = FALSE /\ y.elems = e
  BY <1>1, <1>3, <1>4 DEF Stored, ArrayRec
<1>6. PICK x : x = [y EXCEPT !.count = k]
  OBVIOUS
<1>7. /\ x \in ArrayRec /\ x.kind = a.kind /\ x.base = a.base /\ x.cap = a.cap /\ x.count = k
      /\ x.awaiting = FALSE /\ x.elems = e
  BY <1>5, <1>6 DEF ArrayRec
<1> QED BY <1>3, <1>4, <1>6, <1>7

LEMMA CountIs ==
    ASSUME NEW a \in ArrayRec, NEW used, NEW n, Fits(a, used, n), a.kind \notin Tuples
    PROVE  a.count = Len(a.elems) /\ Len(a.elems) <= n
<1>1. a.kind # "targets"
  BY DEF Tuples
<1>2. Len(a.elems) \in Nat
  BY LenProperties DEF ArrayRec
<1>3. a.count = Len(a.elems)
  BY <1>1, <1>2 DEF Fits
<1> QED BY <1>3 DEF Fits

LEMMA PlainFits ==
    ASSUME NEW x \in ArrayRec, NEW u, NEW n, x.kind \notin Tuples, x.base # NULL,
           x.count = Len(x.elems), Len(x.elems) <= n,
           x.cap \in 1 .. 2 * (MaxStored + 1), x.base + Words(x) <= 1 + u,
           x.kind = "params" => x.base + Words(x) = 1 + u /\ x.count <= x.cap
    PROVE  Fits(x, u, n)
<1>1. (IF x.kind = "targets" /\ x.awaiting THEN 1 ELSE 0) = 0
  BY DEF Tuples
<1>2. x.kind # "targets" /\ x.kind # "values"
  BY DEF Tuples
<1>3. Len(x.elems) \in Nat
  BY LenProperties DEF ArrayRec
<1> QED BY <1>1, <1>2, <1>3 DEF Fits

LEMMA PutIs ==
    ASSUME NEW m \in Mems, NEW a, a.base \in Nat, NEW k \in Nat, stored \in Nat, stored < MaxStored
    PROVE  Put(m, a, k) \in Mems
<1>1. Width(a.kind) \in Nat /\ stored + 1 \in Vals
  BY WidthIs, Bounds DEF Vals
<1>2. a.base + k * Width(a.kind) \in Nat
  BY <1>1
<1> QED BY <1>1, <1>2, FillIs DEF Put

LEMMA StoreElementStep == Shape /\ StoreElement => Shape'
<1> SUFFICES ASSUME Shape, StoreElement PROVE Shape'
  OBVIOUS
<1>1. /\ open # << >> /\ Inner.kind = "list" /\ Inner.awaiting /\ stored < MaxStored
      /\ arena' = arena
  BY DEF StoreElement, Running
<1>2. PICK a \in ArrayRec : a = Inner
  BY <1>1, InnerIs
<1>3. CASE a.base = NULL
  <2>1. Crash
    BY <1>2, <1>3 DEF StoreElement
  <2> QED BY <1>1, <2>1, CrashStep
<1>4. CASE a.base # NULL
  <2>0. /\ mem' = Put(mem, a, a.count)
        /\ open' = Append(Outer, [Stored(a) EXCEPT !.count = @ + 1])
        /\ stored' = stored + 1
        /\ UNCHANGED <<finished, crashed>>
    BY <1>2, <1>4 DEF StoreElement
  <2>1. /\ Fits(a, arena.used, stored) /\ Room(a) /\ a.kind = "list" /\ a.awaiting
        /\ stored \in Nat /\ stored < MaxStored /\ MaxStored \in Nat
        /\ arena.used \in 0 .. Capacity /\ arena.used \in arena.used .. Capacity
        /\ a.base \in Nat /\ a.cap \in Nat /\ a.count \in Nat
        /\ StackOK(open, arena.used, stored) /\ a = open[Len(open)]
        /\ Outer = SubSeq(open, 1, Len(open) - 1)
        /\ OneBehind(a, arena.used) => arena.used = Capacity /\ "tuple" \in Constructs
        /\ mem \in Mems
    BY <1>1, <1>2, InnerIs, Bounds DEF ArrayRec, Shape
  <2>2. PICK k \in Nat : k = a.count + 1
    BY <2>1
  <2>3. PICK x \in ArrayRec :
              /\ x = [Stored(a) EXCEPT !.count = k]
              /\ x.kind = a.kind /\ x.base = a.base /\ x.cap = a.cap /\ x.count = k
              /\ x.awaiting = FALSE /\ Len(x.elems) = Len(a.elems) + 1
              /\ Len(a.elems) \in Nat
    BY <2>1, StoredIs
  <2>4. Stored(a).count = a.count
    BY DEF Stored, ArrayRec
  <2>5. open' = Append(Outer, x)
    BY <2>0, <2>2, <2>3, <2>4
  <2>6. Words(x) = Words(a) /\ Reach(x) = Reach(a)
    BY <2>1, <2>2, <2>3 DEF Words, Reach
  <2>7. Fits(x, arena.used, stored + 1)
    <3>1. a.count = Len(a.elems) /\ Len(a.elems) <= stored
      BY <2>1, CountIs DEF Tuples
    <3>2. Len(x.elems) <= stored + 1 /\ x.count = Len(x.elems)
      BY <2>1, <2>2, <2>3, <3>1
    <3>3. /\ a.cap \in 1 .. 2 * (MaxStored + 1) /\ a.base + Words(a) <= 1 + arena.used
      BY <1>4, <2>1 DEF Fits
    <3>4. x.base # NULL /\ x.kind \notin Tuples /\ x.kind # "params"
      BY <1>4, <2>1, <2>3 DEF Tuples
    <3> QED BY <2>3, <2>6, <3>2, <3>3, <3>4, PlainFits
  <2>8. Room(x) /\ (OneBehind(x, arena.used) => arena.used = Capacity /\ "tuple" \in Constructs)
    BY <2>1, <2>3, <2>6 DEF Room, OneBehind
  <2>9. stored + 1 \in Nat /\ stored <= stored + 1 /\ stored + 1 \in 0 .. MaxStored
    BY <2>1
  <2>10. StackOK(Append(Outer, x), arena.used, stored + 1)
    BY <1>1, <2>1, <2>3, <2>7, <2>8, <2>9, ReplaceKeeps
  <2>11. mem' \in Mems
    BY <2>0, <2>1, PutIs
  <2> QED BY <1>1, <2>0, <2>5, <2>9, <2>10, <2>11 DEF Shape
<1> QED BY <1>3, <1>4

LEMMA AddElementStep == Shape /\ AddElement => Shape'
<1> SUFFICES ASSUME Shape, AddElement PROVE Shape'
  OBVIOUS
<1>1. /\ open # << >> /\ Inner.kind \in {"stmts", "params"} /\ stored < MaxStored
  BY DEF AddElement, Running
<1>2. PICK a \in ArrayRec : a = Inner
  BY <1>1, InnerIs
<1>3. /\ Fits(a, arena.used, stored) /\ Room(a) /\ a.kind \notin Tuples /\ a.kind # "list"
      /\ stored \in Nat /\ stored < MaxStored /\ MaxStored \in Nat
      /\ arena.used \in 0 .. Capacity /\ arena.used \in Nat /\ arena \in Arenas
      /\ a.cap \in Nat /\ a.count \in Nat /\ Len(a.elems) \in Nat
  BY <1>1, <1>2, InnerIs, Bounds, LenProperties DEF ArrayRec, Shape, Tuples
<1>4. a.count = Len(a.elems) /\ Len(a.elems) <= stored
  BY <1>3, CountIs
<1>5. PICK c \in 0 .. MaxStored + 1 : c = a.count + 1
  BY <1>3, <1>4
<1>6. PICK g : /\ g = Realloc(Inner, c) /\ g.mem \in Mems
               /\ \/ Stays(arena, mem, a, c, g)
                  \/ Fails(arena, mem, a, c, g)
                  \/ Moves(arena, mem, a, c, g)
  BY <1>1, <1>2, ReallocIs
<1>7. /\ arena' = g.arena
      /\ IF g.array.base = NULL THEN Crash
         ELSE /\ mem' = Put(g.mem, g.array, g.array.count)
              /\ open' = Append(Outer, [Stored(g.array) EXCEPT !.count = @ + 1])
              /\ stored' = stored + 1
              /\ UNCHANGED <<finished, crashed>>
  BY <1>2, <1>5, <1>6 DEF AddElement
<1>8. CASE Stays(arena, mem, a, c, g) \/ Moves(arena, mem, a, c, g)
  <2>1. PICK y \in ArrayRec :
              /\ y = g.array /\ y.kind = a.kind /\ y.count = a.count /\ y.elems = a.elems
    <3>1. CASE Stays(arena, mem, a, c, g)
      BY <3>1 DEF Stays
    <3>2. CASE Moves(arena, mem, a, c, g)
      <4>1. g.array = [a EXCEPT !.base = 1 + arena.used, !.cap = NextCapacity(c)]
        BY <3>2 DEF Moves
      <4>2. 1 + arena.used \in Nat /\ NextCapacity(c) \in Nat
        BY <1>3, NextCapacityIs
      <4> QED BY <4>1, <4>2 DEF ArrayRec
    <3> QED BY <1>8, <3>1, <3>2
  <2>2. c \in Nat /\ c # 0
    BY <1>3, <1>5
  <2>0. PICK x \in ArrayRec :
              /\ x = [Stored(y) EXCEPT !.count = c]
              /\ x.kind = y.kind /\ x.base = y.base /\ x.cap = y.cap /\ x.count = c
              /\ x.awaiting = FALSE /\ Len(x.elems) = Len(y.elems) + 1
              /\ Len(y.elems) \in Nat
    <3>1. c \in Nat /\ stored \in Nat /\ stored < MaxStored
      BY <1>3, <2>2
    <3> QED BY <3>1, StoredIs
  <2>3. /\ x.kind = a.kind /\ x.base = g.array.base /\ x.cap = g.array.cap /\ x.count = c
        /\ x.awaiting = FALSE /\ Len(x.elems) = Len(a.elems) + 1
    BY <2>0, <2>1
  <2>4. Stored(y).count = a.count
    BY <2>1 DEF Stored, ArrayRec
  <2>5. /\ g.arena \in Arenas /\ x.base # NULL /\ x.cap \in 1 .. 2 * (MaxStored + 1)
        /\ x.base + Words(x) <= 1 + g.arena.used
        /\ x.kind = "params" => x.base + Words(x) = 1 + g.arena.used
        /\ Stays(arena, mem, a, c, g) => x.cap = a.cap
        /\ Moves(arena, mem, a, c, g) => x.cap = NextCapacity(c)
    BY <1>1, <1>2, <1>3, <1>8, <2>3, GrowthFits
  <2>6. /\ mem' = Put(g.mem, y, y.count) /\ open' = Append(Outer, x)
        /\ stored' = stored + 1 /\ UNCHANGED <<finished, crashed>>
    <3>1. g.array.base # NULL
      BY <2>3, <2>5
    <3>2. [Stored(g.array) EXCEPT !.count = @ + 1] = x
      BY <1>5, <2>0, <2>1, <2>4
    <3> QED BY <1>7, <2>1, <3>1, <3>2
  <2>8. /\ a.kind = "params" => c <= x.cap
        /\ "tuple" \notin Constructs => c <= x.cap
    <3>1. CASE Moves(arena, mem, a, c, g)
      <4>1. x.cap = 2 * c
        BY <2>2, <2>5, <3>1, NextCapacityIs
      <4> QED BY <2>2, <4>1
    <3>2. CASE Stays(arena, mem, a, c, g)
      <4>1. EndsAt(a, c, arena.used) /\ a.base # NULL
        BY <3>2 DEF Stays, EndsAt
      <4>2. ASSUME a.kind = "params" PROVE c <= x.cap
        <5>1. a.base + ParamWords * a.cap = 1 + arena.used
          BY <1>3, <4>1, <4>2, WordsIs DEF Fits
        <5>2. a.base + ParamWords * c = 1 + arena.used
          BY <4>1, <4>2 DEF EndsAt, Width
        <5>3. PICK p \in Nat : p = ParamWords * a.cap
          BY <1>3, Bounds
        <5>4. PICK q \in Nat : q = ParamWords * c
          BY <2>2, Bounds
        <5>5. p = q
          <6>1. a.base + p = 1 + arena.used /\ a.base + q = 1 + arena.used /\ a.base \in Nat
            BY <5>1, <5>2, <5>3, <5>4 DEF ArrayRec
          <6> QED BY <1>3, <6>1
        <5>6. a.cap = c
          BY <1>3, <2>2, <5>3, <5>4, <5>5, Bounds, TimesCancel
        <5> QED BY <2>2, <2>5, <3>2, <5>6
      <4>3. ASSUME a.kind # "params", "tuple" \notin Constructs PROVE c <= x.cap
        <5>1. Reach(a) = a.count
          BY <1>3 DEF Reach, Tuples
        <5>2. c <= a.cap + 1
          BY <1>3, <1>5, <4>1, <4>3, <5>1 DEF Room
        <5>3. c <= a.cap
          BY <1>1, <1>2, <4>1, <4>3, <5>2, InPlaceFits
        <5> QED BY <2>5, <3>2, <5>3
      <4> QED BY <4>2, <4>3
    <3> QED BY <1>8, <3>1, <3>2
  <2>9. Reach(x) = c
    BY <1>3, <2>2, <2>3 DEF Reach, Tuples
  <2>10. Fits(x, g.arena.used, stored + 1)
    <3>1. Len(x.elems) <= stored + 1 /\ x.count = Len(x.elems)
      BY <1>3, <1>4, <1>5, <2>3
    <3> QED BY <1>3, <2>3, <2>5, <2>8, <3>1, PlainFits
  <2>11. Room(x)
    BY <1>3, <2>3, <2>8, <2>9 DEF Room, Tuples
  <2>12. stored + 1 \in Nat /\ stored <= stored + 1 /\ stored + 1 \in 0 .. MaxStored
    BY <1>3
  <2>13. StackOK(Append(Outer, x), g.arena.used, stored + 1)
    BY <1>1, <1>2, <1>8, <2>2, <2>3, <2>10, <2>11, <2>12, GrowthKeeps
  <2>14. mem' \in Mems
    <3>1. y.base \in Nat /\ y.count \in Nat
      BY DEF ArrayRec
    <3> QED BY <1>3, <1>6, <2>6, <3>1, PutIs
  <2> QED BY <1>7, <2>5, <2>6, <2>12, <2>13, <2>14 DEF Shape
<1>9. CASE Fails(arena, mem, a, c, g)
  <2>1. g.array = [a EXCEPT !.base = NULL, !.cap = 0] /\ g.arena = arena
    BY <1>9 DEF Fails
  <2>2. g.array.base = NULL
    BY <2>1 DEF ArrayRec
  <2> QED BY <1>7, <2>1, <2>2, CrashStep
<1> QED BY <1>6, <1>8, <1>9

\* The FuncData is allocated behind everything and a block begins.
LEMMA CloseParamsStep == Shape /\ CloseParams => Shape'
<1> SUFFICES ASSUME Shape, CloseParams PROVE Shape'
  OBVIOUS
<1>1. /\ open # << >> /\ Inner.kind = "params" /\ stored < MaxStored
  BY DEF CloseParams, Running
<1>2. /\ arena \in Arenas /\ mem \in Mems /\ arena.used \in 0 .. Capacity /\ arena.used \in Nat
      /\ stored \in Nat /\ MaxStored \in Nat /\ Capacity \in Nat /\ FuncDataWords \in Nat
      /\ FuncDataWords # 0 /\ FuncDataWords # 1
      /\ Inner.base \in Nat /\ Inner.base <= Capacity
      /\ StackOK(open, arena.used, stored) /\ Inner = open[Len(open)]
      /\ Outer = SubSeq(open, 1, Len(open) - 1)
  BY <1>1, InnerIs, Bounds DEF Shape
<1>3. PICK r :
         /\ r = [size |-> FuncDataWords, align |-> 1, count |-> 1]
         /\ arena.used + FuncDataWords <= Capacity =>
               AllocPtr(arena, r) = 1 + arena.used
               /\ AllocArena(arena, r) = [arena EXCEPT !.used = arena.used + FuncDataWords]
         /\ arena.used + FuncDataWords > Capacity =>
               AllocPtr(arena, r) = NULL /\ AllocArena(arena, r) = arena
  <2>1. PICK q \in Nat : q = ParamWords * (2 * (MaxStored + 1))
    <3>1. PICK h \in Nat : h = 2 * (MaxStored + 1)
      BY <1>2
    <3> QED BY <3>1, Bounds
  <2>2. Capacity + FuncDataWords + q + 1 < WordMod
    BY <2>1, GrowAssumption
  <2>3. FuncDataWords \in Nat \ {0}
    BY Bounds
  <2>4. FuncDataWords + Capacity + 1 < WordMod
    <3>1. WordMod \in Nat /\ FuncDataWords \in Nat /\ Capacity \in Nat /\ q \in Nat
      BY <2>1, Bounds
    <3>2. Capacity + FuncDataWords + q + 1 >= FuncDataWords + Capacity + 1
      BY <3>1
    <3> QED BY <2>2, <3>1, <3>2
  <2> QED BY <1>2, <2>3, <2>4, AllocOneIs
<1>4. PICK data : data = AllocPtr(arena, r)
  OBVIOUS
<1>5. /\ arena' = AllocArena(arena, r)
      /\ IF data = NULL THEN Crash
         ELSE /\ mem' = Fill(mem, data, FuncDataWords, stored + 1)
              /\ stored' = stored + 1
              /\ finished' = finished \cup
                   {Record(Inner),
                    [base |-> data, width |-> FuncDataWords, elems |-> <<stored + 1>>]}
              /\ open' = Append(Outer, Array("stmts"))
              /\ UNCHANGED crashed
  BY <1>3, <1>4 DEF CloseParams
<1>6. CASE arena.used + FuncDataWords > Capacity
  <2>1. Crash
    BY <1>3, <1>4, <1>5, <1>6
  <2>2. arena' = arena
    BY <1>3, <1>5, <1>6
  <2> QED BY <2>1, <2>2, CrashStep
<1>7. CASE arena.used + FuncDataWords <= Capacity
  <2>1. PICK u \in arena.used .. Capacity : u = arena.used + FuncDataWords /\ u >= arena.used + 2
    <3>1. FuncDataWords >= 2
      BY <1>2
    <3>2. arena.used + FuncDataWords \in arena.used .. Capacity
      BY <1>2, <1>7
    <3>3. arena.used + FuncDataWords >= arena.used + 2
      BY <1>2, <3>1
    <3> QED BY <3>2, <3>3
  <2>2. /\ data = 1 + arena.used /\ data # NULL /\ arena' = [arena EXCEPT !.used = u]
    BY <1>2, <1>3, <1>4, <1>5, <1>7, <2>1 DEF NULL
  <2>3. /\ mem' = Fill(mem, data, FuncDataWords, stored + 1)
        /\ stored' = stored + 1
        /\ finished' = finished \cup
             {Record(Inner),
              [base |-> data, width |-> FuncDataWords, elems |-> <<stored + 1>>]}
        /\ open' = Append(Outer, Array("stmts"))
        /\ crashed' = crashed
    BY <1>5, <2>2
  <2>4. arena' \in Arenas /\ arena'.used = u
    <3>1. u \in 0 .. Capacity /\ arena \in Arenas
      BY <1>2, <2>1
    <3> QED BY <2>2, <3>1 DEF Arenas
  <2>5. mem' \in Mems
    <3>1. stored + 1 \in Vals
      BY <1>1, <1>2 DEF Vals
    <3>2. data \in Nat
      BY <1>2, <2>2
    <3>3. FuncDataWords \in Nat /\ mem \in Mems
      BY <1>2
    <3> QED BY <2>3, <3>1, <3>2, <3>3, FillIs
  <2>6. stored + 1 \in Nat /\ stored <= stored + 1 /\ stored + 1 \in 0 .. MaxStored
    BY <1>1, <1>2
  <2>7. \A f \in finished' : f.base \in 0 .. Capacity /\ f.width \in Nat
    <3>1. Record(Inner).base \in 0 .. Capacity /\ Record(Inner).width \in Nat
      BY <1>2, WidthIs DEF Record
    <3>2. data \in 0 .. Capacity
      <4>1. arena.used \in Nat /\ Capacity \in Nat /\ u <= Capacity /\ arena.used + 2 <= u
        BY <1>2, <2>1
      <4> QED BY <2>2, <4>1
    <3>3. FuncDataWords \in Nat /\ \A f \in finished : f.base \in 0 .. Capacity /\ f.width \in Nat
      BY <1>2 DEF Shape
    <3> QED BY <2>3, <3>1, <3>2, <3>3
  <2>8. PICK x \in ArrayRec : x = Array("stmts")
    BY <1>2, NewArray DEF Kinds, Tuples
  <2>9. /\ Fits(x, u, stored + 1) /\ Room(x) /\ x.base = NULL /\ ~OneBehind(x, u)
    <3>1. "stmts" \in Kinds \ Tuples /\ u \in 0 .. Capacity
      BY <1>2 DEF Kinds, Tuples
    <3> QED BY <2>6, <2>8, <3>1, NewArray
  <2>10. StackOK(Append(Outer, x), u, stored + 1)
    BY <1>1, <1>2, <2>1, <2>6, <2>9, ReplaceKeeps
  <2> QED BY <2>3, <2>4, <2>5, <2>6, <2>7, <2>8, <2>10 DEF Shape
<1> QED BY <1>2, <1>6, <1>7
-----------------------------------------------------------------------------
\* Tuple assignments: one word is allocated for each of the two lists.
LEMMA NewTupleIs ==
    ASSUME Shape, open # << >>, NEW kind \in Tuples
    PROVE  \/ /\ arena.used = Capacity /\ AllocArena(arena, OneWord) = arena
              /\ NewTuple(kind) = Array(kind) /\ Array(kind).base = NULL
           \/ /\ arena.used + 1 <= Capacity
              /\ AllocArena(arena, OneWord) = [arena EXCEPT !.used = arena.used + 1]
              /\ NewTuple(kind) = [Array(kind) EXCEPT !.base = 1 + arena.used, !.cap = 1]
<1>1. /\ arena \in Arenas /\ arena.used \in 0 .. Capacity /\ arena.used \in Nat
      /\ Capacity \in Nat /\ MaxStored \in Nat /\ FuncDataWords \in Nat
  BY InnerIs, Bounds DEF Shape
<1>2. 1 + Capacity + 1 < WordMod
  <2>1. 1 \in Widths /\ 1 \in 1 .. 2 * (MaxStored + 1)
    BY <1>1 DEF Widths
  <2>2. 1 * 1 + Capacity + 1 < WordMod
    BY <2>1, DemandIs
  <2> QED BY <2>2
<1>3. PICK r :
         /\ r = [size |-> 1, align |-> 1, count |-> 1]
         /\ arena.used + 1 <= Capacity =>
               AllocPtr(arena, r) = 1 + arena.used
               /\ AllocArena(arena, r) = [arena EXCEPT !.used = arena.used + 1]
         /\ arena.used + 1 > Capacity =>
               AllocPtr(arena, r) = NULL /\ AllocArena(arena, r) = arena
  <2>1. 1 \in Nat \ {0}
    OBVIOUS
  <2> QED BY <1>1, <1>2, <2>1, AllocOneIs
<1>4. r = OneWord
  BY <1>3 DEF OneWord
<1>5. CASE arena.used + 1 <= Capacity
  <2>1. 1 + arena.used # NULL
    BY <1>1 DEF NULL
  <2> QED BY <1>3, <1>4, <1>5, <2>1 DEF NewTuple
<1>6. CASE arena.used + 1 > Capacity
  <2>1. arena.used = Capacity
    BY <1>1, <1>6
  <2>2. NewTuple(kind) = [Array(kind) EXCEPT !.base = NULL, !.cap = 0]
    BY <1>3, <1>4, <1>6 DEF NewTuple
  <2>3. NewTuple(kind) = Array(kind) /\ Array(kind).base = NULL
    BY <2>2 DEF Array
  <2> QED BY <1>3, <1>4, <1>6, <2>1, <2>3
<1> QED BY <1>1, <1>5, <1>6

LEMMA TupleConstruct ==
    ASSUME NEW a, Room(a), a.kind \in Tuples
    PROVE  "tuple" \in Constructs
BY DEF Room

LEMMA TupleFits ==
    ASSUME NEW x \in ArrayRec, NEW u, NEW n, x.kind \in Tuples, x.base # NULL,
           Len(x.elems) <= n,
           x.kind = "targets" => Len(x.elems) >= 1,
           x.kind = "targets" /\ x.awaiting => x.count = Len(x.elems) + 1,
           ~(x.kind = "targets" /\ x.awaiting) => x.count = Len(x.elems),
           x.cap \in 1 .. 2 * (MaxStored + 1), x.base + Words(x) <= 1 + u,
           \/ Reach(x) <= x.cap + 1
           \/ Reach(x) = x.cap + 2 /\ u = Capacity /\ x.base + x.cap = u
    PROVE  Fits(x, u, n)
<1>1. x.kind # "params"
  BY DEF Tuples
<1>2. Len(x.elems) \in Nat
  BY LenProperties DEF ArrayRec
<1>3. x.count = Len(x.elems) + (IF x.kind = "targets" /\ x.awaiting THEN 1 ELSE 0)
  <2>1. CASE x.kind = "targets" /\ x.awaiting
    BY <1>2, <2>1
  <2>2. CASE ~(x.kind = "targets" /\ x.awaiting)
    <3>1. (IF x.kind = "targets" /\ x.awaiting THEN 1 ELSE 0) = 0
      BY <2>2
    <3>2. x.count = Len(x.elems) /\ Len(x.elems) + 0 = Len(x.elems)
      BY <1>2, <2>2
    <3> QED BY <3>1, <3>2
  <2> QED BY <2>1, <2>2
<1> QED BY <1>1, <1>3 DEF Fits

LEMMA TupleCount ==
    ASSUME NEW a \in ArrayRec, NEW used, NEW n, Fits(a, used, n)
    PROVE  /\ Len(a.elems) <= n /\ Len(a.elems) \in Nat
           /\ a.kind = "targets" /\ a.awaiting => a.count = Len(a.elems) + 1
           /\ ~(a.kind = "targets" /\ a.awaiting) => a.count = Len(a.elems)
<1>1. Len(a.elems) \in Nat
  BY LenProperties DEF ArrayRec
<1>2. a.count = Len(a.elems) + (IF a.kind = "targets" /\ a.awaiting THEN 1 ELSE 0)
  BY DEF Fits
<1>3. a.kind = "targets" /\ a.awaiting => a.count = Len(a.elems) + 1
  BY <1>2
<1>4. ASSUME ~(a.kind = "targets" /\ a.awaiting) PROVE a.count = Len(a.elems)
  <2>1. (IF a.kind = "targets" /\ a.awaiting THEN 1 ELSE 0) = 0
    BY <1>4
  <2>2. Len(a.elems) + 0 = Len(a.elems)
    BY <1>1
  <2> QED BY <1>2, <2>1, <2>2
<1> QED BY <1>1, <1>3, <1>4 DEF Fits

LEMMA OpenTargetsStep == Shape /\ OpenTargets => Shape'
<1> SUFFICES ASSUME Shape, OpenTargets PROVE Shape'
  OBVIOUS
<1>1. /\ open # << >> /\ Inner.kind # "params" /\ (Inner.kind = "stmts" \/ Inner.awaiting)
      /\ "tuple" \in Constructs /\ stored < MaxStored
  BY DEF OpenTargets, InExpression, Running
<1>2. PICK a : a = NewTuple("targets")
  OBVIOUS
<1>3. /\ arena' = AllocArena(arena, OneWord)
      /\ IF a.base = NULL THEN Crash
         ELSE /\ mem' = Put(mem, a, 0)
              /\ open' = Nest([Stored(a) EXCEPT !.count = 1])
              /\ stored' = stored + 1
              /\ UNCHANGED <<finished, crashed>>
  BY <1>2 DEF OpenTargets
<1>4. /\ arena \in Arenas /\ mem \in Mems /\ arena.used \in 0 .. Capacity /\ arena.used \in Nat
      /\ stored \in Nat /\ MaxStored \in Nat /\ Capacity \in Nat
  BY <1>1, InnerIs, Bounds DEF Shape
<1>5. \/ /\ arena.used = Capacity /\ AllocArena(arena, OneWord) = arena
         /\ a = Array("targets") /\ Array("targets").base = NULL
      \/ /\ arena.used + 1 <= Capacity
         /\ AllocArena(arena, OneWord) = [arena EXCEPT !.used = arena.used + 1]
         /\ a = [Array("targets") EXCEPT !.base = 1 + arena.used, !.cap = 1]
  BY <1>1, <1>2, NewTupleIs DEF Tuples
<1>6. CASE /\ arena.used = Capacity /\ AllocArena(arena, OneWord) = arena
           /\ a = Array("targets") /\ Array("targets").base = NULL
  <2>1. Crash /\ arena' = arena
    BY <1>3, <1>6
  <2> QED BY <2>1, CrashStep
<1>7. CASE /\ arena.used + 1 <= Capacity
           /\ AllocArena(arena, OneWord) = [arena EXCEPT !.used = arena.used + 1]
           /\ a = [Array("targets") EXCEPT !.base = 1 + arena.used, !.cap = 1]
  <2>1. PICK u \in arena.used .. Capacity : u = arena.used + 1
    BY <1>4, <1>7
  <2>2. /\ a \in ArrayRec /\ a.kind = "targets" /\ a.base = 1 + arena.used /\ a.base # NULL
        /\ a.cap = 1 /\ a.elems = << >> /\ a.base \in Nat
    <3>1. 1 + arena.used \in Nat /\ 1 + arena.used # NULL
      BY <1>4 DEF NULL
    <3>2. /\ Array("targets") \in ArrayRec /\ Array("targets").kind = "targets"
          /\ Array("targets").elems = << >>
      BY EmptySeq DEF Array, ArrayRec, Kinds, NULL
    <3>3. PICK y \in ArrayRec : y = Array("targets") /\ y.kind = "targets" /\ y.elems = << >>
      BY <3>2
    <3> QED BY <1>7, <3>1, <3>3 DEF ArrayRec
  <2>3. /\ mem' = Put(mem, a, 0)
        /\ open' = Nest([Stored(a) EXCEPT !.count = 1])
        /\ stored' = stored + 1 /\ UNCHANGED <<finished, crashed>>
        /\ arena' = [arena EXCEPT !.used = u]
    BY <1>3, <1>7, <2>1, <2>2
  <2>4. arena' \in Arenas /\ arena'.used = u
    <3>1. u \in 0 .. Capacity /\ arena \in Arenas
      BY <1>4, <2>1
    <3> QED BY <2>3, <3>1, ArenaWithTop
  <2>5. PICK x \in ArrayRec :
              /\ x = [Stored(a) EXCEPT !.count = 1]
              /\ x.kind = a.kind /\ x.base = a.base /\ x.cap = a.cap /\ x.count = 1
              /\ x.awaiting = FALSE /\ Len(x.elems) = Len(a.elems) + 1
              /\ Len(a.elems) \in Nat
    <3>1. 1 \in Nat /\ stored \in Nat /\ stored < MaxStored
      BY <1>1, <1>4
    <3> QED BY <2>2, <3>1, StoredIs
  <2>6. Len(x.elems) = 1
    BY <2>2, <2>5
  <2>7. Words(x) = 1 /\ Reach(x) = 1
    BY <2>2, <2>5 DEF Words, Width, Reach
  <2>8. Fits(x, u, stored + 1)
    <3>1. x.cap \in 1 .. 2 * (MaxStored + 1) /\ x.cap = 1 /\ 1 <= stored + 1
      BY <1>4, <2>2, <2>5
    <3>2. x.base + Words(x) <= 1 + u /\ x.base # NULL
      BY <1>4, <2>1, <2>2, <2>5, <2>7
    <3>3. x.kind \in Tuples /\ Reach(x) <= x.cap + 1
      BY <2>2, <2>5, <2>7, <3>1 DEF Tuples
    <3>4. Len(x.elems) <= stored + 1 /\ Len(x.elems) >= 1
      BY <1>4, <2>6
    <3>5. x.count = Len(x.elems)
      BY <2>5, <2>6
    <3>6. ~x.awaiting
      BY <2>5
    <3> QED BY <3>1, <3>2, <3>3, <3>4, <3>5, <3>6, TupleFits
  <2>9. Room(x) /\ ~OneBehind(x, u)
    BY <1>1, <1>4, <2>1, <2>2, <2>5 DEF Room, OneBehind
  <2>10. stored + 1 \in Nat /\ stored <= stored + 1 /\ stored + 1 \in 0 .. MaxStored
    BY <1>1, <1>4
  <2>11. StackOK(Nest(x), u, stored + 1)
    BY <1>1, <2>2, <2>5, <2>8, <2>9, <2>10, NestKeeps
  <2>12. mem' \in Mems
    BY <1>1, <1>4, <2>2, <2>3, PutIs
  <2> QED BY <2>3, <2>4, <2>5, <2>10, <2>11, <2>12 DEF Shape
<1> QED BY <1>5, <1>6, <1>7

LEMMA ReserveInTupleStep == Shape /\ ReserveInTuple => Shape'
<1> SUFFICES ASSUME Shape, ReserveInTuple PROVE Shape'
  OBVIOUS
<1>1. /\ open # << >> /\ Inner.kind \in Tuples /\ ~Inner.awaiting /\ stored < MaxStored
      /\ Realloc(Inner, Inner.count).array.base # NULL
      /\ arena' = Realloc(Inner, Inner.count).arena
      /\ mem' = Realloc(Inner, Inner.count).mem
      /\ open' = Append(Outer, [Realloc(Inner, Inner.count).array EXCEPT !.awaiting = TRUE,
                                    !.count = IF Inner.kind = "targets" THEN @ + 1 ELSE @])
      /\ UNCHANGED <<finished, stored, crashed>>
  BY DEF ReserveInTuple, Running, Tuples
<1>2. PICK a \in ArrayRec : a = Inner
  BY <1>1, InnerIs
<1>3. /\ Fits(a, arena.used, stored) /\ Room(a) /\ a.kind \in Tuples /\ ~a.awaiting
      /\ stored \in Nat /\ stored < MaxStored /\ MaxStored \in Nat /\ Capacity \in Nat
      /\ arena.used \in 0 .. Capacity /\ arena.used \in Nat /\ arena \in Arenas
      /\ a.base \in Nat /\ a.cap \in Nat /\ a.count \in Nat
      /\ OneBehind(a, arena.used) => arena.used = Capacity /\ "tuple" \in Constructs
  BY <1>1, <1>2, InnerIs, Bounds DEF ArrayRec, Shape
<1>4. /\ a.count = Len(a.elems) /\ Len(a.elems) <= stored /\ Len(a.elems) \in Nat
      /\ "tuple" \in Constructs
  BY <1>3, TupleCount, TupleConstruct
<1>5. PICK c \in 0 .. MaxStored + 1 : c = a.count
  BY <1>3, <1>4
<1>6. PICK g : /\ g = Realloc(Inner, c) /\ g.mem \in Mems
               /\ \/ Stays(arena, mem, a, c, g)
                  \/ Fails(arena, mem, a, c, g)
                  \/ Moves(arena, mem, a, c, g)
  BY <1>1, <1>2, ReallocIs
<1>7. /\ arena' = g.arena /\ mem' = g.mem /\ g.array.base # NULL
      /\ open' = Append(Outer, [g.array EXCEPT !.awaiting = TRUE,
                                    !.count = IF a.kind = "targets" THEN @ + 1 ELSE @])
  BY <1>1, <1>2, <1>5, <1>6
<1>8. Stays(arena, mem, a, c, g) \/ Moves(arena, mem, a, c, g)
  <2>1. ASSUME Fails(arena, mem, a, c, g) PROVE g.array.base = NULL
    <3>1. g.array = [a EXCEPT !.base = NULL, !.cap = 0]
      BY <2>1 DEF Fails
    <3> QED BY <3>1 DEF ArrayRec
  <2> QED BY <1>6, <1>7, <2>1
<1>9. a.base # NULL
  <2> SUFFICES ASSUME a.base = NULL PROVE FALSE
    OBVIOUS
  <2>1. arena.used = Capacity
    BY <1>3 DEF Fits, Tuples
  <2>2. Moves(arena, mem, a, c, g)
    BY <1>8 DEF Stays, EndsAt
  <2>3. arena.used + Demand(a, c) <= Capacity
    BY <2>2 DEF Moves
  <2>4. Demand(a, c) \in Nat /\ Demand(a, c) >= 1
    BY DemandOf
  <2> QED BY <1>3, <2>1, <2>3, <2>4
<1>10. PICK y \in ArrayRec :
             y = g.array /\ y.kind = a.kind /\ y.count = a.count /\ y.elems = a.elems
  <2>1. CASE Stays(arena, mem, a, c, g)
    BY <2>1 DEF Stays
  <2>2. CASE Moves(arena, mem, a, c, g)
    <3>1. g.array = [a EXCEPT !.base = 1 + arena.used, !.cap = NextCapacity(c)]
      BY <2>2 DEF Moves
    <3>2. 1 + arena.used \in Nat /\ NextCapacity(c) \in Nat
      BY <1>3, NextCapacityIs
    <3> QED BY <3>1, <3>2 DEF ArrayRec
  <2> QED BY <1>8, <2>1, <2>2
<1>11. PICK k \in Nat : k = IF a.kind = "targets" THEN a.count + 1 ELSE a.count
  BY <1>3
<1>12. PICK x : x = [y EXCEPT !.awaiting = TRUE, !.count = k]
  OBVIOUS
<1>13. /\ x \in ArrayRec /\ x.kind = a.kind /\ x.base = g.array.base /\ x.cap = g.array.cap
       /\ x.elems = a.elems /\ x.awaiting = TRUE /\ x.count = k
  BY <1>10, <1>12 DEF ArrayRec
<1>14. open' = Append(Outer, x)
  <2>1. CASE a.kind = "targets"
    BY <1>7, <1>10, <1>11, <1>12, <2>1
  <2>2. CASE a.kind # "targets"
    BY <1>7, <1>10, <1>11, <1>12, <2>2
  <2> QED BY <2>1, <2>2
<1>15. PICK u \in Nat : u = g.arena.used
  BY <1>1, <1>2, <1>8, <1>13, GrowthFits
<1>16. /\ g.arena \in Arenas /\ x.base # NULL /\ x.cap \in 1 .. 2 * (MaxStored + 1)
       /\ x.base + Words(x) <= 1 + u
       /\ Stays(arena, mem, a, c, g) => u = arena.used /\ x.base = a.base /\ x.cap = a.cap
       /\ Moves(arena, mem, a, c, g) => x.cap = NextCapacity(c)
  <2>1. /\ g.arena \in Arenas /\ x.base # NULL /\ x.cap \in 1 .. 2 * (MaxStored + 1)
        /\ x.base + Words(x) <= 1 + g.arena.used
        /\ Stays(arena, mem, a, c, g) =>
              g.arena.used = arena.used /\ x.base = a.base /\ x.cap = a.cap
        /\ Moves(arena, mem, a, c, g) => x.cap = NextCapacity(c)
    BY <1>1, <1>2, <1>8, <1>13, GrowthFits
  <2> QED BY <1>15, <2>1
<1>17. Reach(x) = c + 1
  <2>1. CASE a.kind = "targets"
    BY <1>3, <1>5, <1>11, <1>13, <2>1 DEF Reach
  <2>2. CASE a.kind = "values"
    BY <1>3, <1>5, <1>11, <1>13, <2>2 DEF Reach
  <2> QED BY <1>3, <2>1, <2>2 DEF Tuples
<1>18. \/ Reach(x) <= x.cap + 1
       \/ Reach(x) = x.cap + 2 /\ u = Capacity /\ x.base + x.cap = u
  <2>1. CASE Moves(arena, mem, a, c, g)
    <3>1. c + 1 <= NextCapacity(c) + 1 /\ NextCapacity(c) \in Nat
      BY <1>3, NextCapacityIs
    <3> QED BY <1>16, <1>17, <2>1, <3>1
  <2>2. CASE Stays(arena, mem, a, c, g)
    <3>1. a.base + 1 * c = 1 + arena.used
      BY <1>3, <2>2 DEF Stays, EndsAt, Width, Tuples
    <3>2. a.base + c = 1 + arena.used
      BY <1>3, <3>1
    <3>3. Reach(a) = c
      BY <1>3, <1>5 DEF Reach
    <3>4. c <= a.cap + 1
      <4>1. c <= a.cap + 1 \/ (c = a.cap + 2 /\ a.base + a.cap = arena.used)
        BY <1>3, <1>9, <3>3 DEF Fits
      <4> QED BY <1>3, <3>2, <4>1
    <3>5. CASE c <= a.cap
      BY <1>3, <1>16, <1>17, <2>2, <3>5
    <3>6. CASE c = a.cap + 1
      <4>1. a.base + a.cap = arena.used
        BY <1>3, <3>2, <3>6
      <4>2. a.kind # "params"
        BY <1>3 DEF Tuples
      <4>3. arena.used = Capacity
        BY <1>3, <1>9, <4>1, <4>2 DEF OneBehind
      <4> QED BY <1>3, <1>16, <1>17, <2>2, <3>6, <4>1, <4>3
    <3> QED BY <1>3, <3>4, <3>5, <3>6
  <2> QED BY <1>8, <2>1, <2>2
<1>19. Fits(x, u, stored)
  <2>1. a.kind = "targets" => Len(a.elems) >= 1
    BY <1>3 DEF Fits
  <2>2. /\ x.kind = "targets" => x.count = Len(x.elems) + 1
        /\ x.kind # "targets" => x.count = Len(x.elems)
    BY <1>4, <1>11, <1>13
  <2>3. x.awaiting
    BY <1>13
  <2>4. /\ x.kind \in Tuples /\ Len(x.elems) <= stored
        /\ x.kind = "targets" => Len(x.elems) >= 1
    BY <1>3, <1>4, <1>13, <2>1
  <2> QED BY <1>13, <1>16, <1>18, <2>2, <2>3, <2>4, TupleFits
<1>20. Room(x)
  BY <1>4 DEF Room
<1>21. StackOK(Append(Outer, x), g.arena.used, stored)
  <2>1. Fits(x, g.arena.used, stored) /\ stored <= stored
    BY <1>3, <1>15, <1>19
  <2> QED BY <1>1, <1>2, <1>3, <1>8, <1>9, <1>13, <1>20, <2>1, GrowthKeeps
<1> QED BY <1>1, <1>6, <1>7, <1>14, <1>16, <1>21 DEF Shape

LEMMA StoreInTupleStep == Shape /\ StoreInTuple => Shape'
<1> SUFFICES ASSUME Shape, StoreInTuple PROVE Shape'
  OBVIOUS
<1>1. /\ open # << >> /\ Inner.kind \in Tuples /\ Inner.awaiting /\ stored < MaxStored
      /\ mem' = Put(mem, Inner, Inner.count) /\ stored' = stored + 1
      /\ open' = Append(Outer, [Stored(Inner) EXCEPT
                                    !.count = IF Inner.kind = "values" THEN @ + 1 ELSE @])
      /\ UNCHANGED <<arena, finished, crashed>>
  BY DEF StoreInTuple, Running, Tuples
<1>2. PICK a \in ArrayRec : a = Inner
  BY <1>1, InnerIs
<1>3. /\ Fits(a, arena.used, stored) /\ Room(a) /\ a.kind \in Tuples /\ a.awaiting
      /\ stored \in Nat /\ stored < MaxStored /\ MaxStored \in Nat /\ Capacity \in Nat
      /\ arena.used \in 0 .. Capacity /\ arena.used \in arena.used .. Capacity
      /\ a.base \in Nat /\ a.cap \in Nat /\ a.count \in Nat
      /\ OneBehind(a, arena.used) => arena.used = Capacity /\ "tuple" \in Constructs
      /\ StackOK(open, arena.used, stored) /\ a = open[Len(open)]
      /\ Outer = SubSeq(open, 1, Len(open) - 1) /\ mem \in Mems
  BY <1>1, <1>2, InnerIs, Bounds DEF ArrayRec, Shape
<1>4. PICK k \in Nat : k = IF a.kind = "values" THEN a.count + 1 ELSE a.count
  BY <1>3
<1>5. PICK x \in ArrayRec :
            /\ x = [Stored(a) EXCEPT !.count = k]
            /\ x.kind = a.kind /\ x.base = a.base /\ x.cap = a.cap /\ x.count = k
            /\ x.awaiting = FALSE /\ Len(x.elems) = Len(a.elems) + 1
            /\ Len(a.elems) \in Nat
  BY <1>3, StoredIs
<1>6. open' = Append(Outer, x)
  <2>1. Stored(a).count = a.count
    BY DEF Stored, ArrayRec
  <2>2. CASE a.kind = "values"
    BY <1>1, <1>2, <1>4, <1>5, <2>1, <2>2
  <2>3. CASE a.kind # "values"
    <3>1. [Stored(a) EXCEPT !.count = IF a.kind = "values" THEN @ + 1 ELSE @] = x
      BY <1>4, <1>5, <2>1, <2>3
    <3> QED BY <1>1, <1>2, <3>1
  <2> QED BY <2>2, <2>3
<1>7. /\ x.kind = a.kind /\ x.base = a.base /\ x.cap = a.cap /\ x.count = k
      /\ ~x.awaiting /\ Len(x.elems) = Len(a.elems) + 1 /\ Len(a.elems) \in Nat
  BY <1>5
<1>8. Words(x) = Words(a)
  BY <1>7 DEF Words
<1>9. Reach(x) = Reach(a)
  <2>1. CASE a.kind = "values"
    BY <1>3, <1>4, <1>7, <2>1 DEF Reach
  <2>2. CASE a.kind = "targets"
    BY <1>3, <1>4, <1>7, <2>2 DEF Reach
  <2> QED BY <1>3, <2>1, <2>2 DEF Tuples
<1>10. a.base # NULL
  BY <1>3 DEF Fits, Tuples
<1>11. Fits(x, arena.used, stored + 1)
  <2>1. /\ Len(a.elems) <= stored
        /\ a.kind = "targets" => a.count = Len(a.elems) + 1
        /\ a.kind # "targets" => a.count = Len(a.elems)
    BY <1>3, TupleCount
  <2>2. x.count = Len(x.elems)
    <3>1. CASE a.kind = "values"
      BY <1>4, <1>7, <2>1, <3>1
    <3>2. CASE a.kind = "targets"
      BY <1>4, <1>7, <2>1, <3>2
    <3> QED BY <1>3, <3>1, <3>2 DEF Tuples
  <2>3. Len(x.elems) <= stored + 1 /\ Len(x.elems) >= 1
    BY <1>3, <1>7, <2>1
  <2>4. /\ x.cap \in 1 .. 2 * (MaxStored + 1) /\ x.base + Words(x) <= 1 + arena.used
        /\ \/ Reach(x) <= x.cap + 1
           \/ Reach(x) = x.cap + 2 /\ arena.used = Capacity /\ x.base + x.cap = arena.used
    BY <1>3, <1>7, <1>8, <1>9, <1>10 DEF Fits
  <2>5. x.kind \in Tuples /\ x.base # NULL /\ ~x.awaiting
    BY <1>3, <1>7, <1>10
  <2> QED BY <2>2, <2>3, <2>4, <2>5, TupleFits
<1>12. Room(x)
  BY <1>3, TupleConstruct DEF Room
<1>13. OneBehind(x, arena.used) => arena.used = Capacity /\ "tuple" \in Constructs
  BY <1>3, <1>7 DEF OneBehind
<1>14. stored + 1 \in Nat /\ stored <= stored + 1 /\ stored + 1 \in 0 .. MaxStored
  BY <1>3
<1>15. StackOK(Append(Outer, x), arena.used, stored + 1)
  BY <1>1, <1>3, <1>7, <1>11, <1>12, <1>13, <1>14, ReplaceKeeps
<1>16. mem' \in Mems
  BY <1>1, <1>2, <1>3, PutIs
<1> QED BY <1>1, <1>6, <1>14, <1>15, <1>16 DEF Shape

LEMMA NoTargetStep == Shape /\ NoTarget => Shape'
BY CrashStep DEF NoTarget

\* The list of values takes the place of the list of targets.
LEMMA CloseTargetsStep == Shape /\ CloseTargets => Shape'
<1> SUFFICES ASSUME Shape, CloseTargets PROVE Shape'
  OBVIOUS
<1>1. /\ open # << >> /\ Inner.kind = "targets"
      /\ open' = Append(Outer, NewTuple("values")) /\ arena' = AllocArena(arena, OneWord)
      /\ UNCHANGED <<mem, finished, stored, crashed>>
  BY DEF CloseTargets, TupleListEnds, Running
<1>2. PICK a \in ArrayRec : a = Inner
  BY <1>1, InnerIs
<1>3. /\ Fits(a, arena.used, stored) /\ Room(a) /\ a.kind = "targets" /\ a.base # NULL
      /\ stored \in Nat /\ MaxStored \in Nat /\ Capacity \in Nat
      /\ arena.used \in 0 .. Capacity /\ arena.used \in Nat /\ arena \in Arenas
      /\ StackOK(open, arena.used, stored) /\ a = open[Len(open)]
      /\ Outer = SubSeq(open, 1, Len(open) - 1) /\ "tuple" \in Constructs
  BY <1>1, <1>2, InnerIs, Bounds, TupleConstruct DEF Shape, Fits, Tuples
<1>4. PICK x : x = NewTuple("values")
  OBVIOUS
<1>5. \/ /\ arena.used = Capacity /\ AllocArena(arena, OneWord) = arena
         /\ x = Array("values") /\ Array("values").base = NULL
      \/ /\ arena.used + 1 <= Capacity
         /\ AllocArena(arena, OneWord) = [arena EXCEPT !.used = arena.used + 1]
         /\ x = [Array("values") EXCEPT !.base = 1 + arena.used, !.cap = 1]
  BY <1>1, <1>4, NewTupleIs DEF Tuples
<1>6. PICK y \in ArrayRec :
            /\ y = Array("values") /\ y.kind = "values" /\ y.base = NULL /\ y.cap = 0
            /\ y.count = 0 /\ ~y.awaiting /\ y.elems = << >>
  <2>1. /\ Array("values") \in ArrayRec /\ Array("values").kind = "values"
        /\ Array("values").base = NULL /\ Array("values").cap = 0
        /\ Array("values").count = 0 /\ ~Array("values").awaiting
        /\ Array("values").elems = << >>
    BY EmptySeq DEF Array, ArrayRec, Kinds, NULL
  <2> QED BY <2>1
<1>7. Len(y.elems) = 0
  BY <1>6
<1>8. Room(x)
  BY <1>3 DEF Room
<1>9. CASE /\ arena.used = Capacity /\ AllocArena(arena, OneWord) = arena
           /\ x = Array("values") /\ Array("values").base = NULL
  <2>1. x = y
    BY <1>6, <1>9
  <2>2. Fits(y, arena.used, stored)
    <3>1. (IF y.kind = "targets" /\ y.awaiting THEN 1 ELSE 0) = 0
      BY <1>6
    <3> QED BY <1>3, <1>6, <1>7, <1>9, <3>1 DEF Fits
  <2>3. ~OneBehind(y, arena.used)
    BY <1>6 DEF OneBehind
  <2>4. arena.used \in arena.used .. Capacity /\ stored <= stored
    BY <1>3
  <2>5. Room(y)
    BY <1>8, <2>1
  <2>6. StackOK(Append(SubSeq(open, 1, Len(open) - 1), y), arena.used, stored)
    BY <1>1, <1>3, <1>6, <1>9, <2>2, <2>3, <2>4, <2>5, ReplaceKeeps
  <2> QED BY <1>1, <1>3, <1>4, <1>9, <2>1, <2>6, ArenaStays DEF Shape
<1>10. CASE /\ arena.used + 1 <= Capacity
            /\ AllocArena(arena, OneWord) = [arena EXCEPT !.used = arena.used + 1]
            /\ x = [Array("values") EXCEPT !.base = 1 + arena.used, !.cap = 1]
  <2>1. PICK u \in arena.used .. Capacity : u = arena.used + 1
    <3>1. arena.used + 1 \in arena.used .. Capacity
      BY <1>3, <1>10
    <3> QED BY <3>1
  <2>2. PICK b \in Nat : b = 1 + arena.used /\ b # NULL
    BY <1>3 DEF NULL
  <2>3. /\ x \in ArrayRec /\ x.kind = "values" /\ x.base = b /\ x.cap = 1 /\ x.count = 0
        /\ ~x.awaiting /\ Len(x.elems) = 0
    <3>1. /\ x \in ArrayRec /\ x.kind = "values" /\ x.base = b /\ x.cap = 1 /\ x.count = 0
          /\ ~x.awaiting /\ x.elems = y.elems
      BY <1>6, <1>10, <2>2 DEF ArrayRec
    <3> QED BY <1>7, <3>1
  <2>4. Words(x) = 1 /\ Reach(x) = 0
    BY <2>3 DEF Words, Width, Reach
  <2>5. Fits(x, u, stored)
    <3>1. x.cap \in 1 .. 2 * (MaxStored + 1) /\ Reach(x) <= x.cap + 1 /\ 0 <= stored
      BY <1>3, <2>3, <2>4
    <3>2. x.base + Words(x) <= 1 + u /\ x.base # NULL
      BY <1>3, <2>1, <2>2, <2>3, <2>4
    <3>3. x.kind \in Tuples /\ x.kind # "targets"
      BY <2>3 DEF Tuples
    <3>4. Len(x.elems) <= stored /\ x.count = Len(x.elems)
      BY <2>3, <3>1
    <3> QED BY <2>3, <3>1, <3>2, <3>3, <3>4, TupleFits
  <2>6. ~OneBehind(x, u)
    BY <1>3, <2>1, <2>2, <2>3 DEF OneBehind
  <2>7. arena' = [arena EXCEPT !.used = u]
    BY <1>1, <1>10, <2>1
  <2>8. arena' \in Arenas /\ arena'.used = u
    <3>1. u \in 0 .. Capacity /\ arena \in Arenas
      BY <1>3, <2>1
    <3> QED BY <2>7, <3>1, ArenaWithTop
  <2>9. u > arena.used /\ stored <= stored /\ x.base = 1 + arena.used
    BY <1>3, <2>1, <2>2, <2>3
  <2>10. StackOK(Append(SubSeq(open, 1, Len(open) - 1), x), u, stored)
    BY <1>1, <1>3, <1>8, <2>3, <2>5, <2>6, <2>9, ReplaceKeeps
  <2> QED BY <1>1, <1>3, <1>4, <2>8, <2>10 DEF Shape
<1> QED BY <1>5, <1>9, <1>10
-----------------------------------------------------------------------------
LEMMA InitShape == Init => Shape
<1> SUFFICES ASSUME Init PROVE Shape
  OBVIOUS
<1>1. PICK x \in ArrayRec : x = Array("stmts")
  BY NewArray, Bounds DEF Kinds, Tuples
<1>2. PICK used \in 0 .. Capacity :
         /\ arena \in Arenas /\ arena.used = used /\ Capacity \in Nat /\ MaxStored \in Nat
  BY Bounds, GrowAssumption DEF Init, Arenas
<1>3. Fits(x, used, 0) /\ Room(x) /\ x.base = NULL /\ ~OneBehind(x, used)
  <2>1. "stmts" \in Kinds \ Tuples
    BY DEF Kinds, Tuples
  <2> QED BY <1>1, <1>2, <2>1, NewArray
<1>4. open = <<x>> /\ open \in Seq(ArrayRec) /\ Len(open) = 1 /\ open[1] = x
  BY <1>1 DEF Init
<1>5. \A i \in 1 .. Len(open) : i = 1
  BY <1>4
<1>6. Stacked(open, used, 0)
  BY <1>3, <1>4, <1>5 DEF Stacked
<1>7. StackOK(open, used, 0)
  BY <1>3, <1>4, <1>5, <1>6 DEF StackOK
<1>8. mem \in Mems
  BY <1>2 DEF Init, Mems, Vals
<1>9. stored = 0 /\ crashed = FALSE /\ finished = {}
  BY DEF Init
<1>10. StackOK(open, arena.used, stored)
  BY <1>2, <1>7, <1>9
<1>11. stored \in 0 .. MaxStored
  BY <1>2, <1>9
<1> QED BY <1>2, <1>8, <1>9, <1>10, <1>11 DEF Shape

LEMMA NextShape == Shape /\ [Next]_vars => Shape'
<1> SUFFICES ASSUME Shape, [Next]_vars PROVE Shape'
  OBVIOUS
<1>1. CASE OpenList
  BY <1>1, OpenListStep
<1>2. CASE OpenBlock
  BY <1>2, OpenBlockStep
<1>3. CASE ReserveElement
  BY <1>3, ReserveElementStep
<1>4. CASE StoreElement
  BY <1>4, StoreElementStep
<1>5. CASE AddElement
  BY <1>5, AddElementStep
<1>6. CASE Close
  BY <1>6, CloseStep
<1>7. CASE OpenParams
  BY <1>7, OpenParamsStep
<1>8. CASE CloseParams
  BY <1>8, CloseParamsStep
<1>9. CASE OpenTargets
  BY <1>9, OpenTargetsStep
<1>10. CASE ReserveInTuple
  BY <1>10, ReserveInTupleStep
<1>11. CASE StoreInTuple
  BY <1>11, StoreInTupleStep
<1>12. CASE NoTarget
  BY <1>12, NoTargetStep
<1>13. CASE CloseTargets
  BY <1>13, CloseTargetsStep
<1>14. CASE CloseValues
  BY <1>14, CloseValuesStep
<1>15. CASE UNCHANGED vars
  BY <1>15 DEF Shape, vars
<1> QED BY <1>1, <1>2, <1>3, <1>4, <1>5, <1>6, <1>7, <1>8, <1>9, <1>10, <1>11, <1>12,
           <1>13, <1>14, <1>15 DEF Next

\* The shape of the stack is kept by every step of the parser.
THEOREM StackKeepsShape == Spec => []Shape
BY InitShape, NextShape, PTL DEF Spec

LEMMA ElementIs ==
    ASSUME Shape, NEW i \in 1 .. Len(open)
    PROVE  /\ open[i] \in ArrayRec /\ Fits(open[i], arena.used, stored) /\ Room(open[i])
           /\ arena.used \in 0 .. Capacity /\ stored \in 0 .. MaxStored
           /\ DOMAIN open = 1 .. Len(open)
<1>1. /\ Stacked(open, arena.used, stored) /\ arena.used \in 0 .. Capacity
      /\ stored \in 0 .. MaxStored /\ stored \in Nat
  BY Bounds DEF Shape, StackOK, Arenas
<1>2. DOMAIN open = 1 .. Len(open)
  BY <1>1, LenProperties DEF Stacked
<1> QED BY <1>1, <1>2, BlockIs

\* The history variable is set, never unset.
LEMMA TupledIsBoolean == Spec => [](tupled \in BOOLEAN)
<1>1. Init => tupled \in BOOLEAN
  BY DEF Init
<1>2. tupled \in BOOLEAN /\ [Next]_vars => (tupled \in BOOLEAN)'
  BY DEF Next, vars, OpenList, OpenBlock, ReserveElement, StoreElement, AddElement, Close, OpenParams,
         CloseParams, OpenTargets, ReserveInTuple, StoreInTuple, NoTarget, CloseTargets, CloseValues
<1> QED BY <1>1, <1>2, PTL DEF Spec

LEMMA ShapeTypes == Shape /\ tupled \in BOOLEAN => TypeOK
<1> SUFFICES ASSUME Shape, tupled \in BOOLEAN PROVE TypeOK
  OBVIOUS
<1>1. /\ arena \in [base : {1}, size : {Capacity}, used : 0 .. Capacity]
      /\ mem \in [1 .. Capacity + 2 -> 0 .. MaxStored \cup {Scrambled}]
      /\ stored \in 0 .. MaxStored /\ crashed \in BOOLEAN
      /\ \A a \in finished : a.base \in 0 .. Capacity /\ a.width \in Nat
  BY DEF Shape, Arenas, Mems, Vals
<1>2. DOMAIN open = 1 .. Len(open)
  BY LenProperties DEF Shape, StackOK, Stacked
<1>3. ASSUME NEW i \in 1 .. Len(open)
      PROVE  /\ open[i].kind \in Kinds /\ open[i].awaiting \in BOOLEAN
             /\ open[i].base \in 0 .. Capacity /\ open[i].count \in 0 .. MaxStored + 1
             /\ open[i].cap \in 0 .. 2 * (MaxStored + 1)
             /\ Len(open[i].elems) <= MaxStored
  <2>1. PICK a : a = open[i]
    OBVIOUS
  <2>2. /\ a \in ArrayRec /\ Fits(a, arena.used, stored)
        /\ arena.used \in Nat /\ arena.used <= Capacity /\ stored \in Nat /\ stored <= MaxStored
        /\ Capacity \in Nat /\ MaxStored \in Nat /\ a.base \in Nat /\ a.cap \in Nat
        /\ a.kind \in Kinds /\ a.awaiting \in BOOLEAN
    BY <2>1, ElementIs, Bounds DEF ArrayRec
  <2>3. /\ Len(a.elems) <= stored /\ Len(a.elems) \in Nat
        /\ a.count = Len(a.elems) \/ a.count = Len(a.elems) + 1
    BY <2>2, TupleCount
  <2>4. a.base = NULL => a.cap = 0
    BY <2>2 DEF Fits
  <2>5. /\ a.base # NULL => a.cap \in 1 .. 2 * (MaxStored + 1)
        /\ a.base # NULL => a.base + Words(a) <= 1 + arena.used
    BY <2>2 DEF Fits
  <2>6. a.base # NULL => Words(a) \in Nat /\ Words(a) >= 1
    BY <2>2, <2>5, WordsIs
  <2>7. a.base \in 0 .. Capacity
    BY <2>2, <2>5, <2>6 DEF NULL
  <2>8. a.cap \in 0 .. 2 * (MaxStored + 1)
    BY <2>2, <2>4, <2>5
  <2>9. a.count \in 0 .. MaxStored + 1 /\ Len(a.elems) <= MaxStored
    BY <2>2, <2>3
  <2> QED BY <2>1, <2>2, <2>7, <2>8, <2>9
<1> QED BY <1>1, <1>2, <1>3 DEF TypeOK

\* Every variable of the parser keeps its type.
THEOREM TypeCorrect == Spec => []TypeOK
BY StackKeepsShape, TupledIsBoolean, ShapeTypes, PTL

\* Whatever a program nests: the lists of a tuple assignment leave their blocks
\* by two words at most, by a third only when the arena is full.
THEOREM TuplesLeaveByLittle == Spec => []TupleOverrunBounded
<1>1. Shape => TupleOverrunBounded
  <2> SUFFICES ASSUME Shape, NEW i \in DOMAIN open,
                      open[i].kind \in {"targets", "values"}, open[i].awaiting
               PROVE  \/ open[i].count <= open[i].cap + 1
                      \/ /\ open[i].kind = "targets" /\ arena.used = Capacity
                         /\ open[i].count = open[i].cap + 2
    BY DEF TupleOverrunBounded
  <2>1. i \in 1 .. Len(open)
    BY LenProperties DEF Shape, StackOK, Stacked
  <2>2. PICK a : a = open[i]
    OBVIOUS
  <2>3. /\ a \in ArrayRec /\ Fits(a, arena.used, stored) /\ a.kind \in Tuples /\ a.awaiting
        /\ a.count \in Nat /\ a.cap \in Nat
    BY <2>1, <2>2, ElementIs DEF ArrayRec, Tuples
  <2>4. a.base # NULL
    BY <2>3 DEF Fits, Tuples
  <2>5. \/ Reach(a) <= a.cap + 1
        \/ Reach(a) = a.cap + 2 /\ arena.used = Capacity
    BY <2>3, <2>4 DEF Fits
  <2>6. CASE a.kind = "targets"
    <3>1. Reach(a) = a.count
      BY <2>3, <2>6 DEF Reach
    <3> QED BY <2>2, <2>5, <2>6, <3>1
  <2>7. CASE a.kind = "values"
    <3>1. Reach(a) = a.count + 1
      BY <2>3, <2>7 DEF Reach
    <3>2. a.count <= a.cap + 1
      BY <2>3, <2>5, <3>1
    <3> QED BY <2>2, <3>2
  <2> QED BY <2>3, <2>6, <2>7 DEF Tuples
<1> QED BY <1>1, StackKeepsShape, PTL

\* Without tuple assignments every array has room in its own block for the
\* element that is stored next, wherever realloc_array_ left it.
THEOREM RoomForTheNext == ASSUME "tuple" \notin Constructs PROVE Spec => []StoreHasRoom
<1>1. Shape => StoreHasRoom
  <2> SUFFICES ASSUME Shape, NEW i \in DOMAIN open, open[i].kind \in {"stmts", "list", "params"},
                      open[i].base # NULL
               PROVE  open[i].count + (IF open[i].kind = "list" /\ open[i].awaiting THEN 1 ELSE 0)
                         <= open[i].cap
    BY DEF StoreHasRoom
  <2>1. i \in 1 .. Len(open)
    BY LenProperties DEF Shape, StackOK, Stacked
  <2>2. Room(open[i])
    BY <2>1, ElementIs
  <2>3. Reach(open[i]) <= open[i].cap
    BY <2>2 DEF Room
  <2>4. open[i].kind # "values"
    OBVIOUS
  <2> QED BY <2>3, <2>4 DEF Reach
<1> QED BY <1>1, StackKeepsShape, PTL
-----------------------------------------------------------------------------
(***************************************************************************)
(* What the words of the arena hold, in programs without tuple assignments *)
(* (whose lists leave their blocks). An array is written only inside its   *)
(* block or above the arena's top, finished arrays lie below the top and   *)
(* apart from the blocks of the arrays under construction, and an array    *)
(* can only overlap its old block when it moves with two elements.         *)
(***************************************************************************)

\* The words of the elements of a record, and of an array's block.
Extent(f) == f.width * Len(f.elems)

Fresh(m, used) == \A c \in 1 .. Capacity + 2 : c > used => m[c] = 0

\* An element holds its value, or one of the first two was lost.
Whole(m, r) ==
    \A i \in 1 .. Len(r.elems) : \A c \in CellsOf(r, i) :
        m[c] \in {0, r.elems[i]} /\ (i > 2 => m[c] = r.elems[i])

Settled(f, used) ==
    /\ f.base \in Nat /\ f.width \in Nat /\ f.elems \in Seq(Nat)
    /\ Len(f.elems) >= 1 => f.base # NULL /\ f.base + Extent(f) <= 1 + used

Apart(f, a) ==
    Len(f.elems) >= 1 /\ a.base # NULL =>
        f.base + Extent(f) <= a.base \/ a.base + Words(a) <= f.base

\* An array moves to a block for twice what it needs and moves on when it has one
\* element more, except from one element to two, which fit.
Doubled(a) == a.cap = 2 * Reach(a) \/ (a.cap = 2 /\ Reach(a) = 2)

\* The slot of an argument or element to come is reserved, or could not be.
Pending(a) == a.kind = "list" /\ a.awaiting

Content(m, used, s, F) ==
    /\ Fresh(m, used)
    /\ \A f \in F : Settled(f, used) /\ Whole(m, f) /\ \A i \in 1 .. Len(s) : Apart(f, s[i])
    /\ \A i \in 1 .. Len(s) : s[i].base # NULL => Doubled(s[i]) /\ Whole(m, Record(s[i]))

IInv == Shape /\ Content(mem, arena.used, open, finished)
-----------------------------------------------------------------------------
\* The words of an element lie in the extent of its array.
LEMMA CellsIn ==
    ASSUME NEW r, r.base \in Nat, r.width \in Nat, Len(r.elems) \in Nat,
           NEW i \in 1 .. Len(r.elems), NEW c \in CellsOf(r, i)
    PROVE  /\ c \in Nat /\ r.base <= c /\ c < r.base + Extent(r) /\ Extent(r) \in Nat
           /\ CellsOf(r, i) \subseteq Int
<1>1. PICK w \in Nat : w = r.width
  OBVIOUS
<1>2. PICK l \in Nat : l = Len(r.elems)
  OBVIOUS
<1>3. PICK k \in Nat : i = k + 1 /\ k + 1 <= l
  <2>1. i - 1 \in Nat /\ i = (i - 1) + 1 /\ i <= l
    BY <1>2
  <2> QED BY <2>1
<1>4. w * k \in Nat /\ w * (k + 1) = w * k + w /\ w * (k + 1) <= w * l /\ w * l \in Nat
  <2>1. w * (k + 1) <= w * l
    BY <1>3, TimesMonotone
  <2> QED BY <2>1
<1>5. PICK p \in Nat : p = w * k
  BY <1>4
<1>6. PICK q \in Nat : q = w * l
  BY <1>4
<1>7. (i - 1) * w = p /\ i * w = p + w /\ p + w <= q
  <2>1. i - 1 = k
    BY <1>3
  <2>2. k * w = w * k /\ (k + 1) * w = w * (k + 1)
    OBVIOUS
  <2> QED BY <1>3, <1>4, <1>5, <1>6, <2>1, <2>2
<1>8. CellsOf(r, i) = r.base + p .. r.base + (p + w) - 1
  BY <1>1, <1>7 DEF CellsOf
<1>9. Extent(r) = q
  BY <1>1, <1>2, <1>6 DEF Extent
<1>10. PICK b \in Nat : b = r.base
  OBVIOUS
<1>11. c \in b + p .. b + (p + w) - 1
  BY <1>8, <1>10
<1>12. c \in Nat /\ b <= c /\ c < b + q
  BY <1>7, <1>11
<1>13. CellsOf(r, i) \subseteq Int
  BY <1>8, <1>10
<1> QED BY <1>9, <1>10, <1>12, <1>13

\* Whatever agrees on the words of an array's elements keeps them.
LEMMA WholeKept ==
    ASSUME NEW m, NEW m2, NEW r, r.base \in Nat, r.width \in Nat, Len(r.elems) \in Nat,
           Whole(m, r),
           \A c \in Nat : r.base <= c /\ c < r.base + Extent(r) => m2[c] = m[c]
    PROVE  Whole(m2, r)
<1> SUFFICES ASSUME NEW i \in 1 .. Len(r.elems), NEW c \in CellsOf(r, i)
             PROVE  m2[c] \in {0, r.elems[i]} /\ (i > 2 => m2[c] = r.elems[i])
  BY DEF Whole
<1>1. c \in Nat /\ r.base <= c /\ c < r.base + Extent(r)
  BY CellsIn
<1>2. m2[c] = m[c]
  BY <1>1
<1> QED BY <1>2 DEF Whole

\* One element more, in the words behind those there are.
LEMMA WholeWithOneMore ==
    ASSUME NEW m, NEW m2, NEW r, NEW q, NEW v \in Nat, Whole(m, r),
           r.base \in Nat, r.width \in Nat, r.elems \in Seq(Nat),
           q.base = r.base, q.width = r.width, q.elems = Append(r.elems, v),
           \A c \in Nat : r.base <= c /\ c < r.base + Extent(r) => m2[c] = m[c],
           \A c \in Nat : r.base + Extent(r) <= c /\ c < r.base + Extent(r) + r.width => m2[c] = v
    PROVE  Whole(m2, q)
<1>1. PICK b \in Nat, w \in Nat, e \in Seq(Nat), l \in Nat :
            b = r.base /\ w = r.width /\ e = r.elems /\ l = Len(e)
  BY LenProperties
<1>2. PICK p \in Nat : p = w * l /\ Extent(r) = p
  <2>1. w * l \in Nat
    OBVIOUS
  <2> QED BY <1>1, <2>1 DEF Extent
<1>3. PICK t \in Seq(Nat) :
            /\ t = q.elems /\ Len(t) = l + 1 /\ t[l + 1] = v
            /\ \A i \in 1 .. l : t[i] = e[i]
  <2>1. /\ Append(e, v) \in Seq(Nat) /\ Len(Append(e, v)) = Len(e) + 1
        /\ \A i \in 1 .. Len(e) : Append(e, v)[i] = e[i]
        /\ Append(e, v)[Len(e) + 1] = v
    BY AppendProperties
  <2> QED BY <1>1, <2>1
<1> SUFFICES ASSUME NEW i \in 1 .. Len(t), NEW c \in CellsOf(q, i)
             PROVE  m2[c] \in {0, t[i]} /\ (i > 2 => m2[c] = t[i])
  BY <1>3 DEF Whole
<1>4. CASE i \in 1 .. l
  <2>1. CellsOf(q, i) = CellsOf(r, i)
    BY DEF CellsOf
  <2>2. i \in 1 .. Len(r.elems) /\ Len(r.elems) \in Nat
    BY <1>1, <1>4
  <2>3. c \in Nat /\ r.base <= c /\ c < r.base + Extent(r)
    BY <2>1, <2>2, CellsIn
  <2>4. m2[c] = m[c]
    BY <2>3
  <2>5. m[c] \in {0, e[i]} /\ (i > 2 => m[c] = e[i])
    BY <1>1, <2>1, <2>2 DEF Whole
  <2> QED BY <1>3, <1>4, <2>4, <2>5
<1>5. CASE i = l + 1
  <2>1. CellsOf(q, i) = b + (i - 1) * w .. b + i * w - 1
    BY <1>1 DEF CellsOf
  <2>2. (i - 1) * w = p /\ i * w = p + w
    <3>1. i - 1 = l /\ l * w = w * l /\ (l + 1) * w = w * l + w
      BY <1>5
    <3> QED BY <1>2, <1>5, <3>1
  <2>3. c \in b + p .. b + (p + w) - 1
    BY <2>1, <2>2
  <2>4. c \in Nat /\ b + p <= c /\ c < b + p + w
    BY <2>3
  <2>5. m2[c] = v
    BY <1>1, <1>2, <2>4
  <2> QED BY <1>3, <1>5, <2>5
<1>6. i \in 1 .. l \/ i = l + 1
  BY <1>3
<1> QED BY <1>4, <1>5, <1>6
-----------------------------------------------------------------------------
\* An array with a block has all its elements in it.
LEMMA ElemsInBlock ==
    ASSUME NEW s, NEW used \in 0 .. Capacity, NEW n \in 0 .. MaxStored, Stacked(s, used, n),
           "tuple" \notin Constructs, NEW i \in 1 .. Len(s)
    PROVE  /\ s[i] \in ArrayRec /\ s[i].kind \notin Tuples /\ s[i].count = Len(s[i].elems)
           /\ s[i].elems \in Seq(Nat) /\ Len(s[i].elems) \in Nat
           /\ s[i].base = NULL /\ ~Pending(s[i]) => Len(s[i].elems) = 0
           /\ s[i].base # NULL =>
                 /\ Reach(s[i]) <= s[i].cap /\ Len(s[i].elems) <= s[i].cap
                 /\ s[i].base + Words(s[i]) <= 1 + used
                 /\ Extent(Record(s[i])) <= Words(s[i])
                 /\ Extent(Record(s[i])) \in Nat /\ Words(s[i]) \in Nat
<1>1. PICK a : a = s[i]
  OBVIOUS
<1>2. /\ a \in ArrayRec /\ Fits(a, used, n) /\ Room(a) /\ a.cap \in Nat /\ Words(a) \in Nat
      /\ a.base # NULL => a.base + Words(a) <= 1 + used
      /\ n \in Nat
  BY <1>1, BlockIs, Bounds
<1>3. a.kind \notin Tuples
  BY <1>2 DEF Room
<1>4. a.count = Len(a.elems)
  BY <1>2, <1>3, CountIs
<1>5. a.elems \in Seq(Nat) /\ Len(a.elems) \in Nat
  <2>1. a.elems \in Seq(1 .. MaxStored) /\ 1 .. MaxStored \subseteq Nat
    BY <1>2, Bounds DEF ArrayRec
  <2>2. a.elems \in Seq(Nat)
    BY <2>1, SeqMonotonic
  <2> QED BY <2>2, LenProperties
<1>6. a.base = NULL /\ ~Pending(a) => Len(a.elems) = 0
  BY <1>2, <1>4 DEF Fits, Pending
<1>7. ASSUME a.base # NULL
      PROVE  /\ Reach(a) <= a.cap /\ Len(a.elems) <= a.cap
             /\ Extent(Record(a)) <= Words(a) /\ Extent(Record(a)) \in Nat
  <2>1. Reach(a) <= a.cap
    BY <1>2, <1>7 DEF Room
  <2>2. Reach(a) = a.count \/ Reach(a) = a.count + 1
    <3>1. CASE a.awaiting /\ a.kind \in {"list", "values"}
      BY <3>1 DEF Reach
    <3>2. CASE ~(a.awaiting /\ a.kind \in {"list", "values"})
      <4>1. (IF a.awaiting /\ a.kind \in {"list", "values"} THEN 1 ELSE 0) = 0
        BY <3>2
      <4>2. a.count + 0 = a.count
        BY <1>4, <1>5
      <4> QED BY <4>1, <4>2 DEF Reach
    <3> QED BY <3>1, <3>2
  <2>3. Len(a.elems) <= a.cap
    BY <1>2, <1>4, <1>5, <2>1, <2>2
  <2>4. PICK w \in Nat : w = Width(a.kind)
    BY WidthIs
  <2>5. Extent(Record(a)) = w * Len(a.elems)
    BY <2>4 DEF Extent, Record
  <2>6. Words(a) = w * a.cap
    BY <2>4 DEF Words
  <2>7. w * Len(a.elems) \in Nat /\ w * Len(a.elems) <= w * a.cap
    BY <1>2, <1>5, <2>3, <2>4, TimesMonotone
  <2> QED BY <2>1, <2>3, <2>5, <2>6, <2>7
<1> QED BY <1>1, <1>2, <1>3, <1>4, <1>5, <1>6, <1>7

\* Another array's elements, finished or not, lie outside the block of an array
\* behind it and below the top.
LEMMA ContentKept ==
    ASSUME NEW m, NEW m2, NEW used \in 0 .. Capacity, NEW r, NEW a \in ArrayRec,
           Settled(r, used), Apart(r, a), Whole(m, r), Words(a) \in Nat,
           \A c \in 1 .. Capacity + 2 :
              c <= used /\ ~(a.base # NULL /\ a.base <= c /\ c < a.base + Words(a)) => m2[c] = m[c]
    PROVE  Whole(m2, r)
<1>1. r.base \in Nat /\ r.width \in Nat /\ Len(r.elems) \in Nat
  BY LenProperties DEF Settled
<1>2. CASE Len(r.elems) = 0
  BY <1>1, <1>2 DEF Whole
<1>3. CASE Len(r.elems) >= 1
  <2>1. /\ r.base # NULL /\ r.base + Extent(r) <= 1 + used
        /\ a.base # NULL => r.base + Extent(r) <= a.base \/ a.base + Words(a) <= r.base
    BY <1>3 DEF Settled, Apart
  <2>2. PICK e \in Nat : e = Extent(r)
    <3>1. r.width * Len(r.elems) \in Nat
      BY <1>1
    <3> QED BY <3>1 DEF Extent
  <2>3. ASSUME NEW c \in Nat, r.base <= c, c < r.base + Extent(r) PROVE m2[c] = m[c]
    <3>1. c \in 1 .. Capacity + 2 /\ c <= used
      BY <1>1, <2>1, <2>2, <2>3, Bounds DEF NULL
    <3>2. ~(a.base # NULL /\ a.base <= c /\ c < a.base + Words(a))
      <4>1. a.base \in Nat
        BY DEF ArrayRec
      <4> QED BY <1>1, <2>1, <2>2, <2>3, <4>1
    <3> QED BY <3>1, <3>2
  <2> QED BY <1>1, <2>3, WholeKept
<1> QED BY <1>1, <1>2, <1>3

\* The elements of an array under construction, as a record.
LEMMA RecordIs ==
    ASSUME NEW a \in ArrayRec, NEW used, a.elems \in Seq(Nat), a.base # NULL,
           Words(a) \in Nat, Extent(Record(a)) \in Nat, used \in Nat,
           Extent(Record(a)) <= Words(a), a.base + Words(a) <= 1 + used
    PROVE  Settled(Record(a), used) /\ Len(Record(a).elems) \in Nat
<1>1. a.base \in Nat /\ Width(a.kind) \in Nat
  BY WidthIs DEF ArrayRec
<1>2. a.base + Extent(Record(a)) <= 1 + used
  BY <1>1
<1>3. PICK r : r = Record(a)
  OBVIOUS
<1>4. r.base = a.base /\ r.width = Width(a.kind) /\ r.elems = a.elems
  BY <1>3 DEF Record
<1> QED BY <1>1, <1>2, <1>3, <1>4, LenProperties DEF Settled
-----------------------------------------------------------------------------
\* The innermost array becomes x; only its block, or words above the top, changed.
LEMMA ContentReplaced ==
    ASSUME "tuple" \notin Constructs,
           NEW s, NEW used \in 0 .. Capacity, NEW n \in 0 .. MaxStored, Stacked(s, used, n),
           s # << >>, NEW m, NEW F, Content(m, used, s, F),
           NEW a, a = s[Len(s)],
           NEW m2, NEW u \in used .. Capacity, NEW x \in ArrayRec,
           \A c \in 1 .. Capacity + 2 :
              c <= used /\ ~(a.base # NULL /\ a.base <= c /\ c < a.base + Words(a)) => m2[c] = m[c],
           Fresh(m2, u),
           x.base # NULL =>
              /\ Doubled(x) /\ Whole(m2, Record(x))
              /\ (a.base # NULL /\ x.base = a.base /\ Words(x) = Words(a)) \/ x.base = 1 + used
    PROVE  Content(m2, u, Append(SubSeq(s, 1, Len(s) - 1), x), F)
<1>1. /\ s \in Seq(ArrayRec) /\ Len(s) \in Nat /\ Len(s) >= 1 /\ Len(s) \in 1 .. Len(s)
  BY FrontIs DEF Stacked
<1>2. PICK t : t = Append(SubSeq(s, 1, Len(s) - 1), x)
  OBVIOUS
<1>3. /\ Len(t) = Len(s) /\ t[Len(s)] = x
      /\ \A i \in 1 .. Len(s) - 1 : t[i] = s[i]
  <2>1. PICK f \in Seq(ArrayRec) : /\ f = SubSeq(s, 1, Len(s) - 1) /\ Len(f) = Len(s) - 1
                                   /\ \A i \in 1 .. Len(s) - 1 : f[i] = s[i]
    BY <1>1, FrontIs
  <2>2. /\ Len(Append(f, x)) = Len(f) + 1 /\ Append(f, x)[Len(f) + 1] = x
        /\ \A i \in 1 .. Len(f) : Append(f, x)[i] = f[i]
    BY AppendProperties
  <2>3. Len(f) + 1 = Len(s)
    BY <1>1, <2>1
  <2> QED BY <1>2, <2>1, <2>2, <2>3
<1>4. ASSUME NEW i \in 1 .. Len(t)
      PROVE  i = Len(s) \/ (i \in 1 .. Len(s) - 1 /\ i \in 1 .. Len(s) /\ i < Len(s))
  BY <1>1, <1>3
<1>5. used \in Nat /\ u \in Nat /\ used <= u /\ u <= Capacity
  BY Bounds
<1>6. /\ a \in ArrayRec /\ Words(a) \in Nat
      /\ a.base # NULL => a.base + Words(a) <= 1 + used
  <2>1. s[Len(s)] \in ArrayRec
    BY <1>1, BlockIs, Bounds
  <2>2. a.base # NULL => a.base + Words(a) <= 1 + used
    BY <1>1, ElemsInBlock
  <2> QED BY <2>1, <2>2, WordsIs
<1>7. ASSUME NEW f \in F
      PROVE  Settled(f, u) /\ Whole(m2, f) /\ \A i \in 1 .. Len(t) : Apart(f, t[i])
  <2>1. Settled(f, used) /\ Whole(m, f) /\ \A i \in 1 .. Len(s) : Apart(f, s[i])
    BY DEF Content
  <2>2. f.base \in Nat /\ f.width \in Nat /\ Len(f.elems) \in Nat /\ Extent(f) \in Nat
    <3>1. f.base \in Nat /\ f.width \in Nat /\ Len(f.elems) \in Nat
      BY <2>1, LenProperties DEF Settled
    <3>2. f.width * Len(f.elems) \in Nat
      BY <3>1
    <3> QED BY <3>1, <3>2 DEF Extent
  <2>3. Settled(f, u)
    BY <1>5, <2>1, <2>2 DEF Settled
  <2>4. Apart(f, a)
    BY <1>1, <2>1
  <2>5. Whole(m2, f)
    BY <1>6, <2>1, <2>4, ContentKept
  <2>6. Apart(f, x)
    BY <2>1, <2>2, <2>4 DEF Apart, Settled
  <2>7. \A i \in 1 .. Len(t) : Apart(f, t[i])
    BY <1>3, <1>4, <2>1, <2>6
  <2> QED BY <2>3, <2>5, <2>7
<1>8. ASSUME NEW i \in 1 .. Len(t), t[i].base # NULL
      PROVE  Doubled(t[i]) /\ Whole(m2, Record(t[i]))
  <2>1. CASE i = Len(s)
    BY <1>3, <1>8, <2>1
  <2>2. CASE i \in 1 .. Len(s) - 1 /\ i \in 1 .. Len(s) /\ i < Len(s)
    <3>1. PICK b : b = s[i]
      OBVIOUS
    <3>2. b = t[i] /\ b.base # NULL
      BY <1>3, <1>8, <2>2, <3>1
    <3>3. Doubled(b) /\ Whole(m, Record(b))
      BY <2>2, <3>1, <3>2 DEF Content
    <3>4. /\ b \in ArrayRec /\ b.elems \in Seq(Nat) /\ Words(b) \in Nat
          /\ Extent(Record(b)) \in Nat /\ Extent(Record(b)) <= Words(b)
          /\ b.base + Words(b) <= 1 + used
      <4>1. /\ s[i] \in ArrayRec /\ s[i].elems \in Seq(Nat)
            /\ s[i].base # NULL =>
                  /\ s[i].base + Words(s[i]) <= 1 + used
                  /\ Extent(Record(s[i])) <= Words(s[i])
                  /\ Extent(Record(s[i])) \in Nat /\ Words(s[i]) \in Nat
        BY <2>2, ElemsInBlock
      <4> QED BY <3>1, <3>2, <4>1
    <3>5. Settled(Record(b), used)
      BY <1>5, <3>2, <3>4, RecordIs
    <3>6. Apart(Record(b), a)
      <4>1. a.base # NULL => b.base + Words(b) <= a.base
        BY <1>1, <2>2, <3>1, <3>2 DEF Stacked
      <4>2. Record(b).base = b.base /\ b.base \in Nat /\ a.base \in Nat
        BY <1>6, <3>4 DEF Record, ArrayRec
      <4>3. a.base # NULL => b.base + Extent(Record(b)) <= a.base
        <5>1. Words(b) \in Nat /\ Extent(Record(b)) \in Nat /\ Extent(Record(b)) <= Words(b)
          BY <3>4
        <5> QED BY <4>1, <4>2, <5>1
      <4> QED BY <4>2, <4>3 DEF Apart
    <3>7. Whole(m2, Record(b))
      BY <1>6, <3>3, <3>5, <3>6, ContentKept
    <3> QED BY <3>2, <3>3, <3>7
  <2> QED BY <1>4, <2>1, <2>2
<1>9. Content(m2, u, t, F)
  BY <1>7, <1>8 DEF Content
<1> QED BY <1>2, <1>9

\* An array begins without a block.
LEMMA ContentPushed ==
    ASSUME NEW s \in Seq(ArrayRec), NEW x \in ArrayRec, x.base = NULL,
           NEW m, NEW used, NEW F, Content(m, used, s, F)
    PROVE  Content(m, used, Append(s, x), F)
<1>1. PICK t : t = Append(s, x)
  OBVIOUS
<1>2. Len(t) = Len(s) + 1 /\ t[Len(s) + 1] = x /\ \A i \in 1 .. Len(s) : t[i] = s[i]
  BY <1>1, AppendProperties
<1>3. \A i \in 1 .. Len(t) : i \in 1 .. Len(s) \/ t[i] = x
  <2>1. Len(s) \in Nat
    BY LenProperties
  <2> QED BY <1>2, <2>1
<1>4. \A f \in F : \A i \in 1 .. Len(t) : Apart(f, t[i])
  <2> SUFFICES ASSUME NEW f \in F, NEW i \in 1 .. Len(t) PROVE Apart(f, t[i])
    OBVIOUS
  <2>1. CASE i \in 1 .. Len(s)
    BY <1>2, <2>1 DEF Content
  <2>2. CASE t[i] = x
    BY <2>2 DEF Apart
  <2> QED BY <1>3, <2>1, <2>2
<1>5. \A i \in 1 .. Len(t) : t[i].base # NULL => Doubled(t[i]) /\ Whole(m, Record(t[i]))
  BY <1>2, <1>3 DEF Content
<1> QED BY <1>1, <1>4, <1>5 DEF Content

\* One of the arrays under construction ends, and the AST points to it.
LEMMA ContentPopped ==
    ASSUME "tuple" \notin Constructs,
           NEW s, NEW used \in 0 .. Capacity, NEW n \in 0 .. MaxStored, Stacked(s, used, n),
           s # << >>, ~Pending(s[Len(s)]),
           NEW m, NEW F, Content(m, used, s, F)
    PROVE  Content(m, used, SubSeq(s, 1, Len(s) - 1), F \cup {Record(s[Len(s)])})
<1>1. /\ s \in Seq(ArrayRec) /\ Len(s) \in Nat /\ Len(s) >= 1 /\ Len(s) \in 1 .. Len(s)
  BY FrontIs DEF Stacked
<1>2. PICK t : t = SubSeq(s, 1, Len(s) - 1)
  OBVIOUS
<1>3. /\ Len(t) = Len(s) - 1
      /\ \A i \in 1 .. Len(t) : i \in 1 .. Len(s) /\ t[i] = s[i] /\ i < Len(s)
  <2>1. /\ Len(t) = Len(s) - 1
        /\ \A i \in 1 .. Len(s) - 1 : t[i] = s[i]
    BY <1>1, <1>2, FrontIs
  <2>2. \A i \in 1 .. Len(t) : i \in 1 .. Len(s) /\ i < Len(s) /\ i \in 1 .. Len(s) - 1
    BY <1>1, <2>1
  <2> QED BY <2>1, <2>2
<1>4. PICK a \in ArrayRec : a = s[Len(s)]
  BY <1>1, ElemsInBlock
<1>5. /\ a.elems \in Seq(Nat) /\ Len(a.elems) \in Nat /\ a.base \in Nat /\ used \in Nat
      /\ a.base = NULL => Len(a.elems) = 0
      /\ a.base # NULL =>
            /\ a.base + Words(a) <= 1 + used /\ Words(a) \in Nat
            /\ Extent(Record(a)) <= Words(a) /\ Extent(Record(a)) \in Nat
  <2>1. a.base \in Nat /\ used \in Nat
    BY <1>4, Bounds DEF ArrayRec
  <2> QED BY <1>1, <1>4, <2>1, ElemsInBlock, SMTT(30)
<1>6. PICK f : f = Record(a)
  OBVIOUS
<1>7. f.base = a.base /\ f.width = Width(a.kind) /\ f.elems = a.elems /\ f.width \in Nat
  BY <1>6, WidthIs DEF Record
<1>8. CASE a.base = NULL
  <2>1. Len(f.elems) = 0
    BY <1>4, <1>5, <1>7, <1>8
  <2>2. Settled(f, used) /\ Whole(m, f) /\ \A i \in 1 .. Len(t) : Apart(f, t[i])
    BY <1>5, <1>7, <2>1 DEF Settled, Whole, Apart
  <2>3. Content(m, used, t, F \cup {f})
    BY <1>3, <2>2 DEF Content
  <2> QED BY <1>2, <1>4, <1>6, <2>3
<1>9. CASE a.base # NULL
  <2>1. Settled(f, used)
    BY <1>5, <1>6, <1>9, RecordIs
  <2>2. Whole(m, f)
    BY <1>1, <1>4, <1>6, <1>9 DEF Content
  <2>3. ASSUME NEW i \in 1 .. Len(t) PROVE Apart(f, t[i])
    <3>1. t[i].base # NULL => t[i].base + Words(t[i]) <= a.base
      BY <1>1, <1>3, <1>4, <1>9 DEF Stacked
    <3> QED BY <1>7, <3>1 DEF Apart
  <2>4. Content(m, used, t, F \cup {f})
    BY <1>3, <2>1, <2>2, <2>3 DEF Content
  <2> QED BY <1>2, <1>4, <1>6, <2>4
<1> QED BY <1>8, <1>9
-----------------------------------------------------------------------------
\* What realloc_array makes of the innermost array, asked for one element more.
LEMMA GrownArrayIs ==
    ASSUME Shape, open # << >>, NEW a \in ArrayRec, a = Inner, NEW c \in 1 .. MaxStored + 1,
           NEW g, Stays(arena, mem, a, c, g) \/ Moves(arena, mem, a, c, g)
    PROVE  /\ g.array \in ArrayRec /\ g.array.kind = a.kind /\ g.array.elems = a.elems
           /\ g.array.count = a.count /\ g.array.awaiting = a.awaiting
           /\ g.array.base \in Nat \ {0} /\ g.array.cap \in Nat
           /\ g.arena.used \in arena.used .. Capacity /\ g.arena.used \in Nat
           /\ g.array.base + Words(g.array) <= 1 + g.arena.used
           /\ Stays(arena, mem, a, c, g) =>
                 g.arena.used = arena.used /\ g.array.base = a.base /\ g.array.cap = a.cap
           /\ Moves(arena, mem, a, c, g) =>
                 g.array.base = 1 + arena.used /\ g.array.cap = 2 * c
<1>1. c \in 0 .. MaxStored + 1 /\ c # 0
  BY Bounds
<1>2. NextCapacity(c) = 2 * c /\ 2 * c \in Nat
  BY <1>1, NextCapacityIs
<1>3. arena.used \in Nat
  BY InnerIs
<1>4. PICK x : x = g.array
  OBVIOUS
<1>5. CASE Stays(arena, mem, a, c, g)
  <2>1. x = a
    BY <1>4, <1>5 DEF Stays
  <2>2. x \in ArrayRec /\ x.kind = a.kind /\ x.elems = a.elems /\ x.count = a.count
        /\ x.awaiting = a.awaiting /\ x.base = g.array.base /\ x.cap = g.array.cap
    BY <1>4, <2>1
  <2>3. ~Moves(arena, mem, a, c, g)
    BY <1>5 DEF Stays, Moves
  <2>4. /\ g.arena.used \in arena.used .. Capacity /\ g.arena.used \in Nat
        /\ x.base # NULL /\ x.base + Words(x) <= 1 + g.arena.used
        /\ g.arena.used = arena.used /\ x.base = a.base /\ x.cap = a.cap
    BY <1>1, <1>5, <2>2, GrowthFits
  <2>5. x.base \in Nat /\ x.cap \in Nat
    BY <2>2 DEF ArrayRec
  <2> QED BY <1>4, <2>2, <2>3, <2>4, <2>5 DEF NULL
<1>6. CASE Moves(arena, mem, a, c, g)
  <2>1. g.array = [a EXCEPT !.base = 1 + arena.used, !.cap = 2 * c]
    BY <1>2, <1>6 DEF Moves
  <2>2. x \in ArrayRec /\ x.kind = a.kind /\ x.elems = a.elems /\ x.count = a.count
        /\ x.awaiting = a.awaiting /\ x.base = 1 + arena.used /\ x.cap = 2 * c
    <3>1. /\ x.kind = a.kind /\ x.elems = a.elems /\ x.count = a.count
          /\ x.awaiting = a.awaiting /\ x.base = 1 + arena.used /\ x.cap = 2 * c
      BY <1>4, <2>1 DEF ArrayRec
    <3>2. 1 + arena.used \in Nat
      BY <1>3
    <3>3. x \in ArrayRec
      BY <1>2, <1>4, <2>1, <3>2 DEF ArrayRec
    <3> QED BY <3>1, <3>3
  <2>3. x.base = g.array.base /\ x.cap = g.array.cap
    BY <1>4
  <2>4. ~Stays(arena, mem, a, c, g)
    BY <1>6 DEF Stays, Moves
  <2>5. /\ g.arena.used \in arena.used .. Capacity /\ g.arena.used \in Nat
        /\ x.base # NULL /\ x.base + Words(x) <= 1 + g.arena.used
    BY <1>1, <1>6, <2>2, <2>3, GrowthFits
  <2>6. x.base \in Nat \ {0} /\ x.cap \in Nat
    BY <2>2, <2>5 DEF ArrayRec, NULL
  <2> QED BY <1>4, <2>2, <2>4, <2>5, <2>6
<1> QED BY <1>5, <1>6

\* It keeps its capacity rule: in place it has two elements at most.
LEMMA GrownCapacity ==
    ASSUME Shape, open # << >>, "tuple" \notin Constructs, NEW a \in ArrayRec, a = Inner,
           a.base # NULL => Doubled(a), Reach(a) = a.count,
           NEW c \in 1 .. MaxStored + 1, c = a.count + 1,
           NEW g, Stays(arena, mem, a, c, g) \/ Moves(arena, mem, a, c, g)
    PROVE  g.array.cap = 2 * c \/ (g.array.cap = 2 /\ c = 2)
<1>1. CASE Moves(arena, mem, a, c, g)
  BY <1>1, GrownArrayIs
<1>2. CASE Stays(arena, mem, a, c, g)
  <2>1. EndsAt(a, c, arena.used) /\ g.array.cap = a.cap
    BY <1>2, GrownArrayIs DEF Stays
  <2>2. a.base # NULL /\ a.base + Width(a.kind) * c = 1 + arena.used
    BY <2>1 DEF EndsAt
  <2>3. /\ Fits(a, arena.used, stored) /\ Room(a) /\ arena.used \in Nat
        /\ a.base \in Nat /\ a.cap \in Nat /\ a.count \in Nat /\ c \in Nat /\ c \in 0 .. MaxStored + 1
    BY InnerIs, Bounds DEF ArrayRec
  <2>4. a.count <= a.cap
    BY <2>2, <2>3 DEF Room
  <2>5. c = a.cap
    <3>1. CASE a.kind = "params"
      <4>1. a.base + Words(a) = 1 + arena.used
        BY <2>2, <2>3, <3>1 DEF Fits
      <4>2. PICK w \in Nat \ {0} : w = Width(a.kind)
        BY WidthIs
      <4>3. a.base + w * a.cap = a.base + w * c
        BY <2>2, <4>1, <4>2 DEF Words
      <4>4. w * a.cap \in Nat /\ w * c \in Nat
        BY <2>3
      <4>5. PICK y \in Nat, z \in Nat : y = w * a.cap /\ z = w * c
        BY <4>4
      <4>6. a.base + y = a.base + z
        BY <4>3, <4>5
      <4>7. y = z
        BY <2>3, <4>6
      <4> QED BY <2>3, <4>5, <4>7, TimesCancel
    <3>2. CASE a.kind # "params"
      <4>1. c <= a.cap + 1
        BY <2>3, <2>4
      <4>2. c <= a.cap
        BY <2>1, <2>3, <3>2, <4>1, InPlaceFits
      <4>3. Words(a) = a.cap /\ Width(a.kind) = 1
        BY <3>2, WordsIs DEF Width
      <4>4. a.base + Words(a) <= 1 + arena.used
        BY <2>2, InnerIs
      <4> QED BY <2>2, <2>3, <4>2, <4>3, <4>4
    <3> QED BY <3>1, <3>2
  <2>6. a.cap = 2 * a.count \/ (a.cap = 2 /\ a.count = 2)
    BY <2>2 DEF Doubled
  <2> QED BY <2>1, <2>3, <2>5, <2>6
<1> QED BY <1>1, <1>2

\* The words of a copy, one by one.
LEMMA CopiedWords ==
    ASSUME NEW m \in Mems, NEW dest \in Nat \ {0}, NEW src \in Nat \ {0}, NEW n \in Nat,
           src <= dest, n = 0 \/ dest + 2 * n <= Capacity + 1,
           NEW m2, m2 = MemCpy(m, dest, src, n), NEW k \in 1 .. Capacity + 2
    PROVE  /\ k < dest \/ k >= dest + n => m2[k] = m[k]
           /\ k >= dest /\ k < dest + n /\ src + n <= dest => m2[k] = m[src + (k - dest)]
           /\ k >= dest /\ k < dest + n /\ src < dest /\ dest < src + n
                 /\ (\A x \in src + n .. Capacity + 2 : m[x] = 0) => m2[k] = 0
<1>1. k \in Nat /\ Capacity + 2 \in Nat
  BY Bounds
<1>2. ASSUME k < dest \/ k >= dest + n PROVE m2[k] = m[k]
  <2>1. k \notin dest .. dest + n - 1
    BY <1>1, <1>2
  <2>2. MemCpy(m, dest, src, n)[k] = m[k]
    BY <2>1, CopyIs
  <2> QED BY <2>2
<1>3. ASSUME k >= dest, k < dest + n
      PROVE  /\ src + n <= dest => m2[k] = m[src + (k - dest)]
             /\ src < dest /\ dest < src + n /\ (\A x \in src + n .. Capacity + 2 : m[x] = 0)
                   => m2[k] = 0
  <2>1. k \in dest .. dest + n - 1
    BY <1>1, <1>3
  <2>2. src + n <= dest => MemCpy(m, dest, src, n)[k] = m[src + (k - dest)]
    BY <2>1, CopyIs
  <2>3. src < dest /\ dest < src + n /\ (\A x \in src + n .. Capacity + 2 : m[x] = 0)
           => MemCpy(m, dest, src, n)[k] = 0
    BY <2>1, CopyIs
  <2> QED BY <2>2, <2>3
<1> QED BY <1>2, <1>3

\* What is copied upwards is a copy of the elements; or, when the blocks overlap,
\* zeros from above the top in the place of the two elements there are.
LEMMA GrowthKeepsWords ==
    ASSUME Shape, open # << >>, "tuple" \notin Constructs, Fresh(mem, arena.used),
           NEW a \in ArrayRec, a = Inner, Reach(a) = a.count,
           a.base = NULL => a.count = 0,
           a.base # NULL => Doubled(a) /\ Whole(mem, Record(a)),
           NEW c \in 1 .. MaxStored + 1, c = a.count + 1,
           NEW g, g.mem \in Mems, Stays(arena, mem, a, c, g) \/ Moves(arena, mem, a, c, g)
    PROVE  /\ \A k \in 1 .. Capacity + 2 : k <= arena.used => g.mem[k] = mem[k]
           /\ Fresh(g.mem, g.arena.used)
           /\ Whole(g.mem, [base |-> g.array.base, width |-> Width(a.kind), elems |-> a.elems])
<1>1. PICK used \in Nat : used = arena.used
  BY InnerIs
<1>2. /\ Fits(a, used, stored) /\ Room(a) /\ a.count \in Nat /\ a.cap \in Nat /\ a.base \in Nat
      /\ Words(a) \in Nat /\ Capacity \in Nat /\ used <= Capacity
      /\ a.base # NULL => a.base + Words(a) <= 1 + used
  BY <1>1, InnerIs, WordsIs, Bounds DEF ArrayRec
<1>3. a.count = Len(a.elems) /\ Len(a.elems) \in Nat
  <2>1. a.kind \notin Tuples
    BY <1>2 DEF Room
  <2> QED BY <1>2, <2>1, CountIs
<1>4. PICK r : r = [base |-> g.array.base, width |-> Width(a.kind), elems |-> a.elems]
  OBVIOUS
<1>5. r.base = g.array.base /\ r.width = Width(a.kind) /\ r.elems = a.elems
  BY <1>4
<1>6. /\ g.array.base \in Nat \ {0} /\ g.array.cap \in Nat
      /\ g.arena.used \in used .. Capacity /\ g.arena.used \in Nat /\ used <= g.arena.used
      /\ g.array.base + Words(g.array) <= 1 + g.arena.used /\ g.array.kind = a.kind
  BY <1>1, GrownArrayIs
<1>7. CASE Stays(arena, mem, a, c, g)
  <2>1. g.mem = mem /\ g.array.base = a.base /\ g.arena.used = used /\ a.base # NULL
    BY <1>1, <1>6, <1>7, GrownArrayIs DEF Stays, NULL
  <2>2. r = Record(a)
    BY <1>4, <2>1 DEF Record
  <2> QED BY <1>1, <1>4, <2>1, <2>2
<1>8. CASE Moves(arena, mem, a, c, g)
  <2>1. PICK w \in Nat \ {0} : w = Width(a.kind)
    BY WidthIs
  <2>2. PICK n \in Nat : n = w * c
    <3>1. c \in Nat
      OBVIOUS
    <3> QED BY <2>1, <3>1
  <2>d. PICK d \in Nat \ {0} : d = 1 + used
    OBVIOUS
  <2>3. /\ g.array.base = d /\ g.array.cap = 2 * c
        /\ g.mem = MemCpy(mem, d, a.base, n)
    <3>1. g.array.base = d /\ g.array.cap = 2 * c
      BY <1>1, <1>8, <2>d, GrownArrayIs
    <3>2. g.mem = MemCpy(mem, 1 + arena.used, a.base, Width(a.kind) * c)
      BY <1>8 DEF Moves
    <3> QED BY <1>1, <2>1, <2>2, <2>d, <3>1, <3>2
  <2>4. Words(g.array) = 2 * n
    <3>1. Words(g.array) = w * (2 * c)
      BY <1>6, <2>1, <2>3 DEF Words
    <3>2. w * (2 * c) = 2 * (w * c)
      OBVIOUS
    <3> QED BY <2>2, <3>1, <3>2
  <2>5. d + 2 * n <= Capacity + 1 /\ d + 2 * n <= 1 + g.arena.used
    <3>1. d + 2 * n <= 1 + g.arena.used
      BY <1>6, <2>3, <2>4
    <3>2. g.arena.used <= Capacity
      BY <1>2, <1>6
    <3> QED BY <1>2, <1>6, <3>1, <3>2
  <2>6. CASE a.base = NULL
    <3>1. g.mem = mem
      BY <2>3, <2>6 DEF MemCpy
    <3>2. Len(r.elems) = 0
      BY <1>3, <1>5, <2>6
    <3>3. Whole(g.mem, r)
      BY <3>2 DEF Whole
    <3>4. Fresh(g.mem, g.arena.used)
      BY <1>1, <1>6, <3>1, Bounds DEF Fresh
    <3> QED BY <1>4, <3>1, <3>3, <3>4
  <2>7. CASE a.base # NULL
    <3>1. /\ a.base \in Nat \ {0} /\ a.base <= d
          /\ mem \in Mems /\ a.base + Words(a) <= d
      BY <1>2, <2>7, <2>d DEF Shape, NULL
    <3>2. ASSUME NEW k \in 1 .. Capacity + 2
          PROVE  /\ k < d \/ k >= d + n => g.mem[k] = mem[k]
                 /\ k >= d /\ k < d + n /\ a.base + n <= d => g.mem[k] = mem[a.base + (k - d)]
                 /\ k >= d /\ k < d + n /\ a.base < d /\ d < a.base + n
                       /\ (\A x \in a.base + n .. Capacity + 2 : mem[x] = 0) => g.mem[k] = 0
      <4>1. PICK src \in Nat \ {0} : src = a.base
        BY <3>1
      <4>2. mem \in Mems /\ src <= d /\ (n = 0 \/ d + 2 * n <= Capacity + 1)
        BY <2>5, <3>1, <4>1
      <4>3. PICK m2 : m2 = MemCpy(mem, d, src, n)
        OBVIOUS
      <4>4. g.mem = m2
        BY <2>3, <4>1, <4>3
      <4>5. /\ k < d \/ k >= d + n => m2[k] = mem[k]
            /\ k >= d /\ k < d + n /\ src + n <= d => m2[k] = mem[src + (k - d)]
            /\ k >= d /\ k < d + n /\ src < d /\ d < src + n
                  /\ (\A x \in src + n .. Capacity + 2 : mem[x] = 0) => m2[k] = 0
        BY <4>2, <4>3, CopiedWords, SMTT(30)
      <4> QED BY <4>1, <4>4, <4>5
    <3>3. \A k \in 1 .. Capacity + 2 : k <= used => g.mem[k] = mem[k]
      <4> SUFFICES ASSUME NEW k \in 1 .. Capacity + 2, k <= used PROVE g.mem[k] = mem[k]
        OBVIOUS
      <4>1. k < d
        BY <2>d
      <4> QED BY <3>2, <4>1
    <3>4. Fresh(g.mem, g.arena.used)
      <4> SUFFICES ASSUME NEW k \in 1 .. Capacity + 2, k > g.arena.used PROVE g.mem[k] = 0
        BY DEF Fresh
      <4>1. k >= d + n
        BY <1>6, <2>d, <2>5
      <4>2. mem[k] = 0
        <5>1. k > arena.used
          BY <1>1, <1>6
        <5> QED BY <5>1 DEF Fresh
      <4> QED BY <3>2, <4>1, <4>2
    <3>e. PICK q \in Nat : q = w * a.count
      BY <1>2
    <3>5. n = q + w
      <4>1. n = w * (a.count + 1)
        BY <2>2
      <4>2. w * (a.count + 1) = w * a.count + w
        BY <1>2
      <4> QED BY <3>e, <4>1, <4>2
    <3>6. Extent(r) = q /\ Extent(Record(a)) = q
      BY <1>3, <1>5, <2>1, <3>e DEF Extent, Record
    <3>7. CASE a.base + n <= d
      <4> SUFFICES Whole(g.mem, r)
        BY <1>1, <1>4, <3>3, <3>4
      <4> SUFFICES ASSUME NEW i \in 1 .. Len(r.elems), NEW k \in CellsOf(r, i)
                   PROVE  g.mem[k] \in {0, r.elems[i]} /\ (i > 2 => g.mem[k] = r.elems[i])
        BY DEF Whole
      <4>1. /\ r.base \in Nat /\ r.width \in Nat /\ Len(r.elems) \in Nat /\ r.base = d
            /\ r.width = w /\ r.elems = a.elems
        BY <1>3, <1>5, <2>1, <2>3, <3>1
      <4>2. k \in Nat /\ d <= k /\ k < d + q
        BY <3>6, <4>1, CellsIn
      <4>3. PICK h \in Nat : h = a.base + (k - d)
        BY <3>1, <4>2
      <4>4. g.mem[k] = mem[h]
        <5>1. k \in 1 .. Capacity + 2 /\ k >= d /\ k < d + n
          <6>1. Capacity \in Nat /\ d + 2 * n <= Capacity + 1
            BY <1>2, <2>5
          <6>2. k >= d /\ k < d + n
            BY <3>5, <4>2
          <6> QED BY <4>2, <6>1, <6>2
        <5> QED BY <3>2, <3>7, <4>3, <5>1
      <4>5. h \in CellsOf(Record(a), i)
        <5>1. k \in d + (i - 1) * w .. d + i * w - 1
          BY <4>1 DEF CellsOf
        <5>2. CellsOf(Record(a), i) = a.base + (i - 1) * w .. a.base + i * w - 1
          BY <2>1 DEF CellsOf, Record
        <5>3. (i - 1) * w \in Nat /\ i * w \in Nat
          <6>1. i - 1 \in Nat /\ i \in Nat
            BY <1>3, <1>5
          <6> QED BY <6>1
        <5>4. PICK y \in Nat, z \in Nat : y = (i - 1) * w /\ z = i * w
          BY <5>3
        <5>5. k \in d + y .. d + z - 1
          BY <5>1, <5>4
        <5>6. h \in a.base + y .. a.base + z - 1
          BY <3>1, <4>3, <5>5
        <5> QED BY <5>2, <5>4, <5>6
      <4>6. Record(a).elems = a.elems
        BY DEF Record
      <4>7. mem[h] \in {0, a.elems[i]} /\ (i > 2 => mem[h] = a.elems[i])
        BY <2>7, <4>1, <4>5, <4>6 DEF Whole
      <4> QED BY <4>1, <4>4, <4>7
    <3>8. CASE ~(a.base + n <= d)
      <4>1. a.count <= a.cap
        BY <1>2, <2>7 DEF Room
      <4>2. Words(a) = w * a.cap
        BY <2>1 DEF Words
      <4>3. ~(c <= a.cap)
        <5> SUFFICES ASSUME c <= a.cap PROVE FALSE
          OBVIOUS
        <5>1. w * c <= w * a.cap
          BY <1>2, TimesMonotone
        <5>2. n <= Words(a)
          BY <2>2, <4>2, <5>1
        <5> QED BY <1>2, <3>1, <3>8, <5>2
      <4>4. a.count = 2
        <5>1. a.cap = 2 * a.count \/ (a.cap = 2 /\ a.count = 2)
          BY <2>7 DEF Doubled
        <5>2. a.cap >= 1
          BY <1>2, <2>7 DEF Fits
        <5> QED BY <1>2, <4>1, <4>3, <5>1, <5>2
      <4>5. a.base < d /\ d < a.base + n
        <5>1. Words(a) >= 1
          <6>1. a.cap >= 1
            BY <1>2, <2>7 DEF Fits
          <6> QED BY <6>1, WordsIs
        <5> QED BY <1>2, <3>1, <3>8, <5>1
      <4>6. ASSUME NEW k \in Nat, k >= d, k < d + n PROVE g.mem[k] = 0
        <5>0. k \in 1 .. Capacity + 2
          <6>1. Capacity \in Nat /\ d + 2 * n <= Capacity + 1
            BY <1>2, <2>5
          <6> QED BY <4>6, <6>1
        <5>1. ASSUME NEW x \in a.base + n .. Capacity + 2 PROVE mem[x] = 0
          <6>1. a.base + n \in Nat
            BY <1>2
          <6>2. x \in Nat /\ x >= a.base + n /\ x <= Capacity + 2
            BY <1>2, <6>1
          <6>3. x > 1 + used
            BY <2>d, <4>5, <6>1, <6>2
          <6>4. x \in 1 .. Capacity + 2
            BY <6>2, <6>3
          <6>5. x > arena.used
            BY <1>1, <6>2, <6>3
          <6> QED BY <6>4, <6>5 DEF Fresh
        <5> QED BY <3>2, <4>5, <4>6, <5>0, <5>1
      <4> SUFFICES Whole(g.mem, r)
        BY <1>1, <1>4, <3>3, <3>4
      <4> SUFFICES ASSUME NEW i \in 1 .. Len(r.elems), NEW k \in CellsOf(r, i)
                   PROVE  g.mem[k] \in {0, r.elems[i]} /\ (i > 2 => g.mem[k] = r.elems[i])
        BY DEF Whole
      <4>7. /\ r.base \in Nat /\ r.width \in Nat /\ Len(r.elems) \in Nat /\ r.base = d
        BY <1>3, <1>5, <2>1, <2>3, <3>1
      <4>8. k \in Nat /\ d <= k /\ k < d + q
        BY <3>6, <4>7, CellsIn
      <4>9. g.mem[k] = 0
        BY <3>5, <4>6, <4>8
      <4>10. ~(i > 2)
        BY <1>3, <1>5, <4>4
      <4> QED BY <4>9, <4>10
    <3> QED BY <3>7, <3>8
  <2> QED BY <2>6, <2>7
<1> QED BY <1>7, <1>8
-----------------------------------------------------------------------------
Held == Content(mem, arena.used, open, finished)

\* A step writes in the block of the innermost array or above the top.
OnlyInner ==
    \A c \in 1 .. Capacity + 2 :
        c <= arena.used /\ ~(Inner.base # NULL /\ Inner.base <= c /\ c < Inner.base + Words(Inner))
            => mem'[c] = mem[c]

\* The innermost array, as the steps need it.
LEMMA InnerHolds ==
    ASSUME Shape, Held, "tuple" \notin Constructs, open # << >>
    PROVE  /\ Inner \in ArrayRec /\ Inner = open[Len(open)] /\ Outer = SubSeq(open, 1, Len(open) - 1)
           /\ Fits(Inner, arena.used, stored) /\ Room(Inner) /\ Inner.kind \notin Tuples
           /\ Stacked(open, arena.used, stored) /\ mem \in Mems /\ open \in Seq(ArrayRec)
           /\ arena.used \in 0 .. Capacity /\ arena.used \in Nat
           /\ arena.used \in arena.used .. Capacity
           /\ stored \in 0 .. MaxStored /\ stored \in Nat
           /\ Inner.base \in Nat /\ Inner.count \in Nat /\ Inner.elems \in Seq(Nat)
           /\ Inner.count = Len(Inner.elems) /\ Inner.count <= stored
           /\ Inner.base = NULL /\ ~Pending(Inner) => Inner.count = 0
           /\ Fresh(mem, arena.used)
           /\ Inner.base # NULL =>
                 Doubled(Inner) /\ Whole(mem, Record(Inner)) /\ Reach(Inner) <= Inner.cap
<1>1. /\ Stacked(open, arena.used, stored) /\ arena.used \in 0 .. Capacity
      /\ arena.used \in Nat /\ arena.used \in arena.used .. Capacity
      /\ stored \in 0 .. MaxStored /\ stored \in Nat /\ mem \in Mems
      /\ open \in Seq(ArrayRec)
  BY Bounds DEF Shape, StackOK, Arenas, Stacked
<1>2. Len(open) \in 1 .. Len(open)
  BY <1>1, FrontIs
<1>3. /\ Inner \in ArrayRec /\ Inner = open[Len(open)] /\ Outer = SubSeq(open, 1, Len(open) - 1)
      /\ Fits(Inner, arena.used, stored) /\ Room(Inner)
  BY InnerIs
<1>4. PICK a \in ArrayRec : a = Inner
  BY <1>3
<1>5. /\ a.kind \notin Tuples /\ a.count = Len(a.elems) /\ a.elems \in Seq(Nat)
      /\ a.base = NULL /\ ~Pending(a) => Len(a.elems) = 0
      /\ a.base # NULL => Reach(a) <= a.cap
  BY <1>1, <1>2, <1>3, <1>4, ElemsInBlock
<1>6. a.count <= stored
  BY <1>3, <1>4, <1>5 DEF Fits
<1>7. a.base # NULL => Doubled(a) /\ Whole(mem, Record(a))
  BY <1>2, <1>3, <1>4 DEF Held, Content
<1>8. Fresh(mem, arena.used)
  BY DEF Held, Content
<1>9. a.base \in Nat /\ a.count \in Nat
  BY DEF ArrayRec
<1> QED BY <1>1, <1>3, <1>4, <1>5, <1>6, <1>7, <1>8, <1>9

\* The array that has stored one element more.
LEMMA StoredRecord ==
    ASSUME NEW a \in ArrayRec, NEW k \in Nat, NEW x, x = [Stored(a) EXCEPT !.count = k]
    PROVE  Record(x) = [base |-> a.base, width |-> Width(a.kind), elems |-> Append(a.elems, stored + 1)]
<1>1. PICK y : y = Stored(a)
  OBVIOUS
<1>2. y.base = a.base /\ y.kind = a.kind /\ y.elems = Append(a.elems, stored + 1)
  BY <1>1 DEF Stored, ArrayRec
<1>3. y \in [kind : {y.kind}, base : {y.base}, count : {y.count}, awaiting : {y.awaiting},
             cap : {y.cap}, elems : {y.elems}]
  BY <1>1 DEF Stored, ArrayRec
<1>4. x.base = y.base /\ x.kind = y.kind /\ x.elems = y.elems
  BY <1>1, <1>3
<1> QED BY <1>2, <1>4 DEF Record

\* A block has a place for the next element of its array.
HasPlace(m, a, u) ==
    /\ a.base \in Nat \ {0} /\ a.elems \in Seq(Nat) /\ a.count \in Nat /\ a.count = Len(a.elems)
    /\ a.base + Width(a.kind) * (a.count + 1) <= 1 + u
    /\ Fresh(m, u) /\ Whole(m, [base |-> a.base, width |-> Width(a.kind), elems |-> a.elems])

\* Storing it.
LEMMA PutKeeps ==
    ASSUME NEW m \in Mems, NEW a, NEW u \in 0 .. Capacity, HasPlace(m, a, u),
           stored \in 0 .. MaxStored, stored < MaxStored
    PROVE  \E m2 :
              /\ m2 = Put(m, a, a.count) /\ Fresh(m2, u)
              /\ Whole(m2, [base |-> a.base, width |-> Width(a.kind), elems |-> Append(a.elems, stored + 1)])
              /\ \A c \in 1 .. Capacity + 2 :
                    c < a.base \/ c >= a.base + Width(a.kind) * (a.count + 1) => m2[c] = m[c]
<1>a. /\ a.base \in Nat \ {0} /\ a.elems \in Seq(Nat) /\ a.count \in Nat /\ a.count = Len(a.elems)
      /\ a.base + Width(a.kind) * (a.count + 1) <= 1 + u
  BY DEF HasPlace
<1>b. Fresh(m, u) /\ Whole(m, [base |-> a.base, width |-> Width(a.kind), elems |-> a.elems])
  BY DEF HasPlace
<1>c. stored \in Nat
  BY Bounds
<1>d. PICK m2 : m2 = Put(m, a, a.count)
  OBVIOUS
<1>1. PICK w \in Nat \ {0} : w = Width(a.kind)
  BY WidthIs
<1>2. PICK l \in Nat : l = a.count
  BY <1>a
<1>3. PICK p \in Nat : p = w * l
  OBVIOUS
<1>4. PICK q \in Nat : q = p + w
  OBVIOUS
<1>5. w * (l + 1) = q
  <2>1. w * (l + 1) = w * l + w
    OBVIOUS
  <2> QED BY <1>3, <1>4, <2>1
<1>6. PICK b \in Nat \ {0} : b = a.base
  BY <1>a
<1>7. b + q <= 1 + u /\ u \in Nat /\ Capacity \in Nat /\ u <= Capacity
  BY <1>1, <1>2, <1>5, <1>6, <1>a, Bounds
<1>8. ASSUME NEW c \in 1 .. Capacity + 2
      PROVE  /\ c >= b + p /\ c < b + p + w => m2[c] = stored + 1
             /\ c < b + p \/ c >= b + p + w => m2[c] = m[c]
  <2>1. PICK v \in Vals : v = stored + 1
    <3>1. stored + 1 \in Vals
      BY Bounds DEF Vals
    <3> QED BY <3>1
  <2>2. PICK at \in Nat : at = b + p
    OBVIOUS
  <2>3. l * w = p
    BY <1>3
  <2>4. m2 = Fill(m, at, w, v)
    BY <1>1, <1>2, <1>6, <1>d, <2>1, <2>2, <2>3 DEF Put
  <2>5. Fill(m, at, w, v)[c] = IF c \in at .. at + w - 1 THEN v ELSE m[c]
    BY FillIs
  <2>6. c \in Nat
    BY <1>7
  <2>7. CASE c \in at .. at + w - 1
    <3>1. m2[c] = v
      BY <2>4, <2>5, <2>7
    <3> QED BY <2>1, <2>2, <2>6, <2>7, <3>1
  <2>8. CASE c \notin at .. at + w - 1
    <3>1. m2[c] = m[c]
      BY <2>4, <2>5, <2>8
    <3>2. ~(c >= at /\ c < at + w)
      BY <2>6, <2>8
    <3> QED BY <2>2, <3>1, <3>2
  <2> QED BY <2>7, <2>8
<1>9. Fresh(m2, u)
  <2> SUFFICES ASSUME NEW c \in 1 .. Capacity + 2, c > u PROVE m2[c] = 0
    BY DEF Fresh
  <2>1. c >= b + p + w
    BY <1>4, <1>7
  <2> QED BY <1>8, <1>b, <2>1 DEF Fresh
<1>10. \A c \in 1 .. Capacity + 2 : c < b \/ c >= b + q => m2[c] = m[c]
  <2> SUFFICES ASSUME NEW c \in 1 .. Capacity + 2, c < b \/ c >= b + q PROVE m2[c] = m[c]
    OBVIOUS
  <2>1. c < b + p \/ c >= b + p + w
    BY <1>4, <1>7
  <2> QED BY <1>8, <2>1
<1>11. \A c \in Nat : b <= c /\ c < b + p => m2[c] = m[c]
  <2> SUFFICES ASSUME NEW c \in Nat, b <= c, c < b + p PROVE m2[c] = m[c]
    OBVIOUS
  <2>1. c \in 1 .. Capacity + 2
    BY <1>4, <1>7
  <2> QED BY <1>8, <2>1
<1>12. \A c \in Nat : b + p <= c /\ c < b + p + w => m2[c] = stored + 1
  <2> SUFFICES ASSUME NEW c \in Nat, b + p <= c, c < b + p + w PROVE m2[c] = stored + 1
    OBVIOUS
  <2>1. c \in 1 .. Capacity + 2
    BY <1>4, <1>7
  <2> QED BY <1>8, <2>1
<1>13. PICK v \in Nat : v = stored + 1
  BY <1>c
<1>14. PICK r : r = [base |-> a.base, width |-> Width(a.kind), elems |-> a.elems]
  OBVIOUS
<1>15. PICK t : t = [base |-> a.base, width |-> Width(a.kind), elems |-> Append(a.elems, stored + 1)]
  OBVIOUS
<1>16. Whole(m2, t)
  <2>1. Whole(m, r) /\ r.base = b /\ r.width = w /\ r.elems = a.elems
    BY <1>1, <1>6, <1>14, <1>b
  <2>2. t.base = r.base /\ t.width = r.width /\ t.elems = Append(r.elems, v)
    BY <1>13, <1>14, <1>15
  <2>3. Extent(r) = p
    BY <1>2, <1>3, <1>a, <2>1 DEF Extent
  <2>4. r.base \in Nat /\ r.width \in Nat /\ r.elems \in Seq(Nat)
    BY <1>a, <2>1
  <2>5. Whole(m, r)
    BY <2>1
  <2>6. \A c \in Nat : r.base <= c /\ c < r.base + Extent(r) => m2[c] = m[c]
    BY <1>11, <2>1, <2>3
  <2>7. \A c \in Nat : r.base + Extent(r) <= c /\ c < r.base + Extent(r) + r.width => m2[c] = v
    BY <1>12, <1>13, <2>1, <2>3
  <2> QED BY <2>2, <2>4, <2>5, <2>6, <2>7, WholeWithOneMore
<1>17. \A c \in 1 .. Capacity + 2 :
          c < a.base \/ c >= a.base + Width(a.kind) * (a.count + 1) => m2[c] = m[c]
  BY <1>1, <1>2, <1>5, <1>6, <1>10
<1> QED BY <1>d, <1>9, <1>15, <1>16, <1>17
-----------------------------------------------------------------------------
\* Only words above the top are written, and the top moves up.
LEMMA ContentAbove ==
    ASSUME "tuple" \notin Constructs,
           NEW s, NEW used \in 0 .. Capacity, NEW n \in 0 .. MaxStored, Stacked(s, used, n),
           NEW m, NEW F, Content(m, used, s, F),
           NEW m2, NEW u \in used .. Capacity, Fresh(m2, u),
           \A c \in 1 .. Capacity + 2 : c <= used => m2[c] = m[c]
    PROVE  Content(m2, u, s, F)
<1>1. used \in Nat /\ u \in Nat /\ used <= u /\ u <= Capacity /\ Capacity \in Nat
  BY Bounds
<1>2. ASSUME NEW r, Settled(r, used), Whole(m, r) PROVE Settled(r, u) /\ Whole(m2, r)
  <2>1. r.base \in Nat /\ r.width \in Nat /\ r.elems \in Seq(Nat) /\ Len(r.elems) \in Nat
    BY <1>2, LenProperties DEF Settled
  <2>2. PICK e \in Nat : e = Extent(r)
    <3>1. r.width * Len(r.elems) \in Nat
      BY <2>1
    <3> QED BY <3>1 DEF Extent
  <2>3. Len(r.elems) >= 1 => r.base # NULL /\ r.base + e <= 1 + used
    BY <1>2, <2>2 DEF Settled
  <2>4. Settled(r, u)
    BY <1>1, <2>1, <2>2, <2>3 DEF Settled
  <2>5. CASE Len(r.elems) = 0
    <3>1. Whole(m2, r)
      BY <2>5 DEF Whole
    <3> QED BY <2>4, <3>1
  <2>6. CASE Len(r.elems) >= 1
    <3>1. ASSUME NEW c \in Nat, r.base <= c, c < r.base + Extent(r) PROVE m2[c] = m[c]
      <4>1. c \in 1 .. Capacity + 2 /\ c <= used
        BY <1>1, <2>1, <2>2, <2>3, <2>6, <3>1 DEF NULL
      <4> QED BY <4>1
    <3>2. Whole(m2, r)
      BY <1>2, <2>1, <3>1, WholeKept
    <3> QED BY <2>4, <3>2
  <2> QED BY <2>1, <2>5, <2>6
<1>3. \A f \in F : Settled(f, u) /\ Whole(m2, f) /\ \A i \in 1 .. Len(s) : Apart(f, s[i])
  <2> SUFFICES ASSUME NEW f \in F
               PROVE  Settled(f, u) /\ Whole(m2, f) /\ \A i \in 1 .. Len(s) : Apart(f, s[i])
    OBVIOUS
  <2>1. Settled(f, used) /\ Whole(m, f) /\ \A i \in 1 .. Len(s) : Apart(f, s[i])
    BY DEF Content
  <2>2. Settled(f, u) /\ Whole(m2, f)
    BY <1>2, <2>1
  <2> QED BY <2>1, <2>2
<1>4. ASSUME NEW i \in 1 .. Len(s), s[i].base # NULL
      PROVE  Doubled(s[i]) /\ Whole(m2, Record(s[i]))
  <2>1. Doubled(s[i]) /\ Whole(m, Record(s[i]))
    BY <1>4 DEF Content
  <2>2. /\ s[i] \in ArrayRec /\ s[i].elems \in Seq(Nat)
        /\ s[i].base + Words(s[i]) <= 1 + used
        /\ Extent(Record(s[i])) <= Words(s[i])
        /\ Extent(Record(s[i])) \in Nat /\ Words(s[i]) \in Nat
    BY <1>4, ElemsInBlock
  <2>3. Settled(Record(s[i]), used)
    BY <1>1, <1>4, <2>2, RecordIs
  <2>4. Whole(m2, Record(s[i]))
    BY <1>2, <2>1, <2>3
  <2> QED BY <2>1, <2>4
<1> QED BY <1>3, <1>4 DEF Content

\* A structure is allocated behind all arrays, and the AST points to it.
LEMMA ContentFinish ==
    ASSUME NEW s, NEW m, NEW u, NEW F, Content(m, u, s, F),
           NEW f, Settled(f, u), Whole(m, f), \A i \in 1 .. Len(s) : Apart(f, s[i])
    PROVE  Content(m, u, s, F \cup {f})
BY DEF Content

\* A block, a list or the parameters of a function begin inside the innermost array.
LEMMA ContentNested ==
    ASSUME Shape, Held, "tuple" \notin Constructs, open # << >>,
           Inner.kind = "stmts" \/ Inner.awaiting, NEW kind \in Kinds \ Tuples
    PROVE  Content(mem, arena.used, Nest(Array(kind)), finished)
<1>1. PICK a \in ArrayRec : a = Inner
  BY InnerHolds
<1>2. PICK x : x = [Inner EXCEPT !.awaiting = TRUE]
  OBVIOUS
<1>3. /\ x \in ArrayRec /\ x.kind = a.kind /\ x.base = a.base /\ x.count = a.count
      /\ x.cap = a.cap /\ x.elems = a.elems /\ x.awaiting = TRUE
  BY <1>1, <1>2 DEF ArrayRec
<1>4. a.kind \notin Tuples /\ (a.kind = "stmts" \/ a.awaiting)
  BY <1>1, InnerHolds
<1>5. Reach(x) = Reach(a) /\ Words(x) = Words(a) /\ Record(x) = Record(a)
  BY <1>3, <1>4 DEF Reach, Words, Record, Tuples
<1>6. x.base # NULL =>
         /\ Doubled(x) /\ Whole(mem, Record(x))
         /\ (a.base # NULL /\ x.base = a.base /\ Words(x) = Words(a)) \/ x.base = 1 + arena.used
  <2>1. a.base # NULL => Doubled(a) /\ Whole(mem, Record(a))
    BY <1>1, InnerHolds
  <2>2. a.base # NULL => Doubled(x)
    BY <1>3, <1>5, <2>1 DEF Doubled
  <2> QED BY <1>3, <1>5, <2>1, <2>2
<1>7. /\ Stacked(open, arena.used, stored) /\ arena.used \in 0 .. Capacity
      /\ arena.used \in arena.used .. Capacity /\ stored \in 0 .. MaxStored
      /\ Inner = open[Len(open)] /\ Outer = SubSeq(open, 1, Len(open) - 1)
      /\ Fresh(mem, arena.used) /\ open \in Seq(ArrayRec)
  BY InnerHolds
<1>8. Content(mem, arena.used, Append(Outer, x), finished)
  BY <1>1, <1>3, <1>6, <1>7, ContentReplaced DEF Held
<1>9. Append(Outer, x) \in Seq(ArrayRec)
  <2>1. Outer \in Seq(ArrayRec)
    BY <1>7, FrontIs
  <2> QED BY <1>3, <2>1, AppendProperties
<1>10. Array(kind) \in ArrayRec /\ Array(kind).base = NULL
  <2>1. 0 \in 0 .. Capacity /\ 0 \in Nat
    BY Bounds
  <2> QED BY <2>1, NewArray
<1>11. Content(mem, arena.used, Append(Append(Outer, x), Array(kind)), finished)
  BY <1>8, <1>9, <1>10, ContentPushed
<1> QED BY <1>2, <1>11 DEF Nest
-----------------------------------------------------------------------------
LEMMA UntouchedMemory == ASSUME mem' = mem PROVE OnlyInner
BY DEF OnlyInner

LEMMA OpenListHolds ==
    ASSUME Shape, Held, "tuple" \notin Constructs, OpenList
    PROVE  Held' /\ OnlyInner
<1>1. /\ open # << >> /\ (Inner.kind = "stmts" \/ Inner.awaiting)
      /\ open' = Nest(Array("list")) /\ UNCHANGED <<arena, mem, finished>>
  BY DEF OpenList, InExpression, Running
<1>2. "list" \in Kinds \ Tuples
  BY DEF Kinds, Tuples
<1>3. Content(mem, arena.used, open', finished)
  BY <1>1, <1>2, ContentNested
<1> QED BY <1>1, <1>3, UntouchedMemory DEF Held

LEMMA OpenBlockHolds ==
    ASSUME Shape, Held, "tuple" \notin Constructs, OpenBlock
    PROVE  Held' /\ OnlyInner
<1>1. /\ open # << >> /\ (Inner.kind = "stmts" \/ Inner.awaiting)
      /\ open' = Nest(Array("stmts")) /\ UNCHANGED <<arena, mem, finished>>
  BY DEF OpenBlock, InExpression, Running
<1>2. "stmts" \in Kinds \ Tuples
  BY DEF Kinds, Tuples
<1>3. Content(mem, arena.used, open', finished)
  BY <1>1, <1>2, ContentNested
<1> QED BY <1>1, <1>3, UntouchedMemory DEF Held

LEMMA OpenParamsHolds ==
    ASSUME Shape, Held, "tuple" \notin Constructs, OpenParams
    PROVE  Held' /\ OnlyInner
<1>1. /\ open # << >> /\ Inner.kind = "stmts"
      /\ open' = Nest(Array("params")) /\ UNCHANGED <<arena, mem, finished>>
  BY DEF OpenParams, Running
<1>2. "params" \in Kinds \ Tuples
  BY DEF Kinds, Tuples
<1>3. Content(mem, arena.used, open', finished)
  BY <1>1, <1>2, ContentNested
<1> QED BY <1>1, <1>3, UntouchedMemory DEF Held

LEMMA CloseHolds ==
    ASSUME Shape, Held, "tuple" \notin Constructs, Close
    PROVE  Held' /\ OnlyInner
<1>1. /\ open # << >> /\ ~Inner.awaiting /\ open' = Outer
      /\ finished' = finished \cup {Record(Inner)} /\ UNCHANGED <<arena, mem>>
  BY DEF Close, Running
<1>2. /\ Stacked(open, arena.used, stored) /\ arena.used \in 0 .. Capacity /\ stored \in 0 .. MaxStored
      /\ Inner = open[Len(open)] /\ Outer = SubSeq(open, 1, Len(open) - 1)
  BY <1>1, InnerHolds
<1>3. ~Pending(open[Len(open)])
  BY <1>1, <1>2 DEF Pending
<1>4. Content(mem, arena.used, Outer, finished \cup {Record(Inner)})
  BY <1>1, <1>2, <1>3, ContentPopped DEF Held
<1> QED BY <1>1, <1>4, UntouchedMemory DEF Held

LEMMA CrashHolds == ASSUME Held, Crash, arena' = arena PROVE Held' /\ OnlyInner
<1>1. mem' = mem /\ open' = open /\ finished' = finished
  BY DEF Crash
<1> QED BY <1>1, UntouchedMemory DEF Held

\* Without tuple assignments none of their steps is taken.
LEMMA TupleSteps ==
    ASSUME Shape, "tuple" \notin Constructs
    PROVE  ~(OpenTargets \/ ReserveInTuple \/ StoreInTuple \/ NoTarget \/ CloseTargets \/ CloseValues)
<1>1. open # << >> => Inner.kind \notin {"targets", "values"}
  BY InnerIs DEF Room, Tuples
<1> QED
  BY <1>1 DEF OpenTargets, ReserveInTuple, StoreInTuple, NoTarget, CloseTargets, CloseValues,
              TupleListEnds, Running
-----------------------------------------------------------------------------
\* The innermost array was grown for one element more: the next one has a place,
\* and nothing below the top was written.
LEMMA GrownHolds ==
    ASSUME Shape, Held, "tuple" \notin Constructs, open # << >>, NEW a \in ArrayRec, a = Inner,
           ~Pending(a), NEW c \in 1 .. MaxStored + 1, c = a.count + 1,
           NEW g, g.mem \in Mems, Stays(arena, mem, a, c, g) \/ Moves(arena, mem, a, c, g)
    PROVE  /\ HasPlace(g.mem, g.array, g.arena.used)
           /\ \A k \in 1 .. Capacity + 2 : k <= arena.used => g.mem[k] = mem[k]
           /\ g.array \in ArrayRec /\ g.array.kind = a.kind /\ g.array.elems = a.elems
           /\ g.array.count = a.count /\ g.array.base \in Nat \ {0}
           /\ g.array.cap = 2 * c \/ (g.array.cap = 2 /\ c = 2)
           /\ g.arena.used \in arena.used .. Capacity /\ g.arena.used \in 0 .. Capacity
           /\ (a.base # NULL /\ g.array.base = a.base /\ Words(g.array) = Words(a))
                 \/ g.array.base = 1 + arena.used
           /\ Width(a.kind) * c \in Nat /\ Width(a.kind) * c <= Words(g.array)
           /\ g.array.base + Width(a.kind) * c <= 1 + g.arena.used
<1>1. /\ a.kind \notin Tuples /\ a.count = Len(a.elems) /\ a.elems \in Seq(Nat) /\ a.count \in Nat
      /\ a.base = NULL => a.count = 0
      /\ a.base # NULL => Doubled(a) /\ Whole(mem, Record(a))
      /\ Fresh(mem, arena.used) /\ arena.used \in Nat
  BY InnerHolds
<1>2. Reach(a) = a.count
  <2>1. (IF a.awaiting /\ a.kind \in {"list", "values"} THEN 1 ELSE 0) = 0
    BY <1>1 DEF Pending, Tuples
  <2>2. a.count + 0 = a.count
    BY <1>1
  <2> QED BY <2>1, <2>2 DEF Reach
<1>3. /\ g.array \in ArrayRec /\ g.array.kind = a.kind /\ g.array.elems = a.elems
      /\ g.array.count = a.count /\ g.array.base \in Nat \ {0} /\ g.array.cap \in Nat
      /\ g.arena.used \in arena.used .. Capacity /\ g.arena.used \in Nat
      /\ g.array.base + Words(g.array) <= 1 + g.arena.used
  BY GrownArrayIs
<1>4. g.array.cap = 2 * c \/ (g.array.cap = 2 /\ c = 2)
  BY <1>1, <1>2, GrownCapacity
<1>5. /\ \A k \in 1 .. Capacity + 2 : k <= arena.used => g.mem[k] = mem[k]
      /\ Fresh(g.mem, g.arena.used)
      /\ Whole(g.mem, [base |-> g.array.base, width |-> Width(a.kind), elems |-> a.elems])
  <2>1. Fresh(mem, arena.used)
    BY <1>1
  <2>2. a.base = NULL => a.count = 0
    BY <1>1
  <2>3. a.base # NULL => Doubled(a) /\ Whole(mem, Record(a))
    BY <1>1
  <2> QED BY <1>2, <2>1, <2>2, <2>3, GrowthKeepsWords
<1>6. g.arena.used \in 0 .. Capacity
  BY <1>1, <1>3
<1>7. (a.base # NULL /\ g.array.base = a.base /\ Words(g.array) = Words(a))
         \/ g.array.base = 1 + arena.used
  <2>1. CASE Moves(arena, mem, a, c, g)
    BY <2>1, GrownArrayIs
  <2>2. CASE Stays(arena, mem, a, c, g)
    <3>1. g.array.base = a.base /\ g.array.cap = a.cap
      BY <2>2, GrownArrayIs
    <3>2. a.base # NULL
      BY <1>3, <3>1 DEF NULL
    <3> QED BY <1>3, <3>1, <3>2 DEF Words
  <2> QED BY <2>1, <2>2
<1>8. PICK w \in Nat \ {0} : w = Width(a.kind)
  BY WidthIs
<1>9. PICK p \in Nat : p = w * c
  <2>1. c \in Nat
    BY Bounds
  <2> QED BY <1>8, <2>1
<1>10. p <= Words(g.array) /\ Words(g.array) \in Nat
  <2>1. c \in Nat /\ c <= g.array.cap
    BY <1>4, Bounds
  <2>2. w * c <= w * g.array.cap
    BY <1>3, <2>1, TimesMonotone
  <2>3. Words(g.array) = w * g.array.cap
    BY <1>3, <1>8 DEF Words
  <2> QED BY <1>3, <1>9, <2>2, <2>3, WordsIs
<1>11. g.array.base + p <= 1 + g.arena.used
  BY <1>3, <1>10
<1>12. HasPlace(g.mem, g.array, g.arena.used)
  <2>1. PICK y \in ArrayRec : y = g.array
    BY <1>3
  <2>2. Width(y.kind) * (y.count + 1) = p
    BY <1>3, <1>8, <1>9, <2>1
  <2>3. y.base + Width(y.kind) * (y.count + 1) <= 1 + g.arena.used
    BY <1>11, <2>1, <2>2
  <2>4. Whole(g.mem, [base |-> y.base, width |-> Width(y.kind), elems |-> y.elems])
    BY <1>3, <1>5, <2>1
  <2>5. y.base \in Nat \ {0} /\ y.elems \in Seq(Nat) /\ y.count \in Nat /\ y.count = Len(y.elems)
    BY <1>1, <1>3, <2>1
  <2>6. HasPlace(g.mem, y, g.arena.used)
    BY <1>5, <2>3, <2>4, <2>5 DEF HasPlace
  <2> QED BY <2>1, <2>6
<1> QED BY <1>3, <1>4, <1>5, <1>6, <1>7, <1>8, <1>9, <1>10, <1>11, <1>12

LEMMA ReserveElementHolds ==
    ASSUME Shape, Held, "tuple" \notin Constructs, ReserveElement
    PROVE  Held' /\ OnlyInner
<1>1. /\ open # << >> /\ Inner.kind = "list" /\ ~Inner.awaiting /\ stored < MaxStored
      /\ open' = Append(Outer, [Realloc(Inner, Inner.count + 1).array EXCEPT !.awaiting = TRUE])
      /\ mem' = Realloc(Inner, Inner.count + 1).mem
      /\ arena' = Realloc(Inner, Inner.count + 1).arena
      /\ finished' = finished
  BY DEF ReserveElement, Running
<1>2. PICK a \in ArrayRec : a = Inner
  BY <1>1, InnerIs
<1>3. /\ a.kind = "list" /\ ~a.awaiting /\ ~Pending(a) /\ a.count \in Nat /\ a.count <= stored
      /\ stored \in 0 .. MaxStored /\ stored \in Nat /\ MaxStored \in Nat
      /\ Stacked(open, arena.used, stored) /\ arena.used \in 0 .. Capacity
      /\ arena.used \in arena.used .. Capacity
      /\ a = open[Len(open)] /\ Outer = SubSeq(open, 1, Len(open) - 1) /\ Fresh(mem, arena.used)
  BY <1>1, <1>2, InnerHolds, Bounds DEF Pending
<1>4. PICK c \in 1 .. MaxStored + 1 : c = a.count + 1
  BY <1>1, <1>3
<1>5. PICK g : /\ g = Realloc(Inner, c) /\ g.mem \in Mems
               /\ \/ Stays(arena, mem, a, c, g)
                  \/ Fails(arena, mem, a, c, g)
                  \/ Moves(arena, mem, a, c, g)
  <2>1. c \in 0 .. MaxStored + 1
    BY <1>3
  <2> QED BY <1>1, <1>2, <2>1, ReallocIs
<1>6. /\ open' = Append(Outer, [g.array EXCEPT !.awaiting = TRUE])
      /\ mem' = g.mem /\ arena' = g.arena
  BY <1>1, <1>2, <1>4, <1>5
<1>7. PICK x : x = [g.array EXCEPT !.awaiting = TRUE]
  OBVIOUS
<1>8. CASE Stays(arena, mem, a, c, g) \/ Moves(arena, mem, a, c, g)
  <2>1. /\ HasPlace(g.mem, g.array, g.arena.used)
        /\ \A k \in 1 .. Capacity + 2 : k <= arena.used => g.mem[k] = mem[k]
        /\ g.array \in ArrayRec /\ g.array.kind = a.kind /\ g.array.elems = a.elems
        /\ g.array.count = a.count
        /\ g.array.cap = 2 * c \/ (g.array.cap = 2 /\ c = 2)
        /\ g.arena.used \in arena.used .. Capacity
        /\ (a.base # NULL /\ g.array.base = a.base /\ Words(g.array) = Words(a))
              \/ g.array.base = 1 + arena.used
    BY <1>1, <1>2, <1>3, <1>4, <1>5, <1>8, GrownHolds, SMTT(30)
  <2>2. PICK y \in ArrayRec : y = g.array
    BY <2>1
  <2>3. /\ x \in ArrayRec /\ x.kind = y.kind /\ x.base = y.base /\ x.count = y.count
        /\ x.cap = y.cap /\ x.elems = y.elems /\ x.awaiting = TRUE
    BY <1>7, <2>2 DEF ArrayRec
  <2>4. Words(x) = Words(g.array) /\ Reach(x) = c
    BY <1>3, <1>4, <2>1, <2>2, <2>3 DEF Words, Reach
  <2>5. Doubled(x)
    BY <2>1, <2>2, <2>3, <2>4 DEF Doubled
  <2>6. Whole(g.mem, Record(x)) /\ Fresh(g.mem, g.arena.used)
    BY <2>1, <2>2, <2>3 DEF HasPlace, Record
  <2>7. x.base # NULL =>
           /\ Doubled(x) /\ Whole(g.mem, Record(x))
           /\ (a.base # NULL /\ x.base = a.base /\ Words(x) = Words(a)) \/ x.base = 1 + arena.used
    BY <2>1, <2>2, <2>3, <2>4, <2>5, <2>6
  <2>8. \A k \in 1 .. Capacity + 2 :
           k <= arena.used /\ ~(a.base # NULL /\ a.base <= k /\ k < a.base + Words(a))
              => g.mem[k] = mem[k]
    BY <2>1
  <2>9. Content(g.mem, g.arena.used, Append(Outer, x), finished)
    <3>1. PICK m2 : m2 = g.mem
      OBVIOUS
    <3>2. PICK u \in arena.used .. Capacity : u = g.arena.used
      BY <2>1
    <3>3. Content(mem, arena.used, open, finished)
      BY DEF Held
    <3>4. /\ Fresh(m2, u)
          /\ x.base # NULL =>
                /\ Doubled(x) /\ Whole(m2, Record(x))
                /\ (a.base # NULL /\ x.base = a.base /\ Words(x) = Words(a)) \/ x.base = 1 + arena.used
      BY <2>6, <2>7, <3>1, <3>2
    <3>5. \A k \in 1 .. Capacity + 2 :
             k <= arena.used /\ ~(a.base # NULL /\ a.base <= k /\ k < a.base + Words(a))
                => m2[k] = mem[k]
      BY <2>8, <3>1
    <3>6. x \in ArrayRec
      BY <2>3
    <3>7. Content(m2, u, Append(Outer, x), finished)
      BY <1>1, <1>3, <3>3, <3>4, <3>5, <3>6, ContentReplaced
    <3> QED BY <3>1, <3>2, <3>7
  <2> QED BY <1>1, <1>2, <1>6, <1>7, <2>8, <2>9 DEF Held, OnlyInner
<1>9. CASE Fails(arena, mem, a, c, g)
  <2>1. g.array = [a EXCEPT !.base = NULL, !.cap = 0] /\ g.mem = mem /\ g.arena = arena
    BY <1>9 DEF Fails
  <2>2. x \in ArrayRec /\ x.base = NULL
    <3>1. PICK y : y = g.array
      OBVIOUS
    <3>2. NULL \in Nat /\ 0 \in Nat
      BY DEF NULL
    <3>3. y \in ArrayRec /\ y.base = NULL
      BY <2>1, <3>1, <3>2 DEF ArrayRec
    <3> QED BY <1>7, <3>1, <3>3 DEF ArrayRec
  <2>3. Content(mem, arena.used, Append(Outer, x), finished)
    BY <1>1, <1>3, <2>2, ContentReplaced DEF Held
  <2>4. mem' = mem
    BY <1>6, <2>1
  <2> QED BY <1>1, <1>6, <1>7, <2>1, <2>3, <2>4, UntouchedMemory DEF Held
<1> QED BY <1>5, <1>8, <1>9

\* Memory m differs from the present one in the block of a and above the top.
Beside(m, a) ==
    \A k \in 1 .. Capacity + 2 :
        k <= arena.used /\ ~(a.base # NULL /\ a.base <= k /\ k < a.base + Words(a)) => m[k] = mem[k]

\* y, the innermost array a as it was or grown in memory m, can store its next element.
Ready(m, u, a, y) ==
    /\ HasPlace(m, y, u) /\ Beside(m, a) /\ Width(y.kind) * (y.count + 1) <= Words(y)
    /\ (a.base # NULL /\ y.base = a.base /\ Words(y) = Words(a)) \/ y.base = 1 + arena.used

\* It stores it and becomes x.
Becomes(y, x, k) ==
    /\ x = [Stored(y) EXCEPT !.count = k]
    /\ Doubled(x) /\ Words(x) = Words(y) /\ x.base = y.base

LEMMA ElementAdded ==
    ASSUME Shape, Held, "tuple" \notin Constructs, open # << >>, stored < MaxStored,
           NEW a \in ArrayRec, a = Inner, NEW y \in ArrayRec, NEW m \in Mems,
           NEW u \in arena.used .. Capacity, Ready(m, u, a, y),
           NEW k \in Nat, NEW x \in ArrayRec, Becomes(y, x, k)
    PROVE  \E m2 : m2 = Put(m, y, y.count) /\ Beside(m2, a)
                   /\ Content(m2, u, Append(Outer, x), finished)
<1>1. /\ Stacked(open, arena.used, stored) /\ arena.used \in 0 .. Capacity /\ arena.used \in Nat
      /\ stored \in 0 .. MaxStored /\ a = open[Len(open)] /\ Outer = SubSeq(open, 1, Len(open) - 1)
  BY InnerHolds
<1>2. u \in 0 .. Capacity
  BY <1>1
<1>3. PICK m2 :
            /\ m2 = Put(m, y, y.count) /\ Fresh(m2, u)
            /\ Whole(m2, [base |-> y.base, width |-> Width(y.kind), elems |-> Append(y.elems, stored + 1)])
            /\ \A c \in 1 .. Capacity + 2 :
                  c < y.base \/ c >= y.base + Width(y.kind) * (y.count + 1) => m2[c] = m[c]
  <2>1. HasPlace(m, y, u)
    BY DEF Ready
  <2>2. stored \in 0 .. MaxStored
    BY <1>1
  <2> QED BY <1>2, <2>1, <2>2, PutKeeps, Zenon
<1>4. Whole(m2, Record(x))
  BY <1>3, StoredRecord DEF Becomes
<1>5. Beside(m2, a)
  <2> SUFFICES ASSUME NEW c \in 1 .. Capacity + 2, c <= arena.used,
                      ~(a.base # NULL /\ a.base <= c /\ c < a.base + Words(a))
               PROVE  m2[c] = mem[c]
    BY DEF Beside
  <2>1. m[c] = mem[c]
    <3>1. Beside(m, a)
      BY DEF Ready
    <3> QED BY <3>1 DEF Beside
  <2>2. PICK p \in Nat : p = Width(y.kind) * (y.count + 1)
    <3>1. y.count \in Nat
      BY DEF ArrayRec
    <3>2. Width(y.kind) \in Nat /\ y.count + 1 \in Nat
      BY <3>1, WidthIs
    <3> QED BY <3>2
  <2>3. y.base \in Nat /\ a.base \in Nat /\ Words(y) \in Nat /\ Words(a) \in Nat /\ p <= Words(y)
        /\ c \in Nat
    <3>1. y.base \in Nat /\ a.base \in Nat
      BY DEF ArrayRec
    <3>2. Words(y) \in Nat /\ Words(a) \in Nat
      BY WordsIs
    <3>3. p <= Words(y)
      BY <2>2 DEF Ready
    <3>4. c \in Nat
      BY Bounds
    <3> QED BY <3>1, <3>2, <3>3, <3>4
  <2>4. c < y.base \/ c >= y.base + p
    <3>1. CASE y.base = 1 + arena.used
      BY <1>1, <2>3, <3>1
    <3>2. CASE a.base # NULL /\ y.base = a.base /\ Words(y) = Words(a)
      <4>1. c < a.base \/ c >= a.base + Words(a)
        BY <2>3, <3>2
      <4> QED BY <2>3, <3>2, <4>1
    <3> QED BY <3>1, <3>2 DEF Ready
  <2>5. m2[c] = m[c]
    BY <1>3, <2>2, <2>4
  <2> QED BY <2>1, <2>5
<1>6. \A c \in 1 .. Capacity + 2 :
         c <= arena.used /\ ~(a.base # NULL /\ a.base <= c /\ c < a.base + Words(a)) => m2[c] = mem[c]
  BY <1>5 DEF Beside
<1>7. x.base # NULL =>
         /\ Doubled(x) /\ Whole(m2, Record(x))
         /\ (a.base # NULL /\ x.base = a.base /\ Words(x) = Words(a)) \/ x.base = 1 + arena.used
  <2>1. (a.base # NULL /\ x.base = a.base /\ Words(x) = Words(a)) \/ x.base = 1 + arena.used
    BY DEF Ready, Becomes
  <2>2. Doubled(x)
    BY DEF Becomes
  <2> QED BY <1>4, <2>1, <2>2
<1>8. Content(mem, arena.used, open, finished)
  BY DEF Held
<1>9. Fresh(m2, u)
  BY <1>3
<1>10. Content(m2, u, Append(Outer, x), finished)
  BY <1>1, <1>6, <1>7, <1>8, <1>9, ContentReplaced, SMTT(30)
<1> QED BY <1>3, <1>5, <1>10

LEMMA StoreElementHolds ==
    ASSUME Shape, Held, "tuple" \notin Constructs, StoreElement
    PROVE  Held' /\ OnlyInner
<1>1. /\ open # << >> /\ Inner.kind = "list" /\ Inner.awaiting /\ stored < MaxStored
      /\ arena' = arena
  BY DEF StoreElement, Running
<1>2. PICK a \in ArrayRec : a = Inner
  BY <1>1, InnerIs
<1>3. CASE a.base = NULL
  <2>1. Crash
    BY <1>2, <1>3 DEF StoreElement
  <2> QED BY <1>1, <2>1, CrashHolds
<1>4. CASE a.base # NULL
  <2>1. /\ mem' = Put(mem, a, a.count)
        /\ open' = Append(Outer, [Stored(a) EXCEPT !.count = @ + 1])
        /\ finished' = finished
    BY <1>2, <1>4 DEF StoreElement
  <2>2. /\ Stacked(open, arena.used, stored) /\ arena.used \in 0 .. Capacity /\ arena.used \in Nat
        /\ arena.used \in arena.used .. Capacity /\ stored \in Nat /\ mem \in Mems
        /\ a.base \in Nat /\ a.count \in Nat /\ a.elems \in Seq(Nat) /\ a.count = Len(a.elems)
        /\ Fresh(mem, arena.used) /\ Doubled(a) /\ Whole(mem, Record(a)) /\ Reach(a) <= a.cap
    BY <1>1, <1>2, <1>4, InnerHolds
  <2>3. PICK k \in Nat : k = a.count + 1
    BY <2>2
  <2>4. Reach(a) = k
    BY <1>1, <1>2, <2>3 DEF Reach
  <2>5. PICK w \in Nat \ {0} : w = Width(a.kind)
    BY WidthIs
  <2>6. w * k <= Words(a) /\ w * k \in Nat /\ Words(a) \in Nat
    <3>1. a.cap \in Nat /\ k <= a.cap
      BY <2>2, <2>4 DEF ArrayRec
    <3>2. w * k \in Nat /\ w * k <= w * a.cap
      BY <3>1, TimesMonotone
    <3>3. Words(a) = w * a.cap
      BY <2>5 DEF Words
    <3> QED BY <3>2, <3>3, WordsIs
  <2>7. a.base + Words(a) <= 1 + arena.used
    BY <1>1, <1>2, <1>4, InnerIs
  <2>8. HasPlace(mem, a, arena.used)
    <3>1. PICK p \in Nat : p = w * k
      BY <2>6
    <3>2. a.base + p <= 1 + arena.used
      BY <2>2, <2>6, <2>7, <3>1
    <3>3. a.base + Width(a.kind) * (a.count + 1) <= 1 + arena.used
      BY <2>3, <2>5, <3>1, <3>2
    <3>4. a.base \in Nat \ {0}
      BY <1>4, <2>2 DEF NULL
    <3> QED BY <2>2, <3>3, <3>4 DEF HasPlace, Record
  <2>9. PICK x \in ArrayRec :
              /\ x = [Stored(a) EXCEPT !.count = k]
              /\ x.kind = a.kind /\ x.base = a.base /\ x.cap = a.cap /\ x.count = k
              /\ x.awaiting = FALSE /\ Len(x.elems) = Len(a.elems) + 1
              /\ Len(a.elems) \in Nat
    BY <1>1, <2>2, StoredIs
  <2>10. Words(x) = Words(a) /\ Reach(x) = Reach(a)
    BY <2>3, <2>4, <2>9 DEF Words, Reach
  <2>11. Doubled(x)
    BY <2>2, <2>9, <2>10 DEF Doubled
  <2>12. Beside(mem, a)
    BY DEF Beside
  <2>13. Width(a.kind) * (a.count + 1) <= Words(a)
    BY <2>3, <2>5, <2>6
  <2>14. PICK m2 : m2 = Put(mem, a, a.count) /\ Beside(m2, a)
                   /\ Content(m2, arena.used, Append(Outer, x), finished)
    <3>1. Ready(mem, arena.used, a, a)
      BY <1>4, <2>8, <2>12, <2>13 DEF Ready
    <3>2. Becomes(a, x, k)
      BY <2>9, <2>10, <2>11 DEF Becomes
    <3> QED BY <1>1, <1>2, <2>2, <3>1, <3>2, ElementAdded
  <2>15. open' = Append(Outer, x)
    <3>1. Stored(a).count = a.count
      BY DEF Stored, ArrayRec
    <3> QED BY <2>1, <2>3, <2>9, <3>1
  <2> QED BY <1>1, <1>2, <2>1, <2>14, <2>15 DEF Held, OnlyInner, Beside
<1> QED BY <1>3, <1>4

LEMMA AddElementHolds ==
    ASSUME Shape, Held, "tuple" \notin Constructs, AddElement
    PROVE  Held' /\ OnlyInner
<1>1. /\ open # << >> /\ Inner.kind \in {"stmts", "params"} /\ stored < MaxStored
  BY DEF AddElement, Running
<1>2. PICK a \in ArrayRec : a = Inner
  BY <1>1, InnerIs
<1>3. /\ a.kind \notin Tuples /\ a.kind # "list" /\ ~Pending(a) /\ a.count \in Nat /\ a.count <= stored
      /\ stored \in 0 .. MaxStored /\ stored \in Nat /\ MaxStored \in Nat
  BY <1>1, <1>2, InnerHolds, Bounds DEF Pending
<1>4. PICK c \in 1 .. MaxStored + 1 : c = a.count + 1
  BY <1>1, <1>3
<1>5. PICK g : /\ g = Realloc(Inner, c) /\ g.mem \in Mems
               /\ \/ Stays(arena, mem, a, c, g)
                  \/ Fails(arena, mem, a, c, g)
                  \/ Moves(arena, mem, a, c, g)
  <2>1. c \in 0 .. MaxStored + 1
    BY <1>3
  <2> QED BY <1>1, <1>2, <2>1, ReallocIs
<1>6. /\ arena' = g.arena
      /\ IF g.array.base = NULL THEN Crash
         ELSE /\ mem' = Put(g.mem, g.array, g.array.count)
              /\ open' = Append(Outer, [Stored(g.array) EXCEPT !.count = @ + 1])
              /\ stored' = stored + 1
              /\ UNCHANGED <<finished, crashed>>
  BY <1>2, <1>4, <1>5 DEF AddElement
<1>7. CASE Stays(arena, mem, a, c, g) \/ Moves(arena, mem, a, c, g)
  <2>1. /\ HasPlace(g.mem, g.array, g.arena.used)
        /\ \A k \in 1 .. Capacity + 2 : k <= arena.used => g.mem[k] = mem[k]
        /\ g.array \in ArrayRec /\ g.array.kind = a.kind
        /\ g.array.count = a.count /\ g.array.base \in Nat \ {0}
        /\ g.array.cap = 2 * c \/ (g.array.cap = 2 /\ c = 2)
        /\ g.arena.used \in arena.used .. Capacity
        /\ (a.base # NULL /\ g.array.base = a.base /\ Words(g.array) = Words(a))
              \/ g.array.base = 1 + arena.used
        /\ Width(a.kind) * c <= Words(g.array)
    <3>1. g.mem \in Mems /\ (Stays(arena, mem, a, c, g) \/ Moves(arena, mem, a, c, g))
      BY <1>5, <1>7
    <3>2. HasPlace(g.mem, g.array, g.arena.used)
      BY <1>1, <1>2, <1>3, <1>4, <3>1, GrownHolds
    <3>3. \A k \in 1 .. Capacity + 2 : k <= arena.used => g.mem[k] = mem[k]
      BY <1>1, <1>2, <1>3, <1>4, <3>1, GrownHolds
    <3>4. /\ g.array \in ArrayRec /\ g.array.kind = a.kind
          /\ g.array.count = a.count /\ g.array.base \in Nat \ {0}
          /\ g.array.cap = 2 * c \/ (g.array.cap = 2 /\ c = 2)
          /\ g.arena.used \in arena.used .. Capacity
          /\ Width(a.kind) * c <= Words(g.array)
      BY <1>1, <1>2, <1>3, <1>4, <3>1, GrownHolds
    <3>5. (a.base # NULL /\ g.array.base = a.base /\ Words(g.array) = Words(a))
             \/ g.array.base = 1 + arena.used
      BY <1>1, <1>2, <1>3, <1>4, <3>1, GrownHolds
    <3> QED BY <3>2, <3>3, <3>4, <3>5
  <2>2. PICK y \in ArrayRec : y = g.array
    BY <2>1
  <2>3. c \in Nat
    BY <1>3, <1>4
  <2>4. PICK x \in ArrayRec :
              /\ x = [Stored(y) EXCEPT !.count = c]
              /\ x.kind = y.kind /\ x.base = y.base /\ x.cap = y.cap /\ x.count = c
              /\ x.awaiting = FALSE /\ Len(x.elems) = Len(y.elems) + 1
              /\ Len(y.elems) \in Nat
    BY <1>1, <1>3, <2>3, StoredIs
  <2>5. Words(x) = Words(y)
    BY <2>4 DEF Words
  <2>6. Reach(x) = c
    BY <2>3, <2>4 DEF Reach
  <2>7. Doubled(x)
    BY <2>1, <2>2, <2>4, <2>6 DEF Doubled
  <2>8. PICK m \in Mems : m = g.mem
    BY <1>5
  <2>9. PICK u \in arena.used .. Capacity : u = g.arena.used
    BY <2>1
  <2>10. HasPlace(m, y, u) /\ Beside(m, a)
    BY <2>1, <2>2, <2>8, <2>9 DEF Beside
  <2>11. (a.base # NULL /\ y.base = a.base /\ Words(y) = Words(a)) \/ y.base = 1 + arena.used
    BY <2>1, <2>2
  <2>12. Width(y.kind) * (y.count + 1) <= Words(y)
    BY <1>4, <2>1, <2>2
  <2>13. PICK m2 : m2 = Put(m, y, y.count) /\ Beside(m2, a)
                   /\ Content(m2, u, Append(Outer, x), finished)
    <3>1. Ready(m, u, a, y)
      BY <2>10, <2>11, <2>12 DEF Ready
    <3>2. Becomes(y, x, c)
      BY <2>4, <2>5, <2>7 DEF Becomes
    <3> QED BY <1>1, <1>2, <2>3, <3>1, <3>2, ElementAdded
  <2>14. g.array.base # NULL
    BY <2>1 DEF NULL
  <2>15. mem' = m2 /\ finished' = finished
    BY <1>6, <2>2, <2>8, <2>13, <2>14
  <2>16. open' = Append(Outer, x)
    <3>1. Stored(y).count = y.count
      BY DEF Stored, ArrayRec
    <3>2. [Stored(y) EXCEPT !.count = @ + 1] = x
      BY <1>4, <2>1, <2>2, <2>4, <3>1
    <3> QED BY <1>6, <2>2, <2>14, <3>2
  <2>17. arena'.used = u
    BY <1>6, <2>9
  <2> QED BY <1>2, <2>13, <2>15, <2>16, <2>17 DEF Held, OnlyInner, Beside
<1>8. CASE Fails(arena, mem, a, c, g)
  <2>1. g.array = [a EXCEPT !.base = NULL, !.cap = 0] /\ g.arena = arena
    BY <1>8 DEF Fails
  <2>2. g.array.base = NULL
    BY <2>1 DEF ArrayRec
  <2> QED BY <1>6, <2>1, <2>2, CrashHolds
<1> QED BY <1>5, <1>7, <1>8

\* The FuncData, as a record of one element behind all arrays.
LEMMA StructureIs ==
    ASSUME NEW used \in 0 .. Capacity, NEW u \in used .. Capacity, u = used + FuncDataWords,
           NEW m \in Mems, Fresh(m, used), NEW v \in Vals \cap Nat,
           NEW f, f = [base |-> 1 + used, width |-> FuncDataWords, elems |-> <<v>>],
           NEW m2, m2 = Fill(m, 1 + used, FuncDataWords, v)
    PROVE  /\ Settled(f, u) /\ Whole(m2, f) /\ Fresh(m2, u)
           /\ \A c \in 1 .. Capacity + 2 : c <= used => m2[c] = m[c]
<1>1. PICK w \in Nat : w = FuncDataWords
  BY Bounds
<1>2. used \in Nat /\ u \in Nat /\ Capacity \in Nat /\ u <= Capacity /\ u = used + w
  BY <1>1, Bounds
<1>3. PICK at \in Nat : at = 1 + used
  BY <1>2
<1>4. ASSUME NEW c \in 1 .. Capacity + 2
      PROVE  m2[c] = IF c \in at .. at + w - 1 THEN v ELSE m[c]
  <2>1. m2 = Fill(m, at, w, v)
    BY <1>1, <1>3
  <2>2. Fill(m, at, w, v)[c] = IF c \in at .. at + w - 1 THEN v ELSE m[c]
    BY FillIs
  <2> QED BY <2>1, <2>2
<1>5. f.base = at /\ f.width = w /\ f.elems = <<v>> /\ Len(f.elems) = 1 /\ f.elems[1] = v
      /\ f.elems \in Seq(Nat)
  BY <1>1, <1>3
<1>6. Extent(f) = w
  <2>1. w * 1 = w
    OBVIOUS
  <2> QED BY <1>5, <2>1 DEF Extent
<1>7. Settled(f, u)
  <2>1. f.base + Extent(f) <= 1 + u /\ f.base # NULL
    BY <1>2, <1>3, <1>5, <1>6 DEF NULL
  <2> QED BY <1>5, <2>1 DEF Settled
<1>8. Fresh(m2, u)
  <2> SUFFICES ASSUME NEW c \in 1 .. Capacity + 2, c > u PROVE m2[c] = 0
    BY DEF Fresh
  <2>1. c \notin at .. at + w - 1 /\ c > used
    BY <1>2, <1>3
  <2> QED BY <1>4, <2>1 DEF Fresh
<1>9. ASSUME NEW c \in 1 .. Capacity + 2, c <= used PROVE m2[c] = m[c]
  <2>1. c \notin at .. at + w - 1
    BY <1>2, <1>3, <1>9
  <2> QED BY <1>4, <2>1
<1>10. Whole(m2, f)
  <2> SUFFICES ASSUME NEW i \in 1 .. Len(f.elems), NEW c \in CellsOf(f, i)
               PROVE  m2[c] \in {0, f.elems[i]} /\ (i > 2 => m2[c] = f.elems[i])
    BY DEF Whole
  <2>1. i = 1
    BY <1>5
  <2>2. c \in Nat /\ f.base <= c /\ c < f.base + Extent(f)
    <3>1. f.base \in Nat /\ f.width \in Nat /\ Len(f.elems) \in Nat
      BY <1>5
    <3> QED BY <3>1, CellsIn
  <2>3. c \in at .. at + w - 1 /\ c \in 1 .. Capacity + 2
    BY <1>2, <1>3, <1>5, <1>6, <2>2
  <2>4. m2[c] = v
    BY <1>4, <2>3
  <2> QED BY <1>5, <2>1, <2>4
<1> QED BY <1>7, <1>8, <1>9, <1>10

LEMMA CloseParamsHolds ==
    ASSUME Shape, Held, "tuple" \notin Constructs, CloseParams
    PROVE  Held' /\ OnlyInner
<1>1. /\ open # << >> /\ Inner.kind = "params" /\ stored < MaxStored
  BY DEF CloseParams, Running
<1>2. /\ arena \in Arenas /\ mem \in Mems /\ arena.used \in 0 .. Capacity /\ arena.used \in Nat
      /\ stored \in 0 .. MaxStored /\ stored \in Nat /\ MaxStored \in Nat /\ Capacity \in Nat
      /\ FuncDataWords \in Nat \ {0}
      /\ Inner = open[Len(open)] /\ Outer = SubSeq(open, 1, Len(open) - 1)
      /\ Stacked(open, arena.used, stored) /\ Fresh(mem, arena.used)
      /\ StackOK(open, arena.used, stored)
  BY <1>1, InnerHolds, Bounds DEF Shape
<1>3. PICK r :
         /\ r = [size |-> FuncDataWords, align |-> 1, count |-> 1]
         /\ arena.used + FuncDataWords <= Capacity =>
               AllocPtr(arena, r) = 1 + arena.used
               /\ AllocArena(arena, r) = [arena EXCEPT !.used = arena.used + FuncDataWords]
         /\ arena.used + FuncDataWords > Capacity =>
               AllocPtr(arena, r) = NULL /\ AllocArena(arena, r) = arena
  <2>1. PICK q \in Nat : q = ParamWords * (2 * (MaxStored + 1))
    <3>1. PICK h \in Nat : h = 2 * (MaxStored + 1)
      BY <1>2
    <3> QED BY <3>1, Bounds
  <2>2. Capacity + FuncDataWords + q + 1 < WordMod
    BY <2>1, GrowAssumption
  <2>3. FuncDataWords + Capacity + 1 < WordMod
    <3>1. /\ WordMod \in Nat
          /\ Capacity + FuncDataWords + q + 1 >= FuncDataWords + Capacity + 1
      BY <1>2, <2>1, Bounds
    <3> QED BY <1>2, <2>1, <2>2, <3>1
  <2> QED BY <1>2, <2>3, AllocOneIs
<1>4. PICK data : data = AllocPtr(arena, r)
  OBVIOUS
<1>5. /\ arena' = AllocArena(arena, r)
      /\ IF data = NULL THEN Crash
         ELSE /\ mem' = Fill(mem, data, FuncDataWords, stored + 1)
              /\ stored' = stored + 1
              /\ finished' = finished \cup
                   {Record(Inner),
                    [base |-> data, width |-> FuncDataWords, elems |-> <<stored + 1>>]}
              /\ open' = Append(Outer, Array("stmts"))
              /\ UNCHANGED crashed
  BY <1>3, <1>4 DEF CloseParams
<1>6. CASE arena.used + FuncDataWords > Capacity
  <2>1. Crash /\ arena' = arena
    BY <1>3, <1>4, <1>5, <1>6
  <2> QED BY <2>1, CrashHolds
<1>7. CASE arena.used + FuncDataWords <= Capacity
  <2>1. PICK u \in arena.used .. Capacity : u = arena.used + FuncDataWords
    BY <1>2, <1>7
  <2>2. PICK v \in Vals \cap Nat : v = stored + 1
    BY <1>1, <1>2 DEF Vals
  <2>3. PICK f : f = [base |-> 1 + arena.used, width |-> FuncDataWords, elems |-> <<v>>]
    OBVIOUS
  <2>4. data = 1 + arena.used /\ data # NULL /\ arena' = [arena EXCEPT !.used = u]
    BY <1>2, <1>3, <1>4, <1>5, <1>7, <2>1 DEF NULL
  <2>5. PICK m2 : m2 = Fill(mem, 1 + arena.used, FuncDataWords, v)
    OBVIOUS
  <2>6. /\ mem' = m2 /\ finished' = (finished \cup {Record(Inner)}) \cup {f}
        /\ open' = Append(Outer, Array("stmts")) /\ arena'.used = u
    <3>1. arena'.used = u
      BY <1>2, <2>4 DEF Arenas
    <3> QED BY <1>5, <2>2, <2>3, <2>4, <2>5, <3>1
  <2>7. PICK used \in 0 .. Capacity : used = arena.used
    BY <1>2
  <2>8. /\ Settled(f, u) /\ Whole(m2, f) /\ Fresh(m2, u)
        /\ \A c \in 1 .. Capacity + 2 : c <= used => m2[c] = mem[c]
    <3>1. u \in used .. Capacity /\ u = used + FuncDataWords /\ Fresh(mem, used) /\ mem \in Mems
      BY <1>2, <2>1, <2>7
    <3>2. f = [base |-> 1 + used, width |-> FuncDataWords, elems |-> <<v>>]
      BY <2>3, <2>7
    <3>3. m2 = Fill(mem, 1 + used, FuncDataWords, v)
      BY <2>5, <2>7
    <3> QED BY <3>1, <3>2, <3>3, StructureIs
  <2>9. PICK s : s = Outer
    OBVIOUS
  <2>10. Stacked(s, used, stored)
    BY <1>1, <1>2, <2>7, <2>9, PopKeeps
  <2>11. Content(mem, used, s, finished \cup {Record(Inner)})
    <3>1. ~Pending(open[Len(open)])
      BY <1>1, <1>2 DEF Pending
    <3>2. Content(mem, used, open, finished)
      BY <2>7 DEF Held
    <3> QED BY <1>1, <1>2, <2>7, <2>9, <3>1, <3>2, ContentPopped
  <2>12. PICK F : F = finished \cup {Record(Inner)}
    OBVIOUS
  <2>13. Content(m2, u, s, F)
    <3>1. u \in used .. Capacity
      BY <2>1, <2>7
    <3> QED BY <1>2, <2>8, <2>10, <2>11, <2>12, <3>1, ContentAbove
  <2>14. \A i \in 1 .. Len(s) : Apart(f, s[i])
    <3> SUFFICES ASSUME NEW i \in 1 .. Len(s) PROVE Apart(f, s[i])
      OBVIOUS
    <3>1. /\ s[i].base # NULL => s[i].base + Words(s[i]) <= 1 + used
      BY <1>2, <2>10, BlockIs
    <3>2. f.base = 1 + used
      BY <2>3, <2>7
    <3> QED BY <3>1, <3>2 DEF Apart
  <2>15. Content(m2, u, s, F \cup {f})
    BY <2>8, <2>13, <2>14, ContentFinish
  <2>16. s \in Seq(ArrayRec)
    BY <2>10 DEF Stacked
  <2>17. Array("stmts") \in ArrayRec /\ Array("stmts").base = NULL
    BY <1>2, NewArray DEF Kinds, Tuples
  <2>18. Content(m2, u, Append(s, Array("stmts")), F \cup {f})
    BY <2>15, <2>16, <2>17, ContentPushed
  <2>19. Held'
    BY <2>6, <2>9, <2>12, <2>18 DEF Held
  <2>20. OnlyInner
    BY <2>6, <2>7, <2>8 DEF OnlyInner
  <2> QED BY <2>19, <2>20
<1> QED BY <1>2, <1>6, <1>7
-----------------------------------------------------------------------------
LEMMA InitHolds == Init => Held
<1> SUFFICES ASSUME Init PROVE Held
  OBVIOUS
<1>1. \A c \in 1 .. Capacity + 2 : mem[c] = 0
  BY DEF Init
<1>2. Fresh(mem, arena.used)
  BY <1>1 DEF Fresh
<1>3. PICK x : x = Array("stmts")
  OBVIOUS
<1>4. open = <<x>> /\ x.base = NULL
  BY <1>3 DEF Init, Array
<1>5. \A i \in 1 .. Len(open) : open[i].base = NULL
  BY <1>4
<1>6. finished = {}
  BY DEF Init
<1> QED BY <1>2, <1>5, <1>6 DEF Held, Content

\* One step of the parser.
LEMMA StepHolds ==
    ASSUME Shape, Held, "tuple" \notin Constructs, Next PROVE Held' /\ OnlyInner
<1>1. CASE OpenList
  BY <1>1, OpenListHolds
<1>2. CASE OpenBlock
  BY <1>2, OpenBlockHolds
<1>3. CASE ReserveElement
  BY <1>3, ReserveElementHolds
<1>4. CASE StoreElement
  BY <1>4, StoreElementHolds
<1>5. CASE AddElement
  BY <1>5, AddElementHolds
<1>6. CASE Close
  BY <1>6, CloseHolds
<1>7. CASE OpenParams
  BY <1>7, OpenParamsHolds
<1>8. CASE CloseParams
  BY <1>8, CloseParamsHolds
<1> QED BY <1>1, <1>2, <1>3, <1>4, <1>5, <1>6, <1>7, <1>8, TupleSteps DEF Next

LEMMA NextHolds ==
    ASSUME Shape, Held, "tuple" \notin Constructs, [Next]_vars PROVE Held' /\ OnlyInner
<1>1. CASE Next
  BY <1>1, StepHolds
<1>2. CASE UNCHANGED vars
  <2>1. mem' = mem /\ arena' = arena /\ open' = open /\ finished' = finished
    BY <1>2 DEF vars
  <2> QED BY <2>1, UntouchedMemory DEF Held
<1> QED BY <1>1, <1>2

\* The contents of memory: nothing above the top, and every array, finished or not,
\* with its elements in place but for lost ones among the first two.
THEOREM MemoryKept == ASSUME "tuple" \notin Constructs PROVE Spec => []IInv
<1>1. Init => IInv
  BY InitShape, InitHolds DEF IInv, Held
<1>2. IInv /\ [Next]_vars => IInv'
  <2> SUFFICES ASSUME IInv, [Next]_vars PROVE IInv'
    OBVIOUS
  <2>1. Shape /\ Held
    BY DEF IInv, Held
  <2>2. Shape'
    BY <2>1, NextShape
  <2>3. Held'
    BY <2>1, NextHolds
  <2> QED BY <2>2, <2>3 DEF IInv, Held
<1> QED BY <1>1, <1>2, PTL DEF Spec
-----------------------------------------------------------------------------
\* Every array that is used holds its elements, but for lost ones among the first two.
LEMMA InUseWhole ==
    ASSUME Shape, Held, "tuple" \notin Constructs, NEW a \in InUse
    PROVE  Whole(mem, a) /\ DOMAIN a.elems = 1 .. Len(a.elems)
<1>1. CASE a \in finished
  <2>1. Whole(mem, a) /\ Settled(a, arena.used)
    BY <1>1 DEF Held, Content
  <2> QED BY <2>1, LenProperties DEF Settled
<1>2. CASE \E i \in {j \in DOMAIN open : open[j].base # NULL} : a = Record(open[i])
  <2>1. PICK i \in DOMAIN open : open[i].base # NULL /\ a = Record(open[i])
    BY <1>2
  <2>2. Stacked(open, arena.used, stored) /\ arena.used \in 0 .. Capacity /\ stored \in 0 .. MaxStored
    BY DEF Shape, StackOK, Arenas
  <2>3. i \in 1 .. Len(open)
    BY <2>2, LenProperties DEF Stacked
  <2>4. open[i].elems \in Seq(Nat)
    BY <2>2, <2>3, ElemsInBlock
  <2>5. Whole(mem, a)
    BY <2>1, <2>3 DEF Held, Content
  <2>6. a.elems = open[i].elems
    BY <2>1 DEF Record
  <2> QED BY <2>4, <2>5, <2>6, LenProperties
<1> QED BY <1>1, <1>2 DEF InUse

\* The elements of an array are found again or lost; none is another array's.
THEOREM ElementsNeverMixed == ASSUME "tuple" \notin Constructs PROVE Spec => []IntactOrNull
<1>1. IInv => IntactOrNull
  <2> SUFFICES ASSUME IInv, NEW a \in InUse, NEW i \in DOMAIN a.elems, NEW c \in CellsOf(a, i)
               PROVE  mem[c] \in {0, a.elems[i]}
    BY DEF IntactOrNull, Holds
  <2>1. Whole(mem, a) /\ DOMAIN a.elems = 1 .. Len(a.elems)
    BY InUseWhole DEF IInv, Held
  <2> QED BY <2>1 DEF Whole
<1> QED BY <1>1, MemoryKept, PTL

\* What is stored from the third element of an array on survives all later growth.
THEOREM LaterElementsKept == ASSUME "tuple" \notin Constructs PROVE Spec => []ThirdOnIntact
<1>1. IInv => ThirdOnIntact
  <2> SUFFICES ASSUME IInv, NEW a \in InUse, NEW i \in DOMAIN a.elems, i > 2,
                      NEW c \in CellsOf(a, i)
               PROVE  mem[c] \in {a.elems[i]}
    BY DEF ThirdOnIntact, Holds
  <2>1. Whole(mem, a) /\ DOMAIN a.elems = 1 .. Len(a.elems)
    BY InUseWhole DEF IInv, Held
  <2> QED BY <2>1 DEF Whole
<1> QED BY <1>1, MemoryKept, PTL

\* What the allocator hands out next was never written.
THEOREM NewWordsAreZero == ASSUME "tuple" \notin Constructs PROVE Spec => []FreshIsZero
<1>1. IInv => FreshIsZero
  <2> SUFFICES ASSUME IInv, NEW c \in DOMAIN mem, c >= arena.base + arena.used
               PROVE  mem[c] = 0
    BY DEF FreshIsZero
  <2>1. arena.base = 1 /\ arena.used \in Nat /\ DOMAIN mem = 1 .. Capacity + 2
    BY Bounds DEF IInv, Shape, Arenas, Mems
  <2>2. c > arena.used
    BY <2>1, Bounds
  <2> QED BY <2>1, <2>2 DEF IInv, Content, Fresh
<1> QED BY <1>1, MemoryKept, PTL

\* A step leaves the words of a finished array alone: they lie below the top and
\* outside the block of the only array a step writes to.
LEMMA StepKeepsFinished ==
    ASSUME Shape, Held, "tuple" \notin Constructs, Next,
           NEW f \in finished, NEW i \in DOMAIN f.elems, NEW c \in CellsOf(f, i)
    PROVE  mem'[c] = mem[c]
<1>1. open # << >>
  BY TupleSteps DEF Next, OpenList, OpenBlock, ReserveElement, StoreElement, AddElement, Close,
                    OpenParams, CloseParams, InExpression, Running
<1>2. Settled(f, arena.used) /\ \A j \in 1 .. Len(open) : Apart(f, open[j])
  BY DEF Held, Content
<1>3. /\ Inner \in ArrayRec /\ Inner = open[Len(open)] /\ open \in Seq(ArrayRec)
      /\ arena.used \in 0 .. Capacity
  BY <1>1, InnerHolds
<1>4. Len(open) \in 1 .. Len(open)
  BY <1>1, <1>3, FrontIs
<1>5. PICK a \in ArrayRec : a = Inner /\ Apart(f, a)
  BY <1>2, <1>3, <1>4
<1>6. /\ f.base \in Nat /\ f.width \in Nat /\ Len(f.elems) \in Nat
      /\ i \in 1 .. Len(f.elems) /\ Len(f.elems) >= 1
  BY <1>2, LenProperties DEF Settled
<1>7. c \in Nat /\ f.base <= c /\ c < f.base + Extent(f) /\ Extent(f) \in Nat
  BY <1>6, CellsIn
<1>8. /\ f.base # NULL /\ f.base + Extent(f) <= 1 + arena.used
      /\ a.base # NULL => f.base + Extent(f) <= a.base \/ a.base + Words(a) <= f.base
  BY <1>2, <1>5, <1>6 DEF Settled, Apart
<1>9. PICK e \in Nat, u \in 0 .. Capacity : e = Extent(f) /\ u = arena.used
  BY <1>3, <1>7
<1>10. c \in 1 .. Capacity + 2 /\ c <= u
  BY <1>6, <1>7, <1>8, <1>9, Bounds DEF NULL
<1>11. a.base \in Nat /\ (a.base # NULL => Words(a) \in Nat)
  <2>1. Words(Inner) \in Nat
    <3>1. Stacked(open, arena.used, stored) /\ stored \in Nat
      BY <1>1, InnerHolds
    <3> QED BY <1>3, <1>4, <3>1, BlockIs
  <2> QED BY <1>5, <2>1 DEF ArrayRec
<1>12. ~(a.base # NULL /\ a.base <= c /\ c < a.base + Words(a))
  BY <1>6, <1>7, <1>8, <1>9, <1>11
<1>13. OnlyInner
  BY StepHolds
<1> QED BY <1>5, <1>9, <1>10, <1>12, <1>13 DEF OnlyInner

\* An array the AST points to is never written again, whatever grows after it.
THEOREM FinishedNeverWritten == ASSUME "tuple" \notin Constructs PROVE Spec => FinishedStable
<1>1. IInv /\ [Next]_vars =>
        [~tupled' => \A a \in finished : \A i \in DOMAIN a.elems :
            \A c \in CellsOf(a, i) : mem'[c] = mem[c]]_vars
  <2>1. CASE UNCHANGED vars
    BY <2>1
  <2>2. CASE IInv /\ Next
    <3>1. Shape /\ Held
      BY <2>2 DEF IInv, Held
    <3> QED BY <2>2, <3>1, StepKeepsFinished
  <2> QED BY <2>1, <2>2
<1> QED BY <1>1, MemoryKept, PTL DEF Spec, FinishedStable
=============================================================================
