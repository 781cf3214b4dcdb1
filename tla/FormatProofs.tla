---------------------------- MODULE FormatProofs ----------------------------
(***************************************************************************)
(* Proofs about Format, for every call, however long its format and its    *)
(* output, and every buffer: nothing is written outside the buffer, what   *)
(* fits is printed whole, and each directive finds its own argument as     *)
(* long as there is room.                                                  *)
(***************************************************************************)
EXTENDS Format, SequenceTheorems, WellFoundedInduction, TLAPS

LEMMA LeastNat ==
    ASSUME NEW T \in SUBSET Nat, T # {}
    PROVE  \E x \in T : \A y \in T : x <= y
<1>1. PICK x \in T : \A y \in T : ~(<<y, x>> \in OpToRel(<, Nat))
  BY WFMin, NatLessThanWellFounded
<1>2. ASSUME NEW y \in T PROVE x <= y
  <2>1. x \in Nat /\ y \in Nat
    OBVIOUS
  <2>2. ~(y < x)
    BY <1>1, <2>1 DEF OpToRel
  <2> QED BY <2>1, <2>2
<1> QED BY <1>2

LEMMA MinIs ==
    ASSUME NEW T \in SUBSET Nat, NEW m \in T, \A j \in T : m <= j
    PROVE  Min(T) = m
<1>1. \A k \in T : (\A j \in T : k <= j) => k = m
  <2> SUFFICES ASSUME NEW k \in T, \A j \in T : k <= j PROVE k = m
    OBVIOUS
  <2>1. k <= m /\ m <= k /\ k \in Nat /\ m \in Nat
    OBVIOUS
  <2> QED BY <2>1
<1> QED BY <1>1 DEF Min
-----------------------------------------------------------------------------
(***************************************************************************)
(* FlattenSeq: where each of the sequences it joins begins and ends.       *)
(***************************************************************************)
\* The sequences up to each, joined.
Joined(ss, g, n) == g = [i \in 1 .. n |-> IF i = 1 THEN ss[i] ELSE g[i - 1] \o ss[i]]

\* The sequences of ss, one behind the other, are flat, and ends tells where each
\* of them ends.
Laid(ss, flat, ends) ==
    /\ ends \in [0 .. Len(ss) -> Nat] /\ ends[0] = 0
    /\ \A i \in 1 .. Len(ss) : ends[i] = ends[i - 1] + Len(ss[i])
    /\ Len(flat) = ends[Len(ss)]
    /\ \A i \in 1 .. Len(ss) : \A j \in 1 .. Len(ss[i]) : flat[ends[i - 1] + j] = ss[i][j]

LEMMA JoinedExists ==
    ASSUME NEW ss, NEW n \in Nat
    PROVE  \E g : Joined(ss, g, n)
<1> DEFINE Bad == {m \in Nat : ~\E g : Joined(ss, g, m)}
<1> SUFFICES ASSUME Bad # {} PROVE FALSE
  OBVIOUS
<1>1. PICK m \in Bad : \A k \in Bad : m <= k
  <2>1. Bad \in SUBSET Nat
    OBVIOUS
  <2> HIDE DEF Bad
  <2> QED BY <2>1, LeastNat
<1>2. m \in Nat /\ ~\E g : Joined(ss, g, m)
  OBVIOUS
<1>3. CASE m = 0
  <2> DEFINE g == [i \in 1 .. 0 |-> 0]
  <2>1. Joined(ss, g, 0)
    BY DEF Joined
  <2> QED BY <1>2, <1>3, <2>1
<1>4. CASE m # 0
  <2>1. m - 1 \in Nat /\ ~(m <= m - 1)
    BY <1>2, <1>4
  <2>2. PICK g : Joined(ss, g, m - 1)
    BY <1>1, <2>1
  <2>3. \A i \in 1 .. m - 1 : g[i] = IF i = 1 THEN ss[i] ELSE g[i - 1] \o ss[i]
    BY <2>2 DEF Joined
  <2> DEFINE h == [i \in 1 .. m |-> IF i = m THEN (IF m = 1 THEN ss[m] ELSE g[m - 1] \o ss[m])
                                             ELSE g[i]]
  <2>4. ASSUME NEW i \in 1 .. m
        PROVE  h[i] = IF i = 1 THEN ss[i] ELSE h[i - 1] \o ss[i]
    <3>1. CASE i = m
      <4>1. m # 1 => h[m - 1] = g[m - 1]
        BY <1>2, <1>4
      <4> QED BY <3>1, <4>1
    <3>2. CASE i # m
      <4>1. i \in 1 .. m - 1 /\ h[i] = g[i]
        BY <1>2, <3>2
      <4>2. i # 1 => h[i - 1] = g[i - 1]
        BY <1>2, <4>1
      <4> QED BY <2>3, <4>1, <4>2
    <3> QED BY <3>1, <3>2
  <2>5. Joined(ss, h, m)
    <3>1. h = [i \in 1 .. m |-> h[i]]
      OBVIOUS
    <3> HIDE DEF h
    <3> QED BY <2>4, <3>1 DEF Joined
  <2> QED BY <1>2, <2>5
<1> QED BY <1>3, <1>4

LEMMA FlattenIs ==
    ASSUME NEW ss, Len(ss) \in Nat \ {0}
    PROVE  \E g : Joined(ss, g, Len(ss)) /\ FlattenSeq(ss) = g[Len(ss)]
<1> DEFINE flatten == CHOOSE g : g = [i \in 1 .. Len(ss) |-> IF i = 1 THEN ss[i] ELSE g[i - 1] \o ss[i]]
<1>1. \E g : g = [i \in 1 .. Len(ss) |-> IF i = 1 THEN ss[i] ELSE g[i - 1] \o ss[i]]
  BY JoinedExists DEF Joined
<1>2. flatten = [i \in 1 .. Len(ss) |-> IF i = 1 THEN ss[i] ELSE flatten[i - 1] \o ss[i]]
  BY <1>1
<1>3. FlattenSeq(ss) = flatten[Len(ss)]
  BY DEF FlattenSeq
<1> HIDE DEF flatten
<1> QED BY <1>2, <1>3 DEF Joined

LEMMA JoinedTyped ==
    ASSUME NEW S, NEW ss \in Seq(Seq(S)), NEW g, Joined(ss, g, Len(ss)), NEW n \in 1 .. Len(ss)
    PROVE  g[n] \in Seq(S)
<1> DEFINE Bad == {m \in Nat : m \in 1 .. Len(ss) /\ g[m] \notin Seq(S)}
<1> SUFFICES ASSUME Bad # {} PROVE FALSE
  BY LenProperties
<1>1. PICK m \in Bad : \A k \in Bad : m <= k
  <2>1. Bad \in SUBSET Nat
    OBVIOUS
  <2> HIDE DEF Bad
  <2> QED BY <2>1, LeastNat
<1>2. m \in 1 .. Len(ss) /\ g[m] \notin Seq(S) /\ Len(ss) \in Nat
  BY LenProperties
<1>3. g[m] = IF m = 1 THEN ss[m] ELSE g[m - 1] \o ss[m]
  BY <1>2 DEF Joined
<1>4. ss[m] \in Seq(S)
  BY <1>2, ElementOfSeq
<1>5. CASE m = 1
  BY <1>2, <1>3, <1>4, <1>5
<1>6. CASE m # 1
  <2>1. m - 1 \in 1 .. Len(ss) /\ m - 1 \in Nat /\ ~(m <= m - 1)
    BY <1>2, <1>6
  <2>2. g[m - 1] \in Seq(S)
    BY <1>1, <2>1
  <2>3. g[m - 1] \o ss[m] \in Seq(S)
    BY <1>4, <2>2, ConcatProperties
  <2> QED BY <1>2, <1>3, <1>6, <2>3
<1> QED BY <1>5, <1>6

\* What is joined to the sequences before.
LEMMA JoinedIs ==
    ASSUME NEW S, NEW ss \in Seq(Seq(S)), NEW g, Joined(ss, g, Len(ss)), NEW n \in 1 .. Len(ss),
           NEW b, n = 1 => b = 0, n # 1 => b = Len(g[n - 1])
    PROVE  /\ b \in Nat /\ Len(ss[n]) \in Nat /\ Len(g[n]) = b + Len(ss[n])
           /\ \A j \in 1 .. Len(ss[n]) : g[n][b + j] = ss[n][j]
           /\ n # 1 => \A j \in 1 .. b : g[n][j] = g[n - 1][j]
<1>1. Len(ss) \in Nat /\ ss[n] \in Seq(S) /\ Len(ss[n]) \in Nat
  BY LenProperties, ElementOfSeq
<1>2. g[n] = IF n = 1 THEN ss[n] ELSE g[n - 1] \o ss[n]
  BY DEF Joined
<1>3. CASE n = 1
  BY <1>1, <1>2, <1>3
<1>4. CASE n # 1
  <2>1. n - 1 \in 1 .. Len(ss)
    BY <1>1, <1>4
  <2>2. g[n - 1] \in Seq(S)
    BY <2>1, JoinedTyped
  <2>3. b = Len(g[n - 1]) /\ b \in Nat
    BY <1>4, <2>2, LenProperties
  <2>c. PICK p \in Seq(S) : p = g[n - 1]
    BY <2>2
  <2>d. PICK q \in Seq(S) : q = ss[n]
    BY <1>1
  <2>e. PICK l \in Nat : l = Len(q)
    BY <1>1, <2>d
  <2>f. PICK z \in Nat : z = b
    BY <2>3
  <2>4. /\ Len(p \o q) = z + l
        /\ \A i \in 1 .. z + l : (p \o q)[i] = IF i <= z THEN p[i] ELSE q[i - z]
    BY <2>3, <2>c, <2>e, <2>f, ConcatProperties
  <2>5. ASSUME NEW j \in 1 .. l PROVE (p \o q)[z + j] = q[j]
    <3>1. z + j \in 1 .. z + l /\ ~(z + j <= z) /\ (z + j) - z = j
      OBVIOUS
    <3> QED BY <2>4, <3>1
  <2>6. ASSUME NEW j \in 1 .. z PROVE (p \o q)[j] = p[j]
    <3>1. j \in 1 .. z + l /\ j <= z
      OBVIOUS
    <3> QED BY <2>4, <3>1
  <2>7. g[n] = p \o q
    BY <1>2, <1>4, <2>c, <2>d
  <2>8. Len(ss[n]) = l /\ Len(ss[n]) \in Nat /\ b = z
    BY <2>d, <2>e, <2>f
  <2>9. Len(g[n]) = b + Len(ss[n])
    BY <2>4, <2>7, <2>8
  <2>10. \A j \in 1 .. Len(ss[n]) : g[n][b + j] = ss[n][j]
    BY <2>5, <2>7, <2>8, <2>d
  <2>11. \A j \in 1 .. b : g[n][j] = g[n - 1][j]
    BY <2>6, <2>7, <2>8, <2>c
  <2> QED BY <1>4, <2>8, <2>9, <2>10, <2>11
<1> QED BY <1>3, <1>4

\* What is joined stays where it is.
LEMMA JoinedStays ==
    ASSUME NEW S, NEW ss \in Seq(Seq(S)), NEW g, Joined(ss, g, Len(ss)),
           NEW k \in 1 .. Len(ss), NEW n \in k .. Len(ss)
    PROVE  Len(g[k]) <= Len(g[n]) /\ \A j \in 1 .. Len(g[k]) : g[n][j] = g[k][j]
<1> DEFINE Kept(m) == Len(g[k]) <= Len(g[m]) /\ \A j \in 1 .. Len(g[k]) : g[m][j] = g[k][j]
<1> DEFINE Bad == {m \in Nat : m \in k .. Len(ss) /\ ~Kept(m)}
<1>0. Len(ss) \in Nat
  BY LenProperties
<1> SUFFICES ASSUME Bad # {} PROVE FALSE
  <2> HIDE DEF Kept
  <2>1. n \in Nat /\ n \in k .. Len(ss)
    BY <1>0
  <2>2. Kept(n)
    BY <2>1
  <2> QED BY <2>2 DEF Kept
<1>1. PICK m \in Bad : \A i \in Bad : m <= i
  <2>1. Bad \in SUBSET Nat
    OBVIOUS
  <2> HIDE DEF Bad
  <2> QED BY <2>1, LeastNat
<1>2. m \in k .. Len(ss) /\ m \in 1 .. Len(ss) /\ ~Kept(m)
  BY <1>0
<1> HIDE DEF Bad
<1>3. Len(g[k]) \in Nat /\ Len(g[m]) \in Nat
  BY <1>2, JoinedTyped, LenProperties
<1>4. m # k
  BY <1>2, <1>3
<1>5. m - 1 \in k .. Len(ss) /\ m - 1 \in 1 .. Len(ss) /\ m # 1 /\ m - 1 \in Nat /\ ~(m <= m - 1)
  BY <1>0, <1>2, <1>4
<1>6. Kept(m - 1)
  <2> HIDE DEF Kept
  <2> QED BY <1>1, <1>5 DEF Bad
<1>7. /\ Len(g[m - 1]) \in Nat /\ Len(ss[m]) \in Nat /\ Len(g[m]) = Len(g[m - 1]) + Len(ss[m])
      /\ \A j \in 1 .. Len(g[m - 1]) : g[m][j] = g[m - 1][j]
  <2>1. PICK b : b = Len(g[m - 1])
    OBVIOUS
  <2>2. m \in 1 .. Len(ss) /\ (m = 1 => b = 0) /\ (m # 1 => b = Len(g[m - 1]))
    BY <1>2, <1>5, <2>1
  <2>3. /\ b \in Nat /\ Len(ss[m]) \in Nat /\ Len(g[m]) = b + Len(ss[m])
        /\ m # 1 => \A j \in 1 .. b : g[m][j] = g[m - 1][j]
    BY <2>2, JoinedIs
  <2> QED BY <1>5, <2>1, <2>3
<1>8. Kept(m)
  <2>1. Len(g[k]) <= Len(g[m - 1]) /\ \A j \in 1 .. Len(g[k]) : g[m - 1][j] = g[k][j]
    BY <1>6
  <2>2. ASSUME NEW j \in 1 .. Len(g[k]) PROVE g[m][j] = g[k][j]
    <3>1. j \in 1 .. Len(g[m - 1])
      BY <1>3, <1>7, <2>1
    <3> QED BY <1>7, <2>1, <3>1
  <2>3. Len(g[k]) <= Len(g[m])
    <3>1. /\ Len(g[k]) <= Len(g[m - 1]) /\ Len(g[m - 1]) \in Nat /\ Len(ss[m]) \in Nat
          /\ Len(g[m]) = Len(g[m - 1]) + Len(ss[m])
      BY <1>7, <2>1
    <3>2. \A x, y, z \in Nat : x <= y => x <= y + z
      OBVIOUS
    <3> QED BY <1>3, <3>1, <3>2
  <2> QED BY <2>2, <2>3
<1> QED BY <1>2, <1>8

LEMMA FlattenLaid ==
    ASSUME NEW S, NEW ss \in Seq(Seq(S))
    PROVE  FlattenSeq(ss) \in Seq(S) /\ \E ends : Laid(ss, FlattenSeq(ss), ends)
<1>1. Len(ss) \in Nat
  BY LenProperties
<1>2. CASE Len(ss) = 0
  <2>1. ss = << >>
    BY <1>2, EmptySeq
  <2>2. FlattenSeq(ss) = << >>
    BY <1>2, <2>1 DEF FlattenSeq
  <2>3. Laid(ss, << >>, [i \in 0 .. 0 |-> 0])
    BY <1>2, EmptySeq DEF Laid
  <2> QED BY <2>2, <2>3, EmptySeq
<1>3. CASE Len(ss) # 0
  <2>1. PICK g : Joined(ss, g, Len(ss)) /\ FlattenSeq(ss) = g[Len(ss)]
    BY <1>1, <1>3, FlattenIs
  <2> DEFINE ends == [i \in 0 .. Len(ss) |-> IF i = 0 THEN 0 ELSE Len(g[i])]
  <2>2. \A i \in 1 .. Len(ss) : Len(g[i]) \in Nat /\ g[i] \in Seq(S)
    BY <2>1, JoinedTyped, LenProperties
  <2>3. ends \in [0 .. Len(ss) -> Nat] /\ ends[0] = 0 /\ \A i \in 1 .. Len(ss) : ends[i] = Len(g[i])
    BY <1>1, <2>2
  <2>4. Len(ss) \in 1 .. Len(ss)
    BY <1>1, <1>3
  <2> HIDE DEF ends
  <2>5. ASSUME NEW i \in 1 .. Len(ss)
        PROVE  /\ ends[i] = ends[i - 1] + Len(ss[i])
               /\ \A j \in 1 .. Len(ss[i]) : FlattenSeq(ss)[ends[i - 1] + j] = ss[i][j]
    <3>1. ends[i - 1] = IF i = 1 THEN 0 ELSE Len(g[i - 1])
      <4>1. i # 1 => i - 1 \in 1 .. Len(ss)
        BY <1>1
      <4>2. i = 1 => ends[i - 1] = 0
        BY <2>3
      <4> QED BY <2>3, <4>1, <4>2
    <3>2. /\ ends[i - 1] \in Nat /\ Len(ss[i]) \in Nat /\ Len(g[i]) = ends[i - 1] + Len(ss[i])
          /\ \A j \in 1 .. Len(ss[i]) : g[i][ends[i - 1] + j] = ss[i][j]
      <4>1. PICK b : b = ends[i - 1]
        OBVIOUS
      <4>2. (i = 1 => b = 0) /\ (i # 1 => b = Len(g[i - 1]))
        BY <3>1, <4>1
      <4>3. /\ b \in Nat /\ Len(ss[i]) \in Nat /\ Len(g[i]) = b + Len(ss[i])
            /\ \A j \in 1 .. Len(ss[i]) : g[i][b + j] = ss[i][j]
        BY <2>1, <4>2, JoinedIs
      <4> QED BY <4>1, <4>3
    <3>3. \A j \in 1 .. Len(g[i]) : g[Len(ss)][j] = g[i][j]
      <4>1. PICK n : n = Len(ss)
        OBVIOUS
      <4>2. n \in i .. Len(ss)
        BY <1>1, <4>1
      <4>3. Joined(ss, g, Len(ss))
        BY <2>1
      <4>4. \A j \in 1 .. Len(g[i]) : g[n][j] = g[i][j]
        BY <4>2, <4>3, JoinedStays
      <4> QED BY <4>1, <4>4
    <3>4. ASSUME NEW j \in 1 .. Len(ss[i]) PROVE FlattenSeq(ss)[ends[i - 1] + j] = ss[i][j]
      <4>1. ends[i - 1] + j \in 1 .. Len(g[i])
        BY <3>2
      <4> QED BY <2>1, <3>2, <3>3, <4>1
    <3> QED BY <2>3, <3>2, <3>4
  <2>6. Laid(ss, FlattenSeq(ss), ends)
    BY <2>1, <2>3, <2>4, <2>5 DEF Laid
  <2> QED BY <2>1, <2>2, <2>4, <2>6
<1> QED BY <1>2, <1>3

LEMMA EndsRise ==
    ASSUME NEW S, NEW ss \in Seq(Seq(S)), NEW flat, NEW ends, Laid(ss, flat, ends),
           NEW k \in 0 .. Len(ss), NEW n \in k .. Len(ss)
    PROVE  ends[k] \in Nat /\ ends[n] \in Nat /\ ends[k] <= ends[n]
<1> DEFINE Bad == {m \in Nat : m \in k .. Len(ss) /\ ~(ends[k] <= ends[m])}
<1>0. Len(ss) \in Nat /\ ends \in [0 .. Len(ss) -> Nat] /\ k \in Nat /\ n \in 0 .. Len(ss)
  BY LenProperties DEF Laid
<1> SUFFICES ASSUME Bad # {} PROVE FALSE
  BY <1>0
<1>1. PICK m \in Bad : \A i \in Bad : m <= i
  <2>1. Bad \in SUBSET Nat
    OBVIOUS
  <2> HIDE DEF Bad
  <2> QED BY <2>1, LeastNat
<1>2. m \in k .. Len(ss) /\ ~(ends[k] <= ends[m])
  OBVIOUS
<1> HIDE DEF Bad
<1>3. m # k
  <2>1. ends[k] \in Nat
    BY <1>0
  <2> QED BY <1>2, <2>1
<1>4. m \in 1 .. Len(ss) /\ m - 1 \in k .. Len(ss) /\ m - 1 \in Nat /\ ~(m <= m - 1)
  BY <1>0, <1>2, <1>3
<1>5. ends[k] <= ends[m - 1]
  BY <1>1, <1>4 DEF Bad
<1>6. ends[m] = ends[m - 1] + Len(ss[m]) /\ Len(ss[m]) \in Nat
  <2>1. ss[m] \in Seq(S)
    BY <1>4, ElementOfSeq
  <2>2. Len(ss[m]) \in Nat
    BY <2>1, LenProperties
  <2> QED BY <1>4, <2>2 DEF Laid
<1>7. ends[k] \in Nat /\ ends[m - 1] \in Nat /\ ends[m] \in Nat
  <2>1. m \in 0 .. Len(ss) /\ m - 1 \in 0 .. Len(ss)
    BY <1>0, <1>4
  <2> QED BY <1>0, <2>1
<1>8. PICK a \in Nat, b \in Nat, d \in Nat, w \in Nat :
          a = ends[k] /\ b = ends[m - 1] /\ d = ends[m] /\ w = Len(ss[m])
  BY <1>6, <1>7
<1>9. a <= b /\ d = b + w
  BY <1>5, <1>6, <1>8
<1>10. a <= d
  BY <1>9
<1> QED BY <1>2, <1>8, <1>10
-----------------------------------------------------------------------------
(***************************************************************************)
(* What a call's format and its output look like.                          *)
(***************************************************************************)
SpellingsOf(c) == [i \in DOMAIN c |-> c[i].spelling]
PiecesOf(c) == [k \in DOMAIN c |-> [i \in 1 .. Width(c[k]) |-> <<k, i>>]]

\* Where in the format a directive's spelling ends, and in the output its piece.
Starts(c) == CHOOSE ends : Laid(SpellingsOf(c), FlattenSeq(SpellingsOf(c)), ends)
Ends(c) == CHOOSE ends : Laid(PiecesOf(c), FlattenSeq(PiecesOf(c)), ends)

At(f, i) == IF i <= Len(f) THEN f[i] ELSE Nul

\* A directive d is spelled at place p of the format f, the next one at q.
Reading(f, p, q, d) ==
    \/ d.arg = "none" /\ d.len = 1 /\ At(f, p) \notin {"%", Nul} /\ q = p + 1
    \/ d.arg = "none" /\ d.len = 1 /\ At(f, p) = "%" /\ At(f, p + 1) = "%" /\ q = p + 2
    \/ /\ d.arg = "none" /\ d.len = 0 /\ At(f, p) = "%" /\ At(f, p + 1) \notin {"%", "s", "d", Nul}
       /\ ~(At(f, p + 1) = "z" /\ At(f, p + 2) = "u") /\ q = p + 2
    \/ d.arg = "pointer" /\ At(f, p) = "%" /\ At(f, p + 1) = "s" /\ q = p + 2
    \/ /\ d.arg = "size_t" /\ At(f, p) = "%" /\ At(f, p + 1) = "z" /\ At(f, p + 2) = "u"
       /\ q = p + 3
    \/ d.arg = "int" /\ At(f, p) = "%" /\ At(f, p + 1) = "d" /\ q = p + 2

LEMMA DirectiveIs ==
    ASSUME NEW d \in Directives
    PROVE  /\ d.len \in Nat
           /\ \/ d.arg = "none" /\ d.len = 1 /\ \E c \in Chars \ {"%"} : d.spelling = <<c>>
              \/ d.arg = "none" /\ d.len = 1 /\ d.spelling = <<"%", "%">>
              \/ d.arg = "none" /\ d.len = 0 /\ \E c \in Chars \ {"%", "s", "d"} : d.spelling = <<"%", c>>
              \/ d.arg = "pointer" /\ d.spelling = <<"%", "s">>
              \/ d.arg = "size_t" /\ d.spelling = <<"%", "z", "u">>
              \/ d.arg = "int" /\ d.spelling = <<"%", "d">>
<1>1. CASE d \in [spelling : {<<c>> : c \in Chars \ {"%"}} \cup {<<"%", "%">>}, arg : {"none"}, len : {1}]
  <2>1. d.arg = "none" /\ d.len = 1 /\ d.spelling \in {<<c>> : c \in Chars \ {"%"}} \cup {<<"%", "%">>}
    BY <1>1
  <2> QED BY <2>1
<1>2. CASE d \in [spelling : {<<"%", c>> : c \in Chars \ {"%", "s", "d"}}, arg : {"none"}, len : {0}]
  <2>1. d.arg = "none" /\ d.len = 0 /\ d.spelling \in {<<"%", c>> : c \in Chars \ {"%", "s", "d"}}
    BY <1>2
  <2> QED BY <2>1
<1>3. CASE d \in [spelling : {<<"%", "s">>}, arg : {"pointer"}, len : Nat]
  BY <1>3
<1>4. CASE d \in [spelling : {<<"%", "z", "u">>}, arg : {"size_t"}, len : Nat]
  BY <1>4
<1>5. CASE d \in [spelling : {<<"%", "d">>}, arg : {"int"}, len : Nat]
  BY <1>5
<1> QED BY <1>1, <1>2, <1>3, <1>4, <1>5 DEF Directives

LEMMA SpellingIs ==
    ASSUME NEW d \in Directives
    PROVE  /\ d.spelling \in Seq(Chars) /\ Len(d.spelling) \in 1 .. 3
           /\ d.spelling[1] = "u" => d.spelling = <<"u">>
<1>1. {"%", "s", "z", "u", "d"} \subseteq Chars
  BY FormatAssumption
<1>2. CASE \E c \in Chars \ {"%"} : d.spelling = <<c>>
  BY <1>2
<1>3. CASE \E c \in Chars \ {"%", "s", "d"} : d.spelling = <<"%", c>>
  BY <1>1, <1>3
<1>4. CASE \E c \in {"%", "s", "d"} : d.spelling = <<"%", c>>
  BY <1>1, <1>4
<1>5. CASE d.spelling = <<"%", "z", "u">>
  BY <1>1, <1>5
<1> QED BY <1>2, <1>3, <1>4, <1>5, DirectiveIs

LEMMA CallIs ==
    ASSUME NEW c \in Calls
    PROVE  /\ c \in Seq(Directives) /\ Len(c) \in Nat /\ DOMAIN c = 1 .. Len(c)
           /\ \A k \in 1 .. Len(c) : c[k] \in Directives
<1>1. c \in Seq(Directives)
  BY FormatAssumption
<1> QED BY <1>1, LenProperties, ElementOfSeq

LEMMA WidthIs ==
    ASSUME NEW d \in Directives
    PROVE  /\ Width(d) \in Nat
           /\ ~IsNumber(d) => Width(d) = d.len
           /\ IsNumber(d) => Width(d) = IF d.len = 0 THEN 1 ELSE d.len
BY DirectiveIs DEF Width

LEMMA FormatIs ==
    ASSUME NEW c \in Calls
    PROVE  LET f == FlattenSeq(SpellingsOf(c)) s == Starts(c)
           IN  /\ f \in Seq(Chars) /\ s \in [0 .. Len(c) -> Nat] /\ s[0] = 0
               /\ \A i \in 1 .. Len(c) : s[i] = s[i - 1] + Len(c[i].spelling)
               /\ Len(f) = s[Len(c)]
               /\ \A i \in 1 .. Len(c) : \A j \in 1 .. Len(c[i].spelling) :
                     f[s[i - 1] + j] = c[i].spelling[j]
               /\ \A k \in 0 .. Len(c) : s[k] <= Len(f)
<1> DEFINE ss == SpellingsOf(c)
<1>1. /\ Len(c) \in Nat /\ DOMAIN c = 1 .. Len(c)
      /\ \A k \in 1 .. Len(c) : c[k].spelling \in Seq(Chars)
  BY CallIs, SpellingIs
<1>2. ss \in Seq(Seq(Chars)) /\ Len(ss) = Len(c) /\ \A i \in 1 .. Len(c) : ss[i] = c[i].spelling
  BY <1>1 DEF SpellingsOf
<1>3. FlattenSeq(ss) \in Seq(Chars) /\ \E ends : Laid(ss, FlattenSeq(ss), ends)
  BY <1>2, FlattenLaid
<1>4. Laid(ss, FlattenSeq(ss), Starts(c))
  BY <1>3 DEF Starts
<1> HIDE DEF ss
<1>5. \A k \in 0 .. Len(c) : Starts(c)[k] <= Starts(c)[Len(c)]
  <2> SUFFICES ASSUME NEW k \in 0 .. Len(c) PROVE Starts(c)[k] <= Starts(c)[Len(c)]
    OBVIOUS
  <2>1. k \in 0 .. Len(ss) /\ Len(ss) \in k .. Len(ss)
    BY <1>1, <1>2
  <2> QED BY <1>2, <1>4, <2>1, EndsRise
<1>6. PICK f, s : f = FlattenSeq(SpellingsOf(c)) /\ s = Starts(c) /\ Laid(ss, f, s)
  BY <1>4 DEF ss
<1>7. /\ s \in [0 .. Len(ss) -> Nat] /\ s[0] = 0
      /\ \A i \in 1 .. Len(ss) : s[i] = s[i - 1] + Len(ss[i])
      /\ Len(f) = s[Len(ss)]
      /\ \A i \in 1 .. Len(ss) : \A j \in 1 .. Len(ss[i]) : f[s[i - 1] + j] = ss[i][j]
  BY <1>6 DEF Laid
<1>8. \A i \in 1 .. Len(c) : s[i] = s[i - 1] + Len(c[i].spelling)
  BY <1>2, <1>7
<1>9. ASSUME NEW i \in 1 .. Len(c)
      PROVE  \A j \in 1 .. Len(c[i].spelling) : f[s[i - 1] + j] = c[i].spelling[j]
  <2>1. ss[i] = c[i].spelling /\ i \in 1 .. Len(ss)
    BY <1>2
  <2>2. \A j \in 1 .. Len(ss[i]) : f[s[i - 1] + j] = ss[i][j]
    BY <1>7, <2>1
  <2> QED BY <2>1, <2>2
<1>10. \A k \in 0 .. Len(c) : s[k] <= Len(f)
  BY <1>2, <1>5, <1>6, <1>7
<1>11. f \in Seq(Chars)
  BY <1>3, <1>6 DEF ss
<1> QED BY <1>2, <1>6, <1>7, <1>8, <1>9, <1>10, <1>11

LEMMA OutputIs ==
    ASSUME NEW c \in Calls
    PROVE  LET r == FlattenSeq(PiecesOf(c)) e == Ends(c)
           IN  /\ r \in Seq(Nat \X Nat) /\ e \in [0 .. Len(c) -> Nat] /\ e[0] = 0
               /\ \A i \in 1 .. Len(c) : e[i] = e[i - 1] + Width(c[i])
               /\ Len(r) = e[Len(c)]
               /\ \A i \in 1 .. Len(c) : \A j \in 1 .. Width(c[i]) : r[e[i - 1] + j] = <<i, j>>
               /\ \A k \in 0 .. Len(c) : e[k] <= Len(r)
<1> DEFINE ss == PiecesOf(c)
<1>1. /\ Len(c) \in Nat /\ DOMAIN c = 1 .. Len(c)
      /\ \A k \in 1 .. Len(c) : Width(c[k]) \in Nat
  BY CallIs, WidthIs
<1>2. /\ ss \in Seq(Seq(Nat \X Nat)) /\ Len(ss) = Len(c)
      /\ \A i \in 1 .. Len(c) : Len(ss[i]) = Width(c[i]) /\ \A j \in 1 .. Width(c[i]) : ss[i][j] = <<i, j>>
  <2>1. ss = [k \in 1 .. Len(c) |-> [i \in 1 .. Width(c[k]) |-> <<k, i>>]]
    BY <1>1 DEF PiecesOf
  <2>2. ASSUME NEW k \in 1 .. Len(c)
        PROVE  /\ ss[k] \in Seq(Nat \X Nat) /\ Len(ss[k]) = Width(c[k])
               /\ \A j \in 1 .. Width(c[k]) : ss[k][j] = <<k, j>>
    <3>1. ss[k] = [i \in 1 .. Width(c[k]) |-> <<k, i>>]
      BY <2>1
    <3>2. Width(c[k]) \in Nat /\ k \in Nat
      BY <1>1
    <3> HIDE DEF ss
    <3> QED BY <3>1, <3>2
  <2>3. ss \in Seq(Seq(Nat \X Nat)) /\ Len(ss) = Len(c)
    <3> HIDE DEF ss
    <3> QED BY <1>1, <2>1, <2>2
  <2> QED BY <2>2, <2>3
<1>3. FlattenSeq(ss) \in Seq(Nat \X Nat) /\ \E ends : Laid(ss, FlattenSeq(ss), ends)
  BY <1>2, FlattenLaid
<1>4. Laid(ss, FlattenSeq(ss), Ends(c))
  BY <1>3 DEF Ends
<1> HIDE DEF ss
<1>5. \A k \in 0 .. Len(c) : Ends(c)[k] <= Ends(c)[Len(c)]
  <2> SUFFICES ASSUME NEW k \in 0 .. Len(c) PROVE Ends(c)[k] <= Ends(c)[Len(c)]
    OBVIOUS
  <2>1. k \in 0 .. Len(ss) /\ Len(ss) \in k .. Len(ss)
    BY <1>1, <1>2
  <2> QED BY <1>2, <1>4, <2>1, EndsRise
<1>6. PICK r, e : r = FlattenSeq(PiecesOf(c)) /\ e = Ends(c) /\ Laid(ss, r, e)
  BY <1>4 DEF ss
<1>7. /\ e \in [0 .. Len(ss) -> Nat] /\ e[0] = 0
      /\ \A i \in 1 .. Len(ss) : e[i] = e[i - 1] + Len(ss[i])
      /\ Len(r) = e[Len(ss)]
      /\ \A i \in 1 .. Len(ss) : \A j \in 1 .. Len(ss[i]) : r[e[i - 1] + j] = ss[i][j]
  BY <1>6 DEF Laid
<1>8. \A i \in 1 .. Len(c) : e[i] = e[i - 1] + Width(c[i])
  BY <1>2, <1>7
<1>9. ASSUME NEW i \in 1 .. Len(c), NEW j \in 1 .. Width(c[i]) PROVE r[e[i - 1] + j] = <<i, j>>
  <2>1. Len(ss[i]) = Width(c[i]) /\ ss[i][j] = <<i, j>>
    BY <1>2
  <2>2. i \in 1 .. Len(ss) /\ j \in 1 .. Len(ss[i])
    BY <1>2, <2>1
  <2> QED BY <1>7, <2>1, <2>2
<1>10. \A k \in 0 .. Len(c) : e[k] <= Len(r)
  BY <1>2, <1>5, <1>6, <1>7
<1>11. r \in Seq(Nat \X Nat)
  BY <1>3, <1>6 DEF ss
<1> QED BY <1>2, <1>6, <1>7, <1>8, <1>9, <1>10, <1>11

\* The places of the format where a round begins.
LEMMA ReadingIs ==
    ASSUME NEW c \in Calls, NEW k \in 1 .. Len(c)
    PROVE  Reading(FlattenSeq(SpellingsOf(c)), Starts(c)[k - 1] + 1, Starts(c)[k] + 1, c[k])
<1>1. PICK f : f = FlattenSeq(SpellingsOf(c))
  OBVIOUS
<1>2. PICK e : e = Starts(c)
  OBVIOUS
<1>3. /\ f \in Seq(Chars) /\ e \in [0 .. Len(c) -> Nat]
      /\ \A i \in 1 .. Len(c) : e[i] = e[i - 1] + Len(c[i].spelling)
      /\ \A i \in 1 .. Len(c) : \A j \in 1 .. Len(c[i].spelling) :
                     f[e[i - 1] + j] = c[i].spelling[j]
      /\ \A i \in 0 .. Len(c) : e[i] <= Len(f)
      /\ Len(f) = e[Len(c)] /\ Len(f) \in Nat /\ Len(c) \in Nat
  BY <1>1, <1>2, FormatIs, CallIs, LenProperties
<1>4. PICK d \in Directives : d = c[k]
  BY CallIs
<1>5. PICK l \in 1 .. 3 : l = Len(d.spelling)
  BY SpellingIs
<1>6. PICK p \in Nat : p = e[k - 1]
  <2>1. k - 1 \in 0 .. Len(c)
    BY <1>3
  <2> QED BY <1>3, <2>1
<1>7. /\ e[k] = p + l /\ p + l <= Len(f)
      /\ \A j \in 1 .. l : At(f, p + j) = d.spelling[j]
  <2>1. e[k] = p + l /\ e[k] <= Len(f)
    <3>1. e[k] = e[k - 1] + Len(c[k].spelling)
      BY <1>3
    <3>2. k \in 0 .. Len(c)
      BY <1>3
    <3>3. e[k] <= Len(f)
      BY <1>3, <3>2
    <3> QED BY <1>4, <1>5, <1>6, <3>1, <3>3
  <2>2. ASSUME NEW j \in 1 .. l PROVE At(f, p + j) = d.spelling[j]
    <3>1. f[p + j] = d.spelling[j]
      BY <1>3, <1>4, <1>5, <1>6
    <3>2. p + j <= Len(f)
      BY <1>3, <2>1
    <3> QED BY <3>1, <3>2 DEF At
  <2> QED BY <2>1, <2>2
<1>8. (p + 1) + 1 = p + 2 /\ (p + 1) + 2 = p + 3 /\ (p + 1) + 3 = p + 4
      /\ (p + 1) + 1 = (p + 2)
  OBVIOUS
<1>9. d.spelling = <<"%", "z">> => At(f, p + 3) # "u"
  <2> SUFFICES ASSUME d.spelling = <<"%", "z">> PROVE At(f, p + 3) # "u"
    OBVIOUS
  <2>1. l = 2 /\ e[k] = p + 2
    BY <1>5, <1>7
  <2>2. CASE k = Len(c)
    <3>1. ~(p + 3 <= Len(f))
      BY <1>3, <2>1, <2>2
    <3> QED BY <3>1 DEF At, Nul
  <2>3. CASE k # Len(c)
    <3>1. k + 1 \in 1 .. Len(c) /\ (k + 1) - 1 = k /\ k \in 1 .. Len(c) - 1
      BY <1>3, <2>3
    <3>2. c[k + 1] \in Directives
      BY <3>1, CallIs
    <3>3. PICK h \in 1 .. 3 : h = Len(c[k + 1].spelling)
      BY <3>2, SpellingIs
    <3>4. f[e[k] + 1] = c[k + 1].spelling[1]
      <4>0. 1 \in 1 .. h
        OBVIOUS
      <4>1. 1 \in 1 .. Len(c[k + 1].spelling)
        BY <3>3, <4>0, Zenon
      <4>2. f[e[(k + 1) - 1] + 1] = c[k + 1].spelling[1]
        BY <1>3, <3>1, <4>1
      <4> QED BY <3>1, <4>2
    <3>5. e[k + 1] = e[k] + h /\ e[k + 1] <= Len(f)
      BY <1>3, <3>1, <3>3
    <3>6. p + 3 <= Len(f) /\ e[k] + 1 = p + 3
      BY <1>3, <2>1, <3>5
    <3>7. c[k + 1].spelling # <<"u">>
      BY <1>4, <3>1, FormatAssumption
    <3>8. c[k + 1].spelling[1] # "u"
      BY <3>2, <3>7, SpellingIs
    <3> QED BY <3>4, <3>6, <3>8 DEF At
  <2> QED BY <2>2, <2>3
<1>10. Nul \notin Chars /\ Nul # "%"
  BY FormatAssumption DEF Nul
<1>11. Reading(f, p + 1, e[k] + 1, d)
  <2>1. CASE d.arg = "none" /\ d.len = 1 /\ \E x \in Chars \ {"%"} : d.spelling = <<x>>
    <3>1. PICK x \in Chars \ {"%"} : d.spelling = <<x>>
      BY <2>1
    <3>2. l = 1 /\ At(f, p + 1) = x
      BY <1>5, <1>7, <3>1
    <3>3. e[k] + 1 = (p + 1) + 1
      BY <1>7, <3>2
    <3> QED BY <1>10, <2>1, <3>2, <3>3 DEF Reading
  <2>2. CASE d.arg = "none" /\ d.len = 1 /\ d.spelling = <<"%", "%">>
    <3>1. l = 2
      BY <1>5, <2>2
    <3>2. At(f, p + 1) = "%" /\ At(f, (p + 1) + 1) = "%" /\ e[k] + 1 = (p + 1) + 2
      BY <1>7, <1>8, <2>2, <3>1
    <3> QED BY <2>2, <3>2 DEF Reading
  <2>3. CASE d.arg = "none" /\ d.len = 0 /\ \E x \in Chars \ {"%", "s", "d"} : d.spelling = <<"%", x>>
    <3>1. PICK x \in Chars \ {"%", "s", "d"} : d.spelling = <<"%", x>>
      BY <2>3
    <3>2. l = 2
      BY <1>5, <3>1
    <3>3. At(f, p + 1) = "%" /\ At(f, (p + 1) + 1) = x /\ e[k] + 1 = (p + 1) + 2
      BY <1>7, <1>8, <3>1, <3>2
    <3>4. x = "z" => At(f, (p + 1) + 2) # "u"
      BY <1>8, <1>9, <3>1
    <3> QED BY <1>10, <2>3, <3>3, <3>4 DEF Reading
  <2>4. CASE d.arg = "pointer" /\ d.spelling = <<"%", "s">>
    <3>1. l = 2
      BY <1>5, <2>4
    <3>2. At(f, p + 1) = "%" /\ At(f, (p + 1) + 1) = "s" /\ e[k] + 1 = (p + 1) + 2
      BY <1>7, <1>8, <2>4, <3>1
    <3> QED BY <2>4, <3>2 DEF Reading
  <2>5. CASE d.arg = "size_t" /\ d.spelling = <<"%", "z", "u">>
    <3>1. l = 3
      BY <1>5, <2>5
    <3>2. /\ At(f, p + 1) = "%" /\ At(f, (p + 1) + 1) = "z" /\ At(f, (p + 1) + 2) = "u"
          /\ e[k] + 1 = (p + 1) + 3
      BY <1>7, <1>8, <2>5, <3>1
    <3> QED BY <2>5, <3>2 DEF Reading
  <2>6. CASE d.arg = "int" /\ d.spelling = <<"%", "d">>
    <3>1. l = 2
      BY <1>5, <2>6
    <3>2. At(f, p + 1) = "%" /\ At(f, (p + 1) + 1) = "d" /\ e[k] + 1 = (p + 1) + 2
      BY <1>7, <1>8, <2>6, <3>1
    <3> QED BY <2>6, <3>2 DEF Reading
  <2> QED BY <2>1, <2>2, <2>3, <2>4, <2>5, <2>6, DirectiveIs
<1> QED BY <1>1, <1>2, <1>4, <1>6, <1>11
-----------------------------------------------------------------------------
(***************************************************************************)
(* The invariant. As long as there is room, or the output fits, the loop   *)
(* is in step with the directives: it stands where one is spelled, and the *)
(* argument it would take is that directive's.                             *)
(***************************************************************************)
Typed ==
    /\ call \in Calls /\ bufsz \in Nat /\ format = FlattenSeq(SpellingsOf(call))
    /\ at \in Nat /\ taken \in Nat /\ rounds \in Nat /\ copied \in Nat
    /\ out \in Seq(Nat \X Nat)

InStep ==
    /\ rounds \in 0 .. Len(call) /\ at = Starts(call)[rounds] + 1
    /\ taken <= rounds /\ \A i \in taken + 1 .. rounds : call[i].arg = "none"
    /\ pc \in {"walk", "copy", "done"}
    /\ pc = "done" => rounds = Len(call)
    /\ pc = "copy" => /\ rounds < Len(call) /\ call[rounds + 1].arg = "pointer"
                      /\ copied <= call[rounds + 1].len
    /\ \A i \in 1 .. Len(out) : out[i][1] <= rounds \/ (out[i][1] = rounds + 1 /\ pc = "copy")

\* All of the output up to where the loop stands.
Complete ==
    /\ Len(out) = Ends(call)[rounds] + IF pc = "copy" THEN copied ELSE 0
    /\ Len(out) <= Len(Rendered)
    /\ \A i \in 1 .. Len(out) : out[i] = Rendered[i]

NumbersWhole ==
    \A k \in 1 .. Len(call) : IsNumber(call[k]) => PlacesOf(k) \in {{}, 1 .. Width(call[k])}

Sound == ~Full \/ Fits

Copying == pc = "copy" => Left # {}

IInv ==
    /\ Typed
    /\ WithinBuffer
    /\ Sound => InStep
    /\ Fits => Complete
    /\ NumbersWhole
    /\ Copying

LEMMA RenderedIs ==
    ASSUME call \in Calls
    PROVE  /\ Rendered = FlattenSeq(PiecesOf(call)) /\ Rendered \in Seq(Nat \X Nat)
           /\ Len(Rendered) \in Nat /\ Len(call) \in Nat /\ Len(Rendered) = Ends(call)[Len(call)]
           /\ \A k \in 0 .. Len(call) : Ends(call)[k] \in Nat /\ Ends(call)[k] <= Len(Rendered)
           /\ \A k \in 1 .. Len(call) :
                 /\ Ends(call)[k] = Ends(call)[k - 1] + Width(call[k])
                 /\ \A j \in 1 .. Width(call[k]) : Rendered[Ends(call)[k - 1] + j] = <<k, j>>
<1>1. PICK r, e : r = FlattenSeq(PiecesOf(call)) /\ e = Ends(call)
  OBVIOUS
<1>2. /\ r \in Seq(Nat \X Nat) /\ e \in [0 .. Len(call) -> Nat] /\ e[0] = 0
      /\ \A i \in 1 .. Len(call) : e[i] = e[i - 1] + Width(call[i])
      /\ Len(r) = e[Len(call)]
      /\ \A i \in 1 .. Len(call) : \A j \in 1 .. Width(call[i]) : r[e[i - 1] + j] = <<i, j>>
      /\ \A k \in 0 .. Len(call) : e[k] <= Len(r)
  BY <1>1, OutputIs
<1>3. Rendered = r
  BY <1>1 DEF Rendered, PiecesOf
<1>4. Len(call) \in Nat /\ Len(r) \in Nat
  BY <1>2, CallIs, LenProperties
<1> QED BY <1>1, <1>2, <1>3, <1>4

LEMMA FitsIs ==
    ASSUME call \in Calls, bufsz \in Nat, Fits
    PROVE  /\ Len(Rendered) + 1 <= bufsz
           /\ \A k \in 1 .. Len(call) :
                 IsNumber(call[k]) /\ call[k].len > 0 => Ends(call)[k] + 2 <= bufsz
<1>1. PICK r : r = Rendered
  OBVIOUS
<1>2. PICK last : last = IF r = << >> THEN 0 ELSE r[Len(r)][1]
  OBVIOUS
<1>3. PICK spare : spare = IF last # 0 /\ IsNumber(call[last]) /\ call[last].len > 0 THEN 1 ELSE 0
  OBVIOUS
<1>4. Len(r) + 1 + spare <= bufsz
  BY <1>1, <1>2, <1>3 DEF Fits
<1>5. PICK n \in Nat : n = Len(r)
  BY <1>1, RenderedIs
<1>6. spare \in {0, 1} /\ n + 1 + spare <= bufsz
  BY <1>3, <1>4, <1>5
<1>7. n + 1 <= bufsz /\ (spare = 1 => n + 2 <= bufsz)
  BY <1>6
<1>8. ASSUME NEW k \in 1 .. Len(call), IsNumber(call[k]), call[k].len > 0
      PROVE  Ends(call)[k] + 2 <= bufsz
  <2>1. k \in 0 .. Len(call) /\ k \in Nat /\ k # 0 /\ k - 1 \in 0 .. Len(call)
    BY RenderedIs
  <2>2. PICK w \in Nat : w = Width(call[k]) /\ w > 0
    <3>1. call[k] \in Directives
      BY CallIs
    <3>2. call[k].len \in Nat /\ Width(call[k]) = call[k].len
      BY <1>8, <3>1, WidthIs, DirectiveIs
    <3> QED BY <1>8, <3>2
  <2>3. PICK p \in Nat, q \in Nat : p = Ends(call)[k - 1] /\ q = Ends(call)[k]
    BY <2>1, RenderedIs
  <2>4. q = p + w /\ q <= n /\ \A j \in 1 .. w : r[p + j] = <<k, j>>
    BY <1>1, <1>5, <2>1, <2>2, <2>3, RenderedIs
  <2>5. CASE q = n
    <3>1. r[n] = <<k, w>>
      <4>1. w \in 1 .. w /\ p + w = n
        BY <2>2, <2>4, <2>5
      <4> QED BY <2>4, <4>1
    <3>2. r # << >>
      <4>1. n > 0
        BY <2>2, <2>4, <2>5
      <4> QED BY <1>5, <4>1, EmptySeq
    <3>3. last = k
      BY <1>2, <1>5, <3>1, <3>2
    <3>4. spare = 1
      BY <1>3, <1>8, <2>1, <3>3
    <3> QED BY <1>7, <2>3, <2>5, <3>4
  <2>6. CASE q # n
    <3>1. q + 2 <= n + 1
      BY <2>4, <2>6
    <3> QED BY <1>7, <2>3, <3>1
  <2> QED BY <2>5, <2>6
<1> QED BY <1>1, <1>5, <1>7, <1>8

\* What is left of an output that fits has room.
LEMMA Fitting ==
    ASSUME Typed, InStep, Fits, Complete, pc = "walk", NEW k \in 1 .. Len(call), k = rounds + 1
    PROVE  /\ bufsz - Len(out) > Width(call[k])
           /\ IsNumber(call[k]) /\ call[k].len > 0 => bufsz - Len(out) > call[k].len + 1
<1>1. call \in Calls /\ bufsz \in Nat /\ rounds \in Nat /\ rounds = k - 1 /\ Len(call) \in Nat
  BY RenderedIs DEF Typed
<1>2. PICK p \in Nat, q \in Nat : p = Ends(call)[rounds] /\ q = Ends(call)[k]
  <2>1. rounds \in 0 .. Len(call) /\ k \in 0 .. Len(call)
    BY <1>1
  <2> QED BY <1>1, <2>1, RenderedIs
<1>3. PICK w \in Nat : w = Width(call[k])
  BY <1>1, CallIs, WidthIs
<1>4. Len(out) = p
  BY <1>2 DEF Complete
<1>5. q = p + w /\ q <= Len(Rendered) /\ Len(Rendered) \in Nat
  <2>1. k \in 0 .. Len(call)
    BY <1>1
  <2>2. Ends(call)[k] = Ends(call)[k - 1] + Width(call[k]) /\ Ends(call)[k] <= Len(Rendered)
    BY <1>1, <2>1, RenderedIs
  <2> QED BY <1>1, <1>2, <1>3, <2>2, RenderedIs
<1>6. q + 1 <= bufsz
  <2>1. Len(Rendered) + 1 <= bufsz
    BY <1>1, FitsIs
  <2> QED BY <1>1, <1>5, <2>1
<1>7. bufsz - Len(out) > w
  BY <1>1, <1>4, <1>5, <1>6
<1>8. ASSUME IsNumber(call[k]), call[k].len > 0 PROVE bufsz - Len(out) > call[k].len + 1
  <2>1. q + 2 <= bufsz
    BY <1>1, <1>2, <1>8, FitsIs
  <2>2. call[k].len = w
    <3>1. call[k] \in Directives
      BY <1>1, CallIs
    <3>2. PICK d \in Directives : d = call[k]
      BY <3>1
    <3>3. d.len \in Nat
      BY DirectiveIs
    <3>4. d.len # 0 /\ IsNumber(d)
      BY <1>8, <3>2, <3>3
    <3>5. Width(d) = d.len
      BY <3>4, WidthIs
    <3> QED BY <1>3, <3>2, <3>5
  <2> QED BY <1>1, <1>4, <1>5, <2>1, <2>2
<1> QED BY <1>3, <1>7, <1>8

LEMMA LeftIs ==
    ASSUME Typed
    PROVE  /\ Left \in SUBSET Nat /\ Left \subseteq 1 .. Len(call)
           /\ Left # {} => Min(Left) \in Left /\ Argument \in Directives /\ Argument.arg # "none"
<1>1. Len(call) \in Nat /\ taken \in Nat /\ \A k \in 1 .. Len(call) : call[k] \in Directives
  BY CallIs DEF Typed
<1>2. Left \in SUBSET Nat /\ Left \subseteq 1 .. Len(call)
  BY <1>1 DEF Left
<1>3. Left # {} => Min(Left) \in Left
  <2> SUFFICES ASSUME Left # {} PROVE Min(Left) \in Left
    OBVIOUS
  <2>1. PICK m \in Left : \A j \in Left : m <= j
    BY <1>2, LeastNat
  <2> QED BY <1>2, <2>1, MinIs
<1>4. \A i \in Left : call[i].arg # "none"
  BY DEF Left
<1> QED BY <1>1, <1>2, <1>3, <1>4 DEF Argument

\* The argument of the directive the loop stands at is the next one.
LEMMA ArgumentIs ==
    ASSUME Typed, InStep, NEW k \in 1 .. Len(call), k = rounds + 1, call[k].arg # "none"
    PROVE  Left # {} /\ Min(Left) = k /\ Argument = call[k]
<1>1. Len(call) \in Nat /\ taken \in Nat /\ rounds \in Nat /\ taken <= rounds
      /\ \A i \in taken + 1 .. rounds : call[i].arg = "none"
  BY CallIs DEF Typed, InStep
<1>2. k \in taken + 1 .. Len(call)
  BY <1>1
<1>3. k \in Left
  BY <1>2 DEF Left
<1>4. ASSUME NEW j \in Left PROVE k <= j
  <2>1. j \in taken + 1 .. Len(call) /\ call[j].arg # "none" /\ j \in Nat
    BY <1>1 DEF Left
  <2>2. j \notin taken + 1 .. rounds
    BY <1>1, <2>1
  <2> QED BY <1>1, <2>1, <2>2
<1>5. Min(Left) = k
  BY <1>3, <1>4, LeftIs, MinIs
<1> QED BY <1>3, <1>5 DEF Argument

\* What the loop reads when it is in step.
LEMMA Looking ==
    ASSUME Typed, InStep
    PROVE  /\ \A i : Char(i) = At(format, i)
           /\ rounds = Len(call) => Char(at) = Nul
           /\ rounds # Len(call) =>
                 /\ rounds + 1 \in 1 .. Len(call)
                 /\ Reading(format, at, Starts(call)[rounds + 1] + 1, call[rounds + 1])
<1>1. call \in Calls /\ Len(call) \in Nat /\ rounds \in 0 .. Len(call)
      /\ at = Starts(call)[rounds] + 1 /\ format = FlattenSeq(SpellingsOf(call))
  BY CallIs DEF Typed, InStep
<1>2. \A i : Char(i) = At(format, i)
  BY DEF Char, At
<1>3. rounds = Len(call) => Char(at) = Nul
  <2>1. format \in Seq(Chars) /\ Len(format) = Starts(call)[Len(call)] /\ Len(format) \in Nat
    BY <1>1, FormatIs, LenProperties
  <2> QED BY <1>1, <2>1 DEF Char
<1>4. ASSUME rounds # Len(call)
      PROVE  /\ rounds + 1 \in 1 .. Len(call)
             /\ Reading(format, at, Starts(call)[rounds + 1] + 1, call[rounds + 1])
  <2>1. PICK k \in 1 .. Len(call) : k = rounds + 1 /\ k - 1 = rounds
    BY <1>1, <1>4
  <2>2. Reading(FlattenSeq(SpellingsOf(call)), Starts(call)[k - 1] + 1, Starts(call)[k] + 1, call[k])
    BY <1>1, ReadingIs
  <2> QED BY <1>1, <2>1, <2>2
<1> QED BY <1>2, <1>3, <1>4
-----------------------------------------------------------------------------
(***************************************************************************)
(* A round of the loop.                                                    *)
(***************************************************************************)
\* Nothing that these are about changes but what a step says.
Fixed == call' = call /\ format' = format /\ bufsz' = bufsz

LEMMA FixedIs ==
    ASSUME Fixed
    PROVE  (Fits' <=> Fits) /\ Rendered' = Rendered
<1>1. call' = call /\ bufsz' = bufsz
  BY DEF Fixed
<1>2. Rendered' = Rendered
  BY <1>1 DEF Rendered, Width, IsNumber
<1> QED BY <1>1, <1>2 DEF Fits, IsNumber

\* The output grows by what the round writes.
LEMMA PutIs ==
    ASSUME Typed, NEW n \in Nat, out' = out \o [i \in 1 .. n |-> <<rounds + 1, i>>]
    PROVE  /\ out' \in Seq(Nat \X Nat) /\ Len(out) \in Nat /\ Len(out') = Len(out) + n
           /\ \A i \in 1 .. Len(out) : out'[i] = out[i]
           /\ \A i \in 1 .. n : out'[Len(out) + i] = <<rounds + 1, i>>
<1>1. PICK s : s = [i \in 1 .. n |-> <<rounds + 1, i>>]
  OBVIOUS
<1>2. PICK o \in Seq(Nat \X Nat) : o = out
  BY DEF Typed
<1>3. s \in Seq(Nat \X Nat) /\ Len(s) = n /\ \A i \in 1 .. n : s[i] = <<rounds + 1, i>>
  <2>1. rounds + 1 \in Nat
    BY DEF Typed
  <2> QED BY <1>1, <2>1
<1>4. PICK l \in Nat : l = Len(o)
  BY LenProperties
<1>5. /\ o \o s \in Seq(Nat \X Nat) /\ Len(o \o s) = l + n
      /\ \A i \in 1 .. l + n : (o \o s)[i] = IF i <= l THEN o[i] ELSE s[i - l]
  BY <1>3, <1>4, ConcatProperties
<1>6. ASSUME NEW i \in 1 .. l PROVE (o \o s)[i] = o[i]
  <2>1. i \in 1 .. l + n /\ i <= l
    OBVIOUS
  <2> QED BY <1>5, <2>1
<1>7. ASSUME NEW i \in 1 .. n PROVE (o \o s)[l + i] = <<rounds + 1, i>>
  <2>1. l + i \in 1 .. l + n /\ ~(l + i <= l) /\ (l + i) - l = i
    OBVIOUS
  <2> QED BY <1>3, <1>5, <2>1
<1>8. out' = o \o s
  BY <1>1, <1>2
<1> QED BY <1>2, <1>4, <1>5, <1>6, <1>7, <1>8

\* A place of the output is an old one or one of the round's.
LEMMA PutPlaces ==
    ASSUME Typed, NEW n \in Nat, out' = out \o [i \in 1 .. n |-> <<rounds + 1, i>>],
           NEW i \in 1 .. Len(out')
    PROVE  \/ i \in 1 .. Len(out) /\ out'[i] = out[i]
           \/ \E j \in 1 .. n : i = Len(out) + j /\ out'[i] = <<rounds + 1, j>>
<1>1. Len(out) \in Nat /\ Len(out') = Len(out) + n
  BY PutIs
<1>2. CASE i <= Len(out)
  <2>1. i \in 1 .. Len(out)
    BY <1>1, <1>2
  <2> QED BY <2>1, PutIs
<1>3. CASE ~(i <= Len(out))
  <2>1. PICK j \in 1 .. n : i = Len(out) + j
    <3>1. i - Len(out) \in 1 .. n /\ i = Len(out) + (i - Len(out))
      BY <1>1, <1>3
    <3> QED BY <3>1
  <2>2. out'[Len(out) + j] = <<rounds + 1, j>>
    BY PutIs
  <2> QED BY <2>1, <2>2
<1> QED BY <1>2, <1>3

LEMMA PairIs ==
    ASSUME NEW x, NEW a, NEW b, x = <<a, b>>
    PROVE  x[1] = a /\ x[2] = b
OBVIOUS

LEMMA PlacesAre ==
    ASSUME NEW h, NEW x, DOMAIN out = 1 .. Len(out)
    PROVE  x \in PlacesOf(h) <=> \E i \in 1 .. Len(out) : out[i][1] = h /\ out[i][2] = x
BY DEF PlacesOf

LEMMA PlacesNext ==
    ASSUME NEW h, NEW x, DOMAIN out' = 1 .. Len(out')
    PROVE  x \in PlacesOf(h)' <=> \E i \in 1 .. Len(out') : out'[i][1] = h /\ out'[i][2] = x
BY DEF PlacesOf

LEMMA PlacesKept ==
    ASSUME NEW h, DOMAIN out = 1 .. Len(out), DOMAIN out' = 1 .. Len(out'),
           \A i \in 1 .. Len(out') : out'[i][1] = h => i \in 1 .. Len(out) /\ out'[i] = out[i],
           \A i \in 1 .. Len(out) : i \in 1 .. Len(out') /\ out'[i] = out[i]
    PROVE  PlacesOf(h)' = PlacesOf(h)
<1>1. ASSUME NEW x, x \in PlacesOf(h)' PROVE x \in PlacesOf(h)
  <2>1. PICK i \in 1 .. Len(out') : out'[i][1] = h /\ out'[i][2] = x
    BY <1>1, PlacesNext
  <2> QED BY <2>1, PlacesAre
<1>2. ASSUME NEW x, x \in PlacesOf(h) PROVE x \in PlacesOf(h)'
  <2>1. PICK i \in 1 .. Len(out) : out[i][1] = h /\ out[i][2] = x
    BY <1>2, PlacesAre
  <2> QED BY <2>1, PlacesNext
<1> QED BY <1>1, <1>2

\* The places that out' has of h are those up to n.
Grown(h, n) ==
    /\ DOMAIN out' = 1 .. Len(out')
    /\ \A i \in 1 .. Len(out') : out'[i][1] = h => out'[i][2] \in 1 .. n
    /\ \A j \in 1 .. n : \E i \in 1 .. Len(out') : out'[i][1] = h /\ out'[i][2] = j

LEMMA PlacesGrown ==
    ASSUME NEW h, NEW n, Grown(h, n)
    PROVE  PlacesOf(h)' = 1 .. n
<1>0. /\ DOMAIN out' = 1 .. Len(out')
      /\ \A i \in 1 .. Len(out') : out'[i][1] = h => out'[i][2] \in 1 .. n
      /\ \A j \in 1 .. n : \E i \in 1 .. Len(out') : out'[i][1] = h /\ out'[i][2] = j
  BY DEF Grown
<1>1. ASSUME NEW x, x \in PlacesOf(h)' PROVE x \in 1 .. n
  <2>1. PICK i \in 1 .. Len(out') : out'[i][1] = h /\ out'[i][2] = x
    BY <1>0, <1>1, PlacesNext
  <2> QED BY <1>0, <2>1
<1>2. ASSUME NEW x, x \in 1 .. n PROVE x \in PlacesOf(h)'
  <2>1. \E i \in 1 .. Len(out') : out'[i][1] = h /\ out'[i][2] = x
    BY <1>0, <1>2
  <2> QED BY <1>0, <2>1, PlacesNext
<1> QED BY <1>1, <1>2

LEMMA SameWhole ==
    ASSUME NumbersWhole, out' = out, call' = call
    PROVE  NumbersWhole'
<1>1. ASSUME NEW k PROVE PlacesOf(k)' = PlacesOf(k)
  BY DEF PlacesOf
<1>2. ASSUME NEW k \in 1 .. Len(call), IsNumber(call[k])
      PROVE  PlacesOf(k)' \in {{}, 1 .. Width(call[k])}
  <2>1. PlacesOf(k) \in {{}, 1 .. Width(call[k])}
    BY <1>2 DEF NumbersWhole
  <2> QED BY <1>1, <2>1, Zenon
<1>3. \A k \in 1 .. Len(call') : IsNumber(call'[k]) => PlacesOf(k)' \in {{}, 1 .. Width(call'[k])}
  BY <1>2
<1> QED BY <1>3 DEF NumbersWhole, IsNumber, Width

\* The places written so far of the piece that a round in step writes: none.
LEMMA PutWhole ==
    ASSUME Typed, InStep, pc = "walk", NEW n \in Nat, out' = out \o [i \in 1 .. n |-> <<rounds + 1, i>>],
           NumbersWhole, call' = call, NEW k \in 1 .. Len(call), k = rounds + 1,
           IsNumber(call[k]) => n = Width(call[k])
    PROVE  NumbersWhole'
<1>1. /\ out \in Seq(Nat \X Nat) /\ DOMAIN out = 1 .. Len(out) /\ Len(out) \in Nat /\ rounds \in Nat
      /\ \A i \in 1 .. Len(out) : out[i][1] <= rounds
      /\ \A i \in 1 .. Len(out) : out[i] \in Nat \X Nat
  BY LenProperties, ElementOfSeq DEF Typed, InStep
<1>2. out' \in Seq(Nat \X Nat) /\ DOMAIN out' = 1 .. Len(out') /\ Len(out') = Len(out) + n
  BY PutIs, LenProperties
<1>3. ASSUME NEW h \in 1 .. Len(call), h # k PROVE PlacesOf(h)' = PlacesOf(h)
  <2>1. ASSUME NEW i \in 1 .. Len(out'), out'[i][1] = h
        PROVE  i \in 1 .. Len(out) /\ out'[i] = out[i]
    <3>1. ASSUME NEW j \in 1 .. n, out'[i] = <<rounds + 1, j>> PROVE FALSE
      <4>1. out'[i][1] = rounds + 1
        BY <3>1, PairIs, Zenon
      <4> QED BY <1>3, <2>1, <4>1
    <3>2. \/ i \in 1 .. Len(out) /\ out'[i] = out[i]
          \/ \E j \in 1 .. n : i = Len(out) + j /\ out'[i] = <<rounds + 1, j>>
      BY <2>1, PutPlaces
    <3> QED BY <3>1, <3>2, Zenon
  <2>2. ASSUME NEW i \in 1 .. Len(out) PROVE i \in 1 .. Len(out') /\ out'[i] = out[i]
    <3>1. i \in 1 .. Len(out')
      BY <1>1, <1>2
    <3> QED BY <3>1, PutIs
  <2> QED BY <1>1, <1>2, <2>1, <2>2, PlacesKept
<1>4. PlacesOf(k)' = 1 .. n
  <2>1. ASSUME NEW i \in 1 .. Len(out'), out'[i][1] = k PROVE out'[i][2] \in 1 .. n
    <3>1. ASSUME i \in 1 .. Len(out), out'[i] = out[i] PROVE FALSE
      <4>1. out[i][1] <= rounds
        BY <1>1, <3>1
      <4>2. out[i][1] = rounds + 1
        BY <2>1, <3>1
      <4> QED BY <1>1, <4>1, <4>2
    <3>2. ASSUME NEW j \in 1 .. n, out'[i] = <<rounds + 1, j>> PROVE out'[i][2] \in 1 .. n
      <4>1. out'[i][2] = j
        BY <3>2, PairIs, Zenon
      <4> QED BY <4>1
    <3>3. \/ i \in 1 .. Len(out) /\ out'[i] = out[i]
          \/ \E j \in 1 .. n : i = Len(out) + j /\ out'[i] = <<rounds + 1, j>>
      BY <2>1, PutPlaces
    <3> QED BY <3>1, <3>2, <3>3, Zenon
  <2>2. ASSUME NEW j \in 1 .. n
        PROVE  \E i \in 1 .. Len(out') : out'[i][1] = k /\ out'[i][2] = j
    <3>1. Len(out) + j \in 1 .. Len(out')
      BY <1>1, <1>2
    <3>2. out'[Len(out) + j] = <<rounds + 1, j>>
      BY PutIs
    <3>3. out'[Len(out) + j][1] = k /\ out'[Len(out) + j][2] = j
      BY <3>2
    <3> QED BY <3>1, <3>3
  <2>3. \A j \in 1 .. n : \E i \in 1 .. Len(out') : out'[i][1] = k /\ out'[i][2] = j
    BY <2>2, Zenon
  <2>4. \A i \in 1 .. Len(out') : out'[i][1] = k => out'[i][2] \in 1 .. n
    BY <2>1
  <2>5. Grown(k, n)
    BY <1>2, <2>3, <2>4, Zenon DEF Grown
  <2> QED BY <2>5, PlacesGrown
<1>5. ASSUME NEW h \in 1 .. Len(call), IsNumber(call[h])
      PROVE  PlacesOf(h)' \in {{}, 1 .. Width(call[h])}
  <2>1. CASE h = k
    BY <1>4, <1>5, <2>1
  <2>2. CASE h # k
    BY <1>3, <1>5, <2>2 DEF NumbersWhole
  <2> QED BY <2>1, <2>2
<1> QED BY <1>5 DEF NumbersWhole, IsNumber, Width

\* A round of n bytes, for the directive k it is in step with.
Round(n) ==
    /\ Fixed /\ copied' = copied /\ rounds' = rounds + 1
    /\ at' \in Nat /\ taken' \in Nat /\ pc' # "copy"
    /\ \/ n = 0 /\ out' = out
       \/ bufsz - Len(out) > n /\ out' = out \o [i \in 1 .. n |-> <<rounds + 1, i>>]

Keeps(n) ==
    /\ rounds + 1 \in 1 .. Len(call) /\ pc' = "walk"
    /\ at' = Starts(call)[rounds + 1] + 1
    /\ taken' = rounds + 1 \/ (taken' = taken /\ call[rounds + 1].arg = "none")
    /\ n \in {0, Width(call[rounds + 1])}
    /\ Fits => n = Width(call[rounds + 1])

LEMMA RoundKeeps ==
    ASSUME IInv, pc = "walk", NEW n \in Nat, Round(n), Sound => Keeps(n)
    PROVE  IInv'
<1>1. /\ Typed /\ WithinBuffer /\ (Sound => InStep) /\ (Fits => Complete) /\ NumbersWhole
      /\ Fixed /\ (Fits' <=> Fits) /\ Rendered' = Rendered /\ call' = call /\ bufsz' = bufsz
      /\ rounds' = rounds + 1 /\ rounds \in Nat /\ Len(out) \in Nat /\ bufsz \in Nat
      /\ DOMAIN out = 1 .. Len(out) /\ call \in Calls
  BY FixedIs, LenProperties DEF IInv, Round, Fixed, Typed
<1>2. \/ n = 0 /\ out' = out
      \/ bufsz - Len(out) > n /\ out' = out \o [i \in 1 .. n |-> <<rounds + 1, i>>]
  BY DEF Round
<1>3. /\ out' \in Seq(Nat \X Nat) /\ Len(out') = Len(out) + n
      /\ \A i \in 1 .. Len(out) : out'[i] = out[i]
      /\ \A i \in 1 .. n : out'[Len(out) + i] = <<rounds + 1, i>>
  <2>1. CASE n = 0 /\ out' = out
    BY <1>1, <2>1 DEF Typed
  <2>2. CASE out' = out \o [i \in 1 .. n |-> <<rounds + 1, i>>]
    BY <1>1, <2>2, PutIs
  <2> QED BY <1>2, <2>1, <2>2
<1>4. Typed'
  BY <1>1, <1>3 DEF Round, Fixed, Typed
<1>5. WithinBuffer'
  <2>1. CASE n = 0 /\ out' = out
    BY <1>1, <2>1 DEF WithinBuffer
  <2>2. CASE bufsz - Len(out) > n
    <3>1. Len(out) + n < bufsz
      BY <1>1, <2>2
    <3> QED BY <1>1, <1>3, <3>1 DEF WithinBuffer
  <2> QED BY <1>2, <2>1, <2>2
<1>6. Sound' => Sound
  <2>1. ~Full' => ~Full
    BY <1>1, <1>3 DEF Full
  <2> QED BY <1>1, <2>1 DEF Sound
<1>7. ASSUME Sound PROVE InStep'
  <2>1. InStep /\ Keeps(n)
    BY <1>1, <1>7
  <2>2. /\ rounds' \in 0 .. Len(call) /\ at' = Starts(call)[rounds'] + 1 /\ Len(call) \in Nat
        /\ pc' = "walk"
    BY <1>1, <2>1, CallIs DEF Keeps
  <2>3. taken' <= rounds' /\ \A i \in taken' + 1 .. rounds' : call[i].arg = "none"
    <3>1. CASE taken' = rounds + 1
      <4>1. \A i : i \notin taken' + 1 .. rounds'
        BY <1>1, <3>1
      <4> QED BY <1>1, <3>1, <4>1
    <3>2. CASE taken' = taken /\ call[rounds + 1].arg = "none"
      <4>1. taken \in Nat /\ taken <= rounds /\ \A i \in taken + 1 .. rounds : call[i].arg = "none"
        BY <1>1, <2>1 DEF Typed, InStep
      <4>2. \A i \in taken + 1 .. rounds + 1 : i = rounds + 1 \/ i \in taken + 1 .. rounds
        BY <1>1, <4>1
      <4> QED BY <1>1, <3>2, <4>1, <4>2
    <3> QED BY <2>1, <3>1, <3>2 DEF Keeps
  <2>4. ASSUME NEW i \in 1 .. Len(out') PROVE out'[i][1] <= rounds'
    <3>1. CASE i <= Len(out)
      <4>1. i \in 1 .. Len(out)
        BY <1>1, <1>3, <3>1
      <4>2. out'[i] = out[i] /\ out[i] \in Nat \X Nat
        BY <1>1, <1>3, <4>1, ElementOfSeq DEF Typed
      <4>3. out[i][1] <= rounds /\ out[i][1] \in Nat
        BY <2>1, <4>1, <4>2 DEF InStep
      <4> QED BY <1>1, <4>2, <4>3
    <3>2. CASE ~(i <= Len(out))
      <4>1. PICK j \in 1 .. n : i = Len(out) + j
        <5>1. i - Len(out) \in 1 .. n /\ i = Len(out) + (i - Len(out))
          BY <1>1, <1>3, <3>2
        <5> QED BY <5>1
      <4>2. out'[i] = <<rounds + 1, j>>
        BY <1>3, <4>1
      <4> QED BY <1>1, <4>2
    <3> QED BY <3>1, <3>2
  <2> QED BY <1>1, <2>2, <2>3, <2>4 DEF InStep
<1>8. ASSUME Fits PROVE Complete'
  <2>1. /\ InStep /\ Keeps(n) /\ Complete
    BY <1>1, <1>8 DEF Sound
  <2>2. PICK k \in 1 .. Len(call) : k = rounds + 1 /\ k - 1 = rounds
    BY <1>1, <2>1 DEF Keeps
  <2>3. n = Width(call[k]) /\ pc' = "walk" /\ rounds' = k
    BY <1>1, <1>8, <2>1, <2>2 DEF Keeps
  <2>4. PICK p \in Nat, q \in Nat : p = Ends(call)[k - 1] /\ q = Ends(call)[k]
    <3>1. k \in 0 .. Len(call) /\ k - 1 \in 0 .. Len(call)
      BY <1>1, <2>2, CallIs
    <3> QED BY <1>1, <3>1, RenderedIs
  <2>5. /\ q = p + n /\ q <= Len(Rendered)
        /\ \A j \in 1 .. n : Rendered[p + j] = <<k, j>>
    <3>1. k \in 0 .. Len(call)
      BY <1>1, <2>2, CallIs
    <3> QED BY <1>1, <2>3, <2>4, <3>1, RenderedIs
  <2>6. Len(out) = p /\ \A i \in 1 .. Len(out) : out[i] = Rendered[i]
    BY <2>1, <2>2, <2>4 DEF Complete
  <2>7. Len(out') = q
    BY <1>3, <2>5, <2>6
  <2>8. ASSUME NEW i \in 1 .. Len(out') PROVE out'[i] = Rendered[i]
    <3>1. CASE i <= p
      <4>1. i \in 1 .. Len(out)
        BY <2>6, <3>1
      <4> QED BY <1>3, <2>6, <4>1
    <3>2. CASE ~(i <= p)
      <4>1. PICK j \in 1 .. n : i = p + j
        <5>1. i - p \in 1 .. n /\ i = p + (i - p)
          BY <2>5, <2>7, <3>2
        <5> QED BY <5>1
      <4>2. out'[i] = <<rounds + 1, j>>
        BY <1>3, <2>6, <4>1
      <4> QED BY <2>2, <2>5, <4>1, <4>2
    <3> QED BY <3>1, <3>2
  <2>9. Len(out') = Ends(call')[rounds'] + IF pc' = "copy" THEN copied' ELSE 0
    <3>1. Ends(call')[rounds'] = q
      BY <1>1, <2>3, <2>4
    <3>2. (IF pc' = "copy" THEN copied' ELSE 0) = 0
      BY <2>3
    <3> QED BY <2>4, <2>7, <3>1, <3>2
  <2>10. Len(out') <= Len(Rendered')
    BY <1>1, <2>5, <2>7
  <2>11. \A i \in 1 .. Len(out') : out'[i] = Rendered'[i]
    BY <1>1, <2>8
  <2> QED BY <2>9, <2>10, <2>11 DEF Complete
<1>9. NumbersWhole'
  <2>1. CASE n = 0 /\ out' = out
    BY <1>1, <2>1, SameWhole
  <2>2. CASE n # 0 /\ bufsz - Len(out) > n /\ out' = out \o [i \in 1 .. n |-> <<rounds + 1, i>>]
    <3>1. ~Full
      BY <1>1, <2>2 DEF Full
    <3>2. InStep /\ Keeps(n)
      BY <1>1, <3>1 DEF Sound
    <3>3. PICK k \in 1 .. Len(call) : k = rounds + 1 /\ n = Width(call[k])
      BY <2>2, <3>2 DEF Keeps
    <3> QED BY <1>1, <2>2, <3>2, <3>3, PutWhole
  <2>3. CASE n = 0 /\ out' = out \o [i \in 1 .. n |-> <<rounds + 1, i>>]
    <3>1. out' = out
      <4>1. out \in Seq(Nat \X Nat) /\ Len(out') = Len(out)
        BY <1>1, <1>3, <2>3 DEF Typed
      <4> QED BY <1>3, <4>1, SeqEqual
    <3> QED BY <1>1, <3>1, SameWhole
  <2> QED BY <1>2, <2>1, <2>2, <2>3
<1>10. Copying'
  BY DEF Round, Copying
<1> QED BY <1>1, <1>4, <1>5, <1>6, <1>7, <1>8, <1>9, <1>10 DEF IInv

\* A step that writes nothing.
LEMMA SilentKeeps ==
    ASSUME IInv, Fixed, out' = out, Typed', Copying', Sound => InStep', Fits => Complete'
    PROVE  IInv'
<1>1. /\ WithinBuffer /\ NumbersWhole /\ (Fits' <=> Fits) /\ call' = call /\ bufsz' = bufsz
  BY FixedIs DEF IInv, Fixed
<1>2. WithinBuffer'
  BY <1>1 DEF WithinBuffer
<1>3. NumbersWhole'
  BY <1>1, SameWhole
<1>4. Sound' => Sound
  BY <1>1 DEF Sound, Full
<1> QED BY <1>1, <1>2, <1>3, <1>4 DEF IInv

\* What is spelled where the loop stands.
LEMMA Standing ==
    ASSUME IInv, Sound, pc = "walk", NEW k, k = rounds + 1, NEW q, q = Starts(call)[k] + 1,
           Char(at) # Nul
    PROVE  /\ k \in 1 .. Len(call) /\ call[k] \in Directives
           /\ Char(at) # "%" => call[k].arg = "none" /\ call[k].len = 1 /\ q = at + 1
           /\ Char(at) = "%" =>
                 /\ Char(at + 1) = "%" => call[k].arg = "none" /\ call[k].len = 1 /\ q = at + 2
                 /\ Char(at + 1) = "s" => call[k].arg = "pointer" /\ q = at + 2
                 /\ Char(at + 1) = "d" => call[k].arg = "int" /\ q = at + 2
                 /\ Char(at + 1) = "z" /\ Char(at + 2) = "u" => call[k].arg = "size_t" /\ q = at + 3
                 /\ Char(at + 1) \notin {"%", "s", "d"} /\ ~(Char(at + 1) = "z" /\ Char(at + 2) = "u") =>
                       /\ call[k].arg = "none" /\ call[k].len = 0 /\ q = at + 2
                       /\ Char(at + 1) # Nul
<1>1. Typed /\ InStep
  BY DEF IInv
<1>2. /\ Char(at) = At(format, at) /\ Char(at + 1) = At(format, at + 1)
      /\ Char(at + 2) = At(format, at + 2)
  BY <1>1, Looking
<1>3. k \in 1 .. Len(call) /\ Reading(format, at, q, call[k])
  BY <1>1, Looking
<1>4. call[k] \in Directives
  BY <1>1, <1>3, CallIs DEF Typed
<1> QED BY <1>2, <1>3, <1>4 DEF Reading, Nul

LEMMA PlainKeeps ==
    ASSUME IInv, Plain
    PROVE  IInv'
<1>1. /\ pc = "walk" /\ Char(at) # Nul /\ Char(at) # "%" /\ pc' = pc /\ taken' = taken
      /\ at' = at + 1 /\ Fixed /\ copied' = copied /\ rounds' = rounds + 1
      /\ out' = out \o [i \in 1 .. 1 |-> <<rounds + 1, i>>]
  BY DEF Plain, Put, input, Fixed
<1>2. Typed /\ bufsz \in Nat /\ Len(out) \in Nat /\ ~Full
  BY LenProperties DEF Plain, IInv, Typed
<1>3. Round(1)
  <2>1. bufsz - Len(out) > 1
    BY <1>2 DEF Full
  <2> QED BY <1>1, <1>2, <2>1 DEF Round, Typed
<1>4. ASSUME Sound PROVE Keeps(1)
  <2>1. PICK k, q : k = rounds + 1 /\ q = Starts(call)[k] + 1
    OBVIOUS
  <2>2. k \in 1 .. Len(call) /\ call[k] \in Directives /\ call[k].arg = "none" /\ call[k].len = 1 /\ q = at + 1
    BY <1>1, <1>4, <2>1, Standing
  <2>3. Width(call[k]) = 1
    BY <2>2, WidthIs DEF IsNumber
  <2> QED BY <1>1, <2>1, <2>2, <2>3 DEF Keeps
<1> QED BY <1>1, <1>3, <1>4, RoundKeeps

LEMMA PercentKeeps ==
    ASSUME IInv, Percent
    PROVE  IInv'
<1>1. /\ pc = "walk" /\ Char(at) = "%" /\ Char(at + 1) = "%" /\ Char(at) # Nul /\ pc' = pc
      /\ taken' = taken /\ Fixed /\ copied' = copied /\ rounds' = rounds + 1
      /\ IF Full THEN at' = at + 1 /\ out' = out
         ELSE at' = at + 2 /\ out' = out \o [i \in 1 .. 1 |-> <<rounds + 1, i>>]
  BY DEF Percent, AtDirective, Put, LeaveOut, input, Fixed, Nul
<1>2. Typed /\ bufsz \in Nat /\ Len(out) \in Nat /\ at \in Nat /\ taken \in Nat
  BY LenProperties DEF IInv, Typed
<1>3. ASSUME Sound
      PROVE  /\ rounds + 1 \in 1 .. Len(call) /\ Starts(call)[rounds + 1] + 1 = at + 2
             /\ call[rounds + 1].arg = "none" /\ Width(call[rounds + 1]) = 1
  <2>1. PICK k, q : k = rounds + 1 /\ q = Starts(call)[k] + 1
    OBVIOUS
  <2>2. k \in 1 .. Len(call) /\ call[k] \in Directives /\ call[k].arg = "none" /\ call[k].len = 1 /\ q = at + 2
    BY <1>1, <1>3, <2>1, Standing
  <2>3. Width(call[k]) = 1
    BY <2>2, WidthIs DEF IsNumber
  <2> QED BY <2>1, <2>2, <2>3
<1>4. CASE Full
  <2>1. Round(0)
    BY <1>1, <1>2, <1>4 DEF Round
  <2>2. ASSUME Sound PROVE FALSE
    <3>1. Fits /\ InStep /\ Complete
      BY <1>4, <2>2 DEF Sound, IInv
    <3>2. bufsz - Len(out) > Width(call[rounds + 1])
      BY <1>1, <1>2, <1>3, <2>2, <3>1, Fitting
    <3>3. bufsz - Len(out) > 1
      BY <1>3, <2>2, <3>2
    <3> QED BY <1>2, <1>4, <3>3 DEF Full
  <2> QED BY <1>1, <2>1, <2>2, RoundKeeps
<1>5. CASE ~Full
  <2>1. Round(1)
    <3>1. bufsz - Len(out) > 1
      BY <1>2, <1>5 DEF Full
    <3> QED BY <1>1, <1>2, <1>5, <3>1 DEF Round
  <2>2. ASSUME Sound PROVE Keeps(1)
    BY <1>1, <1>3, <1>5, <2>2 DEF Keeps
  <2> QED BY <1>1, <2>1, <2>2, RoundKeeps
<1> QED BY <1>4, <1>5

LEMMA NumberKeeps ==
    ASSUME IInv, pc = "walk", NEW type \in {"size_t", "int"}, NEW length \in Nat, Number(type, length),
           Sound => /\ rounds + 1 \in 1 .. Len(call) /\ call[rounds + 1].arg = type
                    /\ Starts(call)[rounds + 1] + 1 = at + length
    PROVE  IInv'
<1>1. PICK d \in Directives : d = Argument /\ Min(Left) \in Nat /\ d.arg = type
  BY LeftIs DEF IInv, Number, Takes
<1>2. PICK digits \in Nat : digits = d.len
  BY <1>1, DirectiveIs
<1>3. /\ Typed /\ bufsz \in Nat /\ Len(out) \in Nat /\ at \in Nat
  BY LenProperties DEF IInv, Typed
<1>4. /\ pc' = "walk" /\ taken' = Min(Left) /\ at' = at + length /\ Fixed /\ copied' = copied
      /\ rounds' = rounds + 1 /\ taken' \in Nat /\ at' \in Nat
  <2>1. Put(digits) \/ Put(1) \/ LeaveOut
    BY <1>1, <1>2 DEF Number
  <2>2. rounds' = rounds + 1
    BY <2>1 DEF Put, LeaveOut
  <2> QED BY <1>1, <1>3, <2>2 DEF Number, TakeIt, input, Fixed
<1>5. /\ digits = 0 /\ Full => LeaveOut
      /\ digits = 0 /\ ~Full => Put(1)
      /\ digits # 0 /\ bufsz - Len(out) > digits + 1 => Put(digits)
      /\ digits # 0 /\ ~(bufsz - Len(out) > digits + 1) => LeaveOut
  BY <1>1, <1>2 DEF Number
<1>6. Width(d) = IF digits = 0 THEN 1 ELSE digits
  BY <1>1, <1>2, WidthIs DEF IsNumber
<1>7. ASSUME Sound
      PROVE  /\ rounds + 1 \in 1 .. Len(call) /\ at' = Starts(call)[rounds + 1] + 1
             /\ taken' = rounds + 1 /\ call[rounds + 1] = d
             /\ Fits => /\ bufsz - Len(out) > Width(d)
                        /\ digits > 0 => bufsz - Len(out) > digits + 1
  <2>1. InStep /\ call[rounds + 1].arg # "none"
    BY <1>7 DEF IInv
  <2>2. Min(Left) = rounds + 1 /\ Argument = call[rounds + 1]
    BY <1>3, <1>7, <2>1, ArgumentIs
  <2>3. ASSUME Fits
        PROVE  bufsz - Len(out) > Width(d) /\ (digits > 0 => bufsz - Len(out) > digits + 1)
    <3>1. Complete
      BY <2>3 DEF IInv
    <3>2. PICK k \in 1 .. Len(call) : k = rounds + 1
      BY <1>7
    <3>3. /\ bufsz - Len(out) > Width(call[k])
          /\ IsNumber(call[k]) /\ call[k].len > 0 => bufsz - Len(out) > call[k].len + 1
      BY <1>3, <2>1, <2>3, <3>1, <3>2, Fitting
    <3>4. call[k] = d /\ IsNumber(d)
      BY <1>1, <2>2, <3>2 DEF IsNumber
    <3> QED BY <1>2, <3>3, <3>4
  <2> QED BY <1>1, <1>4, <1>7, <2>2, <2>3
<1>8. ASSUME LeaveOut, ~Fits PROVE IInv'
  <2>1. Round(0)
    BY <1>4, <1>8 DEF Round, LeaveOut
  <2>2. ASSUME Sound PROVE Keeps(0)
    BY <1>4, <1>7, <1>8, <2>2 DEF Keeps
  <2> QED BY <2>1, <2>2, RoundKeeps
<1>9. ASSUME NEW n \in Nat, n = Width(d), Put(n), bufsz - Len(out) > n PROVE IInv'
  <2>1. Round(n)
    BY <1>4, <1>9 DEF Round, Put
  <2>2. ASSUME Sound PROVE Keeps(n)
    BY <1>4, <1>7, <1>9, <2>2 DEF Keeps
  <2> QED BY <1>9, <2>1, <2>2, RoundKeeps
<1>10. CASE digits = 0
  <2>1. CASE Full
    <3>1. ASSUME Fits PROVE FALSE
      <4>1. bufsz - Len(out) > 1
        BY <1>6, <1>7, <1>10, <3>1 DEF Sound
      <4> QED BY <1>3, <2>1, <4>1 DEF Full
    <3> QED BY <1>5, <1>8, <1>10, <2>1, <3>1
  <2>2. CASE ~Full
    <3>1. bufsz - Len(out) > 1
      BY <1>3, <2>2 DEF Full
    <3> QED BY <1>5, <1>6, <1>9, <1>10, <2>2, <3>1
  <2> QED BY <2>1, <2>2
<1>11. CASE digits # 0
  <2>1. CASE bufsz - Len(out) > digits + 1
    <3>1. bufsz - Len(out) > digits
      BY <1>3, <2>1
    <3> QED BY <1>5, <1>6, <1>9, <1>11, <2>1, <3>1
  <2>2. CASE ~(bufsz - Len(out) > digits + 1)
    <3>1. ASSUME Fits PROVE FALSE
      <4>1. digits > 0
        BY <1>11
      <4> QED BY <1>7, <2>2, <3>1, <4>1 DEF Sound
    <3> QED BY <1>5, <1>8, <1>11, <2>2, <3>1
  <2> QED BY <2>1, <2>2
<1> QED BY <1>10, <1>11

LEMMA SizeNumberKeeps ==
    ASSUME IInv, SizeNumber
    PROVE  IInv'
<1>1. /\ pc = "walk" /\ Char(at) = "%" /\ Char(at + 1) = "z" /\ Char(at + 2) = "u" /\ Char(at) # Nul
      /\ Number("size_t", 3)
  BY DEF SizeNumber, AtDirective, Nul
<1>2. ASSUME Sound
      PROVE  /\ rounds + 1 \in 1 .. Len(call) /\ call[rounds + 1].arg = "size_t"
             /\ Starts(call)[rounds + 1] + 1 = at + 3
  BY <1>1, <1>2, Standing
<1> QED BY <1>1, <1>2, NumberKeeps

LEMMA IntNumberKeeps ==
    ASSUME IInv, IntNumber
    PROVE  IInv'
<1>1. /\ pc = "walk" /\ Char(at) = "%" /\ Char(at + 1) = "d" /\ Char(at) # Nul
      /\ Number("int", 2)
  BY DEF IntNumber, AtDirective, Nul
<1>2. ASSUME Sound
      PROVE  /\ rounds + 1 \in 1 .. Len(call) /\ call[rounds + 1].arg = "int"
             /\ Starts(call)[rounds + 1] + 1 = at + 2
  BY <1>1, <1>2, Standing
<1> QED BY <1>1, <1>2, NumberKeeps

LEMMA UnhandledKeeps ==
    ASSUME IInv, Unhandled
    PROVE  IInv'
<1>1. /\ pc = "walk" /\ Char(at) = "%" /\ Char(at) # Nul /\ Char(at + 1) \notin {"%", "s", "d"}
      /\ ~(Char(at + 1) = "z" /\ Char(at + 2) = "u") /\ taken' = taken /\ at' = at + 2 /\ Fixed
      /\ copied' = copied /\ rounds' = rounds + 1 /\ out' = out
      /\ pc' = IF Char(at + 1) = Nul THEN "overrun" ELSE "walk"
  BY DEF Unhandled, LeaveOut, input, Fixed, Nul
<1>2. at \in Nat /\ taken \in Nat
  BY DEF IInv, Typed
<1>3. Round(0)
  BY <1>1, <1>2 DEF Round
<1>4. ASSUME Sound PROVE Keeps(0)
  <2>1. PICK k, q : k = rounds + 1 /\ q = Starts(call)[k] + 1
    OBVIOUS
  <2>2. /\ k \in 1 .. Len(call) /\ call[k] \in Directives /\ call[k].arg = "none" /\ call[k].len = 0
        /\ q = at + 2 /\ Char(at + 1) # Nul
    BY <1>1, <1>4, <2>1, Standing
  <2>3. Width(call[k]) = 0
    BY <2>2, WidthIs DEF IsNumber
  <2> QED BY <1>1, <2>1, <2>2, <2>3 DEF Keeps
<1> QED BY <1>1, <1>3, <1>4, RoundKeeps

LEMMA StringKeeps ==
    ASSUME IInv, String
    PROVE  IInv'
<1>1. /\ pc = "walk" /\ Char(at) = "%" /\ Char(at + 1) = "s" /\ Char(at) # Nul /\ Left # {}
      /\ Fixed /\ pc' = "copy" /\ copied' = 0 /\ at' = at /\ taken' = taken /\ rounds' = rounds
      /\ out' = out
  BY DEF String, AtDirective, Takes, input, Fixed, Nul
<1>2. call' = call /\ call \in Calls /\ Typed
  BY <1>1 DEF IInv, Typed, Fixed
<1>3. Typed'
  BY <1>1, <1>2 DEF Typed, Fixed
<1>4. Copying'
  BY <1>1, <1>2 DEF Copying, Left
<1>5. ASSUME Sound PROVE InStep'
  <2>1. PICK k, q : k = rounds + 1 /\ q = Starts(call)[k] + 1
    OBVIOUS
  <2>2. k \in 1 .. Len(call) /\ call[k] \in Directives /\ call[k].arg = "pointer"
    BY <1>1, <1>5, <2>1, Standing
  <2>3. call[k].len \in Nat /\ InStep /\ Len(call) \in Nat /\ rounds \in Nat
    BY <1>2, <1>5, <2>2, DirectiveIs, CallIs DEF IInv, Typed
  <2>4. rounds < Len(call) /\ copied' <= call[k].len
    BY <1>1, <2>1, <2>2, <2>3
  <2>5. \A i \in 1 .. Len(out) : out[i][1] <= rounds
    BY <1>1, <2>3 DEF InStep
  <2>6. /\ rounds \in 0 .. Len(call) /\ at = Starts(call)[rounds] + 1
        /\ taken <= rounds /\ \A i \in taken + 1 .. rounds : call[i].arg = "none"
    BY <2>3 DEF InStep
  <2> QED BY <1>1, <1>2, <2>1, <2>2, <2>4, <2>5, <2>6 DEF InStep
<1>6. ASSUME Fits PROVE Complete'
  <2>1. Complete /\ Rendered' = Rendered
    BY <1>1, <1>6, FixedIs DEF IInv
  <2> QED BY <1>1, <1>2, <2>1 DEF Complete
<1> QED BY <1>1, <1>3, <1>4, <1>5, <1>6, SilentKeeps

\* What a step of copying a string is about, when it is in step.
LEMMA InString ==
    ASSUME IInv, Sound, pc = "copy", NEW k, k = rounds + 1
    PROVE  /\ k \in 1 .. Len(call) /\ Left # {} /\ Min(Left) = k /\ Argument = call[k]
           /\ call[k].len \in Nat /\ Width(call[k]) = call[k].len /\ ~IsNumber(call[k])
           /\ call[k].spelling = <<"%", "s">> /\ Starts(call)[k] = Starts(call)[rounds] + 2
           /\ k - 1 = rounds /\ k - 1 \in 0 .. Len(call) /\ k \in 0 .. Len(call)
<1>1. Typed /\ InStep /\ call \in Calls /\ rounds \in Nat /\ Len(call) \in Nat
  BY CallIs DEF IInv, Typed
<1>2. rounds < Len(call) /\ call[k].arg = "pointer"
  BY <1>1 DEF InStep
<1>3. k \in 1 .. Len(call) /\ k - 1 = rounds /\ k - 1 \in 0 .. Len(call) /\ k \in 0 .. Len(call)
  BY <1>1, <1>2
<1>4. Left # {} /\ Min(Left) = k /\ Argument = call[k]
  BY <1>1, <1>2, <1>3, ArgumentIs
<1>5. call[k] \in Directives
  BY <1>1, <1>3, CallIs
<1>6. call[k].len \in Nat /\ ~IsNumber(call[k]) /\ call[k].spelling = <<"%", "s">>
  BY <1>2, <1>5, DirectiveIs DEF IsNumber
<1>7. Width(call[k]) = call[k].len
  BY <1>5, <1>6, WidthIs
<1>8. Starts(call)[k] = Starts(call)[rounds] + 2
  <2>1. Starts(call)[k] = Starts(call)[k - 1] + Len(call[k].spelling)
    BY <1>1, <1>3, FormatIs
  <2>2. Len(call[k].spelling) = 2
    BY <1>6
  <2> QED BY <1>3, <2>1, <2>2
<1> QED BY <1>3, <1>4, <1>6, <1>7, <1>8

LEMMA StringEndsKeeps ==
    ASSUME IInv, StringEnds
    PROVE  IInv'
<1>1. /\ pc = "copy" /\ copied = Argument.len /\ at' = at + 2 /\ taken' = Min(Left)
      /\ rounds' = rounds + 1 /\ out' = out /\ pc' = "walk" /\ Fixed /\ copied' = copied
  BY DEF StringEnds, TakeIt, LeaveOut, input, Fixed
<1>2. call' = call /\ call \in Calls /\ Typed /\ at \in Nat /\ rounds \in Nat /\ Len(call) \in Nat
      /\ out \in Seq(Nat \X Nat)
  BY <1>1, CallIs DEF IInv, Typed, Fixed
<1>3. Typed'
  <2>1. Left # {}
    BY <1>1 DEF IInv, Copying
  <2>2. Min(Left) \in Nat
    BY <1>2, <2>1, LeftIs
  <2> QED BY <1>1, <1>2, <2>2 DEF Typed, Fixed
<1>4. Copying'
  BY <1>1 DEF Copying
<1>5. ASSUME Sound PROVE InStep'
  <2>1. PICK k : k = rounds + 1
    OBVIOUS
  <2>2. k \in 1 .. Len(call) /\ Min(Left) = k /\ Starts(call)[k] = Starts(call)[rounds] + 2
        /\ k \in 0 .. Len(call)
    BY <1>1, <1>5, <2>1, InString
  <2>3. InStep
    BY <1>5 DEF IInv
  <2>4. at' = Starts(call)[k] + 1
    <3>1. at = Starts(call)[rounds] + 1 /\ rounds \in 0 .. Len(call)
      BY <2>3 DEF InStep
    <3>2. Starts(call)[rounds] \in Nat
      BY <1>2, <3>1, FormatIs
    <3> QED BY <1>1, <2>2, <3>1, <3>2
  <2>5. ASSUME NEW i \in 1 .. Len(out) PROVE out[i][1] <= rounds'
    <3>1. out[i][1] <= rounds \/ out[i][1] = rounds + 1
      BY <2>3 DEF InStep
    <3>2. out[i][1] \in Nat
      <4>1. out[i] \in Nat \X Nat
        BY <1>2, ElementOfSeq
      <4> QED BY <4>1
    <3> QED BY <1>1, <1>2, <3>1, <3>2
  <2>6. taken' <= rounds' /\ \A i : i \notin taken' + 1 .. rounds'
    BY <1>1, <1>2, <2>1, <2>2
  <2> QED BY <1>1, <1>2, <2>1, <2>2, <2>4, <2>5, <2>6 DEF InStep
<1>6. ASSUME Fits PROVE Complete'
  <2>1. Complete /\ Rendered' = Rendered /\ Sound
    BY <1>1, <1>6, FixedIs DEF IInv, Sound
  <2>2. PICK k : k = rounds + 1
    OBVIOUS
  <2>3. /\ k \in 1 .. Len(call) /\ Width(call[k]) = copied /\ k - 1 = rounds
    BY <1>1, <2>1, <2>2, InString
  <2>4. Ends(call)[k] = Ends(call)[rounds] + copied
    BY <1>2, <2>3, RenderedIs
  <2>5. Len(out') = Ends(call')[rounds'] + IF pc' = "copy" THEN copied' ELSE 0
    <3>1. Len(out) = Ends(call)[k]
      BY <1>1, <2>1, <2>4 DEF Complete
    <3>2. Len(out) \in Nat /\ (IF pc' = "copy" THEN copied' ELSE 0) = 0
      BY <1>1, <1>2, LenProperties
    <3>3. Ends(call')[rounds'] = Len(out')
      BY <1>1, <1>2, <2>2, <3>1
    <3> QED BY <1>1, <3>2, <3>3
  <2> QED BY <1>1, <2>1, <2>5 DEF Complete
<1> QED BY <1>1, <1>3, <1>4, <1>5, <1>6, SilentKeeps

LEMMA StringByteKeeps ==
    ASSUME IInv, StringByte
    PROVE  IInv'
<1>1. /\ pc = "copy" /\ copied < Argument.len /\ ~Full /\ Fixed /\ copied' = copied + 1
      /\ out' = Append(out, <<rounds + 1, copied + 1>>)
      /\ at' = at /\ taken' = taken /\ rounds' = rounds /\ pc' = pc
  BY DEF StringByte, input, Fixed
<1>2. /\ Typed /\ call' = call /\ bufsz' = bufsz /\ call \in Calls /\ bufsz \in Nat
      /\ rounds \in Nat /\ copied \in Nat /\ out \in Seq(Nat \X Nat) /\ Len(call) \in Nat
  BY <1>1, CallIs DEF IInv, Typed, Fixed
<1>3. PICK l \in Nat : l = Len(out) /\ DOMAIN out = 1 .. l
  BY <1>2, LenProperties
<1>4. PICK b \in Nat \X Nat : b = <<rounds + 1, copied + 1>> /\ b[1] = rounds + 1
  <2>1. rounds + 1 \in Nat /\ copied + 1 \in Nat
    BY <1>2
  <2>2. <<rounds + 1, copied + 1>> \in Nat \X Nat
    BY <2>1
  <2>3. <<rounds + 1, copied + 1>>[1] = rounds + 1
    OBVIOUS
  <2> QED BY <2>2, <2>3, Zenon
<1>5. /\ out' \in Seq(Nat \X Nat) /\ Len(out') = l + 1 /\ DOMAIN out' = 1 .. l + 1
      /\ out'[l + 1] = b /\ \A i \in 1 .. l : out'[i] = out[i]
  BY <1>1, <1>2, <1>3, <1>4, AppendProperties, LenProperties
<1>6. PICK k : k = rounds + 1
  OBVIOUS
<1>7. /\ Sound /\ InStep /\ k \in 1 .. Len(call) /\ Argument = call[k] /\ call[k].len \in Nat
      /\ Width(call[k]) = call[k].len /\ ~IsNumber(call[k]) /\ k - 1 = rounds
      /\ k - 1 \in 0 .. Len(call) /\ k \in 0 .. Len(call)
  BY <1>1, <1>6, InString DEF IInv, Sound
<1>8. PICK n \in Nat : n = call[k].len /\ copied + 1 \in 1 .. n
  BY <1>1, <1>2, <1>7
<1>9. Typed'
  BY <1>1, <1>2, <1>5 DEF Typed, Fixed
<1>10. WithinBuffer'
  <2>1. l + 1 < bufsz
    BY <1>1, <1>2, <1>3 DEF Full
  <2> QED BY <1>2, <1>5, <2>1 DEF WithinBuffer
<1>11. InStep'
  <2>1. /\ rounds \in 0 .. Len(call) /\ at = Starts(call)[rounds] + 1
        /\ taken <= rounds /\ \A i \in taken + 1 .. rounds : call[i].arg = "none"
        /\ rounds < Len(call) /\ call[rounds + 1].arg = "pointer"
        /\ \A i \in 1 .. Len(out) : out[i][1] <= rounds \/ (out[i][1] = rounds + 1 /\ pc = "copy")
    BY <1>1, <1>7 DEF InStep
  <2>2. copied' <= call[rounds + 1].len
    BY <1>1, <1>2, <1>6, <1>8
  <2>3. ASSUME NEW i \in 1 .. Len(out')
        PROVE  out'[i][1] <= rounds \/ (out'[i][1] = rounds + 1 /\ pc = "copy")
    <3>1. CASE i = l + 1
      BY <1>1, <1>4, <1>5, <3>1
    <3>2. CASE i # l + 1
      <4>1. i \in 1 .. l
        BY <1>5, <3>2
      <4>2. out'[i] = out[i]
        BY <1>5, <4>1
      <4> QED BY <1>3, <2>1, <4>1, <4>2
    <3> QED BY <3>1, <3>2
  <2> QED BY <1>1, <1>2, <2>1, <2>2, <2>3 DEF InStep
<1>12. ASSUME Fits PROVE Complete'
  <2>1. Complete /\ Rendered' = Rendered
    BY <1>1, <1>12, FixedIs DEF IInv
  <2>2. PICK p \in Nat, q \in Nat : p = Ends(call)[k - 1] /\ q = Ends(call)[k]
    BY <1>2, <1>7, RenderedIs
  <2>3. q = p + n /\ q <= Len(Rendered) /\ Rendered[p + (copied + 1)] = <<k, copied + 1>>
        /\ Len(Rendered) \in Nat
    BY <1>2, <1>7, <1>8, <2>2, RenderedIs
  <2>4. l = p + copied /\ \A i \in 1 .. l : out[i] = Rendered[i]
    <3>1. /\ Len(out) = Ends(call)[rounds] + IF pc = "copy" THEN copied ELSE 0
          /\ \A i \in 1 .. Len(out) : out[i] = Rendered[i]
      BY <2>1 DEF Complete
    <3>2. (IF pc = "copy" THEN copied ELSE 0) = copied /\ Ends(call)[rounds] = p
      BY <1>1, <1>7, <2>2
    <3> QED BY <1>3, <3>1, <3>2
  <2>5. l + 1 = p + (copied + 1) /\ l + 1 <= Len(Rendered)
    <3>1. l = p + copied /\ copied + 1 <= n
      BY <1>2, <1>8, <2>4
    <3>2. l + 1 <= q
      BY <1>2, <2>3, <3>1
    <3> QED BY <1>2, <2>3, <3>1, <3>2
  <2>6. ASSUME NEW i \in 1 .. Len(out') PROVE out'[i] = Rendered[i]
    <3>1. CASE i = l + 1
      BY <1>4, <1>5, <1>6, <2>3, <2>5, <3>1
    <3>2. CASE i # l + 1
      <4>1. i \in 1 .. l
        BY <1>5, <3>2
      <4> QED BY <1>5, <2>4, <4>1
    <3> QED BY <3>1, <3>2
  <2>7. Len(out') = Ends(call')[rounds'] + IF pc' = "copy" THEN copied' ELSE 0
    <3>1. Ends(call')[rounds'] = p
      BY <1>1, <1>2, <1>7, <2>2
    <3>2. (IF pc' = "copy" THEN copied' ELSE 0) = copied + 1
      BY <1>1
    <3> QED BY <1>5, <2>5, <3>1, <3>2
  <2>8. Len(out') <= Len(Rendered')
    BY <1>5, <2>1, <2>5
  <2>9. \A i \in 1 .. Len(out') : out'[i] = Rendered'[i]
    BY <2>1, <2>6
  <2> QED BY <2>7, <2>8, <2>9 DEF Complete
<1>13. NumbersWhole'
  <2>1. ASSUME NEW h \in 1 .. Len(call), IsNumber(call[h])
        PROVE  PlacesOf(h)' \in {{}, 1 .. Width(call[h])}
    <3>1. h # k
      BY <1>7, <2>1
    <3>2. DOMAIN out = 1 .. Len(out) /\ DOMAIN out' = 1 .. Len(out')
      BY <1>3, <1>5
    <3>3. ASSUME NEW i \in 1 .. Len(out'), out'[i][1] = h
          PROVE  i \in 1 .. Len(out) /\ out'[i] = out[i]
      <4>1. i # l + 1
        BY <1>4, <1>5, <1>6, <3>1, <3>3
      <4>2. i \in 1 .. l
        BY <1>5, <4>1
      <4> QED BY <1>3, <1>5, <4>2
    <3>4. ASSUME NEW i \in 1 .. Len(out) PROVE i \in 1 .. Len(out') /\ out'[i] = out[i]
      BY <1>3, <1>5
    <3>5. PlacesOf(h)' = PlacesOf(h)
      BY <3>2, <3>3, <3>4, PlacesKept
    <3> QED BY <2>1, <3>5 DEF IInv, NumbersWhole
  <2>2. \A h \in 1 .. Len(call') : IsNumber(call'[h]) => PlacesOf(h)' \in {{}, 1 .. Width(call'[h])}
    BY <1>2, <2>1
  <2> QED BY <2>2 DEF NumbersWhole, IsNumber, Width
<1>14. Copying'
  BY <1>1, <1>2 DEF IInv, Copying, Left
<1>15. Fits' => Fits
  BY <1>1, FixedIs
<1> QED BY <1>9, <1>10, <1>11, <1>12, <1>13, <1>14, <1>15 DEF IInv

LEMMA BadArgumentKeeps ==
    ASSUME IInv, BadArgument
    PROVE  IInv'
<1>1. /\ pc = "walk" /\ Char(at) = "%" /\ Char(at) # Nul /\ Fixed /\ pc' = "bad argument" /\ out' = out
      /\ at' = at /\ taken' = taken /\ rounds' = rounds /\ copied' = copied
      /\ \/ Char(at + 1) = "s" /\ ~Takes("pointer")
         \/ Char(at + 1) = "z" /\ Char(at + 2) = "u" /\ ~Takes("size_t")
         \/ Char(at + 1) = "d" /\ ~Takes("int")
  BY DEF BadArgument, AtDirective, input, Fixed, Nul
<1>2. Typed'
  BY <1>1 DEF IInv, Typed, Fixed
<1>3. Copying'
  BY <1>1 DEF Copying
<1>4. ASSUME Sound PROVE FALSE
  <2>1. PICK k, q : k = rounds + 1 /\ q = Starts(call)[k] + 1
    OBVIOUS
  <2>2. /\ k \in 1 .. Len(call)
        /\ Char(at + 1) = "s" => call[k].arg = "pointer"
        /\ Char(at + 1) = "d" => call[k].arg = "int"
        /\ Char(at + 1) = "z" /\ Char(at + 2) = "u" => call[k].arg = "size_t"
    BY <1>1, <1>4, <2>1, Standing
  <2>3. call[k].arg # "none"
    BY <1>1, <2>2
  <2>4. Left # {} /\ Argument = call[k]
    BY <1>4, <2>1, <2>2, <2>3, ArgumentIs DEF IInv
  <2> QED BY <1>1, <2>2, <2>4 DEF Takes
<1> QED BY <1>1, <1>2, <1>3, <1>4, SilentKeeps DEF Sound

LEMMA ReturnKeeps ==
    ASSUME IInv, Return
    PROVE  IInv'
<1>1. /\ pc = "walk" /\ Char(at) = Nul /\ Fixed /\ pc' = "done" /\ out' = out
      /\ at' = at /\ taken' = taken /\ rounds' = rounds /\ copied' = copied /\ call' = call
  BY DEF Return, input, Fixed
<1>2. Typed'
  BY <1>1 DEF IInv, Typed, Fixed
<1>3. Copying'
  BY <1>1 DEF Copying
<1>4. ASSUME Sound PROVE InStep'
  <2>1. InStep /\ Typed
    BY <1>4 DEF IInv
  <2>2. rounds = Len(call)
    <3>1. ASSUME rounds # Len(call) PROVE FALSE
      <4>1. /\ Char(at) = At(format, at)
            /\ Reading(format, at, Starts(call)[rounds + 1] + 1, call[rounds + 1])
        BY <2>1, <3>1, Looking
      <4> QED BY <1>1, <4>1 DEF Reading, Nul
    <3> QED BY <3>1
  <2>3. /\ rounds \in 0 .. Len(call) /\ at = Starts(call)[rounds] + 1
        /\ taken <= rounds /\ \A i \in taken + 1 .. rounds : call[i].arg = "none"
        /\ \A i \in 1 .. Len(out) : out[i][1] <= rounds
    BY <1>1, <2>1 DEF InStep
  <2> QED BY <1>1, <2>2, <2>3 DEF InStep
<1>5. ASSUME Fits PROVE Complete'
  <2>1. Complete /\ Rendered' = Rendered
    BY <1>1, <1>5, FixedIs DEF IInv
  <2> QED BY <1>1, <2>1 DEF Complete
<1> QED BY <1>1, <1>2, <1>3, <1>4, <1>5, SilentKeeps

LEMMA StutterKeeps ==
    ASSUME IInv, UNCHANGED vars
    PROVE  IInv'
<1>1. /\ Fixed /\ pc' = pc /\ out' = out /\ at' = at /\ taken' = taken /\ rounds' = rounds
      /\ copied' = copied /\ call' = call
  BY DEF vars, Fixed
<1>2. Typed'
  BY <1>1 DEF IInv, Typed, Fixed
<1>3. Copying'
  BY <1>1 DEF IInv, Copying, Left
<1>4. InStep => InStep'
  BY <1>1 DEF InStep
<1>5. Complete => Complete'
  <2>1. Rendered' = Rendered
    BY <1>1, FixedIs
  <2> QED BY <1>1, <2>1 DEF Complete
<1> QED BY <1>1, <1>2, <1>3, <1>4, <1>5, SilentKeeps DEF IInv

LEMMA InitKeeps ==
    ASSUME Init
    PROVE  IInv
<1>1. /\ call \in Calls /\ bufsz \in Nat /\ format = FlattenSeq(SpellingsOf(call)) /\ at = 1
      /\ taken = 0 /\ rounds = 0 /\ copied = 0 /\ out = << >> /\ pc = "walk"
  BY FormatAssumption DEF Init, SpellingsOf
<1>2. Len(call) \in Nat /\ Starts(call)[0] = 0 /\ Ends(call)[0] = 0 /\ Len(Rendered) \in Nat
  BY <1>1, CallIs, FormatIs, OutputIs, RenderedIs
<1>3. out \in Seq(Nat \X Nat) /\ Len(out) = 0 /\ DOMAIN out = {}
  BY <1>1, EmptySeq
<1>4. Typed
  BY <1>1, <1>3 DEF Typed
<1>5. WithinBuffer
  BY <1>1 DEF WithinBuffer
<1>6. InStep
  BY <1>1, <1>2, <1>3 DEF InStep
<1>7. Complete
  BY <1>1, <1>2, <1>3 DEF Complete
<1>8. NumbersWhole
  <2>1. \A k : PlacesOf(k) = {}
    BY <1>3 DEF PlacesOf
  <2> QED BY <2>1 DEF NumbersWhole
<1>9. Copying
  BY <1>1 DEF Copying
<1> QED BY <1>4, <1>5, <1>6, <1>7, <1>8, <1>9 DEF IInv
-----------------------------------------------------------------------------
\* Whatever is printed and however small the buffer: the invariant above.
THEOREM Inductive == Spec => []IInv
<1>1. IInv /\ [Next]_vars => IInv'
  <2> SUFFICES ASSUME IInv, [Next]_vars PROVE IInv'
    OBVIOUS
  <2>1. CASE Plain
    BY <2>1, PlainKeeps
  <2>2. CASE Percent
    BY <2>2, PercentKeeps
  <2>3. CASE String
    BY <2>3, StringKeeps
  <2>4. CASE StringByte
    BY <2>4, StringByteKeeps
  <2>5. CASE StringEnds
    BY <2>5, StringEndsKeeps
  <2>6. CASE SizeNumber
    BY <2>6, SizeNumberKeeps
  <2>7. CASE IntNumber
    BY <2>7, IntNumberKeeps
  <2>8. CASE BadArgument
    BY <2>8, BadArgumentKeeps
  <2>9. CASE Unhandled
    BY <2>9, UnhandledKeeps
  <2>10. CASE Return
    BY <2>10, ReturnKeeps
  <2>11. CASE UNCHANGED vars
    BY <2>11, StutterKeeps
  <2> QED BY <2>1, <2>2, <2>3, <2>4, <2>5, <2>6, <2>7, <2>8, <2>9, <2>10, <2>11 DEF Next
<1> QED BY <1>1, InitKeeps, PTL DEF Spec

\* vsnprintf writes nothing at or behind the last place of the buffer, for every
\* format, every argument and every size of the buffer.
THEOREM StaysInBuffer == Spec => []WithinBuffer
<1>1. IInv => WithinBuffer
  BY DEF IInv
<1> QED BY <1>1, Inductive, PTL

\* What fits the buffer is printed whole and in order, and no number is ever cut
\* off.
THEOREM OutputWhole == Spec => []RenderedWhole
<1>1. IInv => RenderedWhole
  <2> SUFFICES ASSUME IInv PROVE RenderedWhole
    OBVIOUS
  <2>1. call \in Calls /\ DOMAIN call = 1 .. Len(call) /\ out \in Seq(Nat \X Nat)
    BY CallIs DEF IInv, Typed
  <2>2. ASSUME pc = "done", Fits PROVE out = Rendered
    <3>1. InStep /\ Complete
      BY <2>2 DEF IInv, Sound
    <3>2. rounds = Len(call)
      BY <2>2, <3>1 DEF InStep
    <3>3. /\ Rendered \in Seq(Nat \X Nat) /\ Len(Rendered) \in Nat
          /\ Len(Rendered) = Ends(call)[Len(call)]
      BY <2>1, RenderedIs
    <3>4. Len(out) = Len(Rendered) /\ \A i \in 1 .. Len(out) : out[i] = Rendered[i]
      BY <2>2, <3>1, <3>2, <3>3 DEF Complete
    <3> QED BY <2>1, <3>3, <3>4, SeqEqual
  <2>3. \A k \in DOMAIN call : IsNumber(call[k]) => PlacesOf(k) \in {{}, 1 .. Width(call[k])}
    BY <2>1 DEF IInv, NumbersWhole
  <2> QED BY <2>2, <2>3 DEF RenderedWhole
<1> QED BY <1>1, Inductive, PTL

\* As long as there is room in the buffer, each directive finds the argument that
\* was passed for it and the format is not read behind its end.
THEOREM OwnArgumentsTaken == Spec => []OwnArguments
<1>1. IInv => OwnArguments
  <2> SUFFICES ASSUME IInv, ~Full PROVE pc \notin {"bad argument", "overrun"}
    BY DEF OwnArguments
  <2>1. InStep
    BY DEF IInv, Sound
  <2> QED BY <2>1 DEF InStep
<1> QED BY <1>1, Inductive, PTL
=============================================================================
