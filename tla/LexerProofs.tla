----------------------------- MODULE LexerProofs -----------------------------
(***************************************************************************)
(* Proofs about Lexer, for every file and every size of the arena: where   *)
(* tokens begin and end, what is skipped between them, how lines are       *)
(* counted and found again, how the token buffer is filled, and what       *)
(* string_to_int64 makes of a number token.                                *)
(***************************************************************************)
EXTENDS Lexer, FiniteSetTheorems, SequenceTheorems, WellFoundedInduction, TLAPS

Texts == Seq(Chars)

At(s, i) == IF i <= Len(s) THEN s[i] ELSE Eof
-----------------------------------------------------------------------------
LEMMA LeastNat ==
    ASSUME NEW T \in SUBSET Nat, T # {}
    PROVE  \E x \in T : \A y \in T : x <= y
<1>1. PICK x \in T : \A y \in T : ~(<<y, x>> \in OpToRel(<, Nat))
  BY WFMin, NatLessThanWellFounded
<1>2. ASSUME NEW y \in T PROVE x <= y
  <2>1. x \in Nat /\ y \in Nat
    OBVIOUS
  <2>2. ~(y < x)
    BY <1>1, <2>1 DEF OpToRel
  <2> QED BY <2>1, <2>2
<1> QED BY <1>2

\* while_lex stops at the first character not to be skipped, at the end at last.
LEMMA RunEndIs ==
    ASSUME input \in Texts, NEW S, Eof \notin S, NEW i \in 1 .. Len(input) + 1
    PROVE  /\ RunEnd(i, S) \in i .. Len(input) + 1
           /\ \A k \in i .. RunEnd(i, S) - 1 : input[k] \in S
           /\ Peek(RunEnd(i, S)) \notin S
<1>1. Len(input) \in Nat
  BY LenProperties DEF Texts
<1> DEFINE T == {j \in i .. Len(input) + 1 : Peek(j) \notin S}
<1>2. Len(input) + 1 \in T
  BY <1>1 DEF Peek
<1>3. PICK x \in T : \A y \in T : x <= y
  <2>1. T \in SUBSET Nat /\ T # {}
    BY <1>1, <1>2
  <2> HIDE DEF T
  <2> QED BY <2>1, LeastNat
<1>4. \A k \in i .. x - 1 : input[k] \in S
  <2> SUFFICES ASSUME NEW k \in i .. x - 1, input[k] \notin S PROVE FALSE
    OBVIOUS
  <2>1. k \in i .. Len(input) + 1 /\ k <= Len(input) /\ k < x
    BY <1>1
  <2>2. k \in T
    BY <2>1 DEF Peek
  <2> QED BY <1>1, <1>3, <2>1, <2>2
<1>5. \E j \in i .. Len(input) + 1 :
            (\A k \in i .. j - 1 : input[k] \in S) /\ Peek(j) \notin S
  BY <1>4
<1> QED BY <1>5 DEF RunEnd

\* The classes of characters that matter.
LEMMA Classes ==
    /\ Eof \notin Chars /\ Eof \notin WordChars /\ Eof \notin Spaces
    /\ NL \notin Spaces /\ NL \notin WordChars /\ Quote \notin WordChars
    /\ "/" \notin Spaces /\ "#" \notin Spaces /\ "%" \notin WordChars
    /\ HexLetters \subseteq Letters /\ NL \notin Digits \cup HexLetters
    /\ Eof \notin Digits \cup HexLetters
    /\ WordChars \cap (Singles \cup DOMAIN Second) = {}
    /\ NL \notin Singles \cup DOMAIN Second
    /\ Letters \cap Digits = {} /\ "_" \notin Letters \cup Digits
    /\ WordChars = Letters \cup Digits \cup {"_"}
<1>1. /\ Eof \notin Chars
      /\ Letters \cap Digits = {} /\ HexLetters \subseteq Letters
      /\ (Spaces \cup Letters \cup Digits)
            \cap (Singles \cup DOMAIN Second \cup {NL, Quote, "%", "_", "#"}) = {}
  BY LexerAssumption
<1>2. DOMAIN Second = {".", "=", "!", "<", ">", "|", "&", ":"}
  BY DEF Second
<1>3. "/" \in Singles
  BY DEF Singles
<1>4. Spaces \subseteq Chars /\ WordChars \subseteq Chars /\ Digits \subseteq Chars
      /\ WordChars = Letters \cup Digits \cup {"_"} /\ Letters \subseteq Chars
  BY DEF Chars, WordChars
<1>5. Eof \notin Chars /\ Eof \notin WordChars /\ Eof \notin Spaces
  BY <1>1, <1>4
<1>6. NL \notin Spaces /\ NL \notin Letters /\ NL \notin Digits /\ "#" \notin Spaces
  BY <1>1
<1>7. "/" \notin Spaces
  BY <1>1, <1>3
<1>8. "_" \notin Letters \cup Digits /\ "%" \notin Letters \cup Digits
      /\ Quote \notin Letters \cup Digits
  BY <1>1
<1>9. NL # "_" /\ Quote # "_" /\ "%" # "_"
  BY DEF NL, Quote
<1>10. NL \notin Singles \cup DOMAIN Second /\ "_" \notin Singles \cup DOMAIN Second
  BY <1>2 DEF Singles, NL
<1>11. (Letters \cup Digits) \cap (Singles \cup DOMAIN Second) = {}
  BY <1>1
<1> QED BY <1>1, <1>4, <1>5, <1>6, <1>7, <1>8, <1>9, <1>10, <1>11
-----------------------------------------------------------------------------
\* The end of a token whose characters are those of a class.
LEMMA RunIs ==
    ASSUME input \in Texts, NEW S, Eof \notin S, NL \notin S,
           NEW i \in 1 .. Len(input), NEW j \in i + 1 .. Len(input) + 1,
           \A k \in i .. j - 1 : input[k] # NL
    PROVE  /\ RunEnd(j, S) \in i + 1 .. Len(input) + 1
           /\ \A k \in i .. RunEnd(j, S) - 1 : input[k] # NL
<1>1. Len(input) \in Nat /\ j \in 1 .. Len(input) + 1
  BY LenProperties DEF Texts
<1>3. /\ RunEnd(j, S) \in j .. Len(input) + 1
      /\ \A k \in j .. RunEnd(j, S) - 1 : input[k] \in S
  BY <1>1, RunEndIs
<1>4. PICK e \in j .. Len(input) + 1 : e = RunEnd(j, S)
  BY <1>3
<1>5. ASSUME NEW k \in i .. e - 1 PROVE input[k] # NL
  <2>1. k \in i .. j - 1 \/ k \in j .. e - 1
    BY <1>1
  <2> QED BY <1>3, <1>4, <2>1
<1>6. e \in i + 1 .. Len(input) + 1
  BY <1>1
<1> QED BY <1>4, <1>5, <1>6

LEMMA OperatorEndIs ==
    ASSUME input \in Texts, NEW i \in 1 .. Len(input), input[i] # NL
    PROVE  /\ OperatorEnd(i) \in i + 1 .. Len(input) + 1
           /\ \A k \in i .. OperatorEnd(i) - 1 : input[k] # NL
<1>1. Len(input) \in Nat
  BY LenProperties DEF Texts
<1>2. CASE input[i] \notin DOMAIN Second \/ Peek(i + 1) \notin Second[input[i]]
  <2>1. OperatorEnd(i) = i + 1
    BY <1>2 DEF OperatorEnd
  <2>2. \A k \in i .. (i + 1) - 1 : k = i
    BY <1>1
  <2> QED BY <1>1, <2>1, <2>2
<1>3. CASE input[i] \in DOMAIN Second /\ Peek(i + 1) \in Second[input[i]]
  <2>1. Second[input[i]] \subseteq {".", "=", ">", "|", "&", ":"}
    BY <1>3 DEF Second
  <2>2. Peek(i + 1) # Eof /\ Peek(i + 1) # NL
    BY <1>3, <2>1 DEF Eof, NL
  <2>3. i + 1 <= Len(input) /\ input[i + 1] # NL
    BY <1>1, <2>2 DEF Peek
  <2>4. CASE input[i] = "." /\ Peek(i + 2) = "="
    <3>1. OperatorEnd(i) = i + 3
      BY <1>3, <2>4 DEF OperatorEnd
    <3>2. i + 2 <= Len(input) /\ input[i + 2] # NL
      BY <1>1, <2>4 DEF Peek, Eof, NL
    <3>3. \A k \in i .. (i + 3) - 1 : k = i \/ k = i + 1 \/ k = i + 2
      BY <1>1
    <3> QED BY <1>1, <2>3, <3>1, <3>2, <3>3
  <2>5. CASE ~(input[i] = "." /\ Peek(i + 2) = "=")
    <3>1. OperatorEnd(i) = i + 2
      BY <1>3, <2>5 DEF OperatorEnd
    <3>2. \A k \in i .. (i + 2) - 1 : k = i \/ k = i + 1
      BY <1>1
    <3> QED BY <1>1, <2>3, <3>1, <3>2
  <2> QED BY <2>4, <2>5
<1> QED BY <1>2, <1>3

LEMMA NumberEndIs ==
    ASSUME input \in Texts, NEW i \in 1 .. Len(input), input[i] # NL
    PROVE  /\ NumberEnd(i) \in i + 1 .. Len(input) + 1
           /\ \A k \in i .. NumberEnd(i) - 1 : input[k] # NL
<1>1. Len(input) \in Nat
  BY LenProperties DEF Texts
<1>2. Eof \notin Digits \cup HexLetters /\ NL \notin Digits \cup HexLetters
  BY Classes
<1>3. CASE IsHex(i)
  <2>1. i + 1 <= Len(input) /\ input[i + 1] # NL
    BY <1>1, <1>3 DEF IsHex, Peek, Eof, NL
  <2>2. PICK j \in i + 1 .. Len(input) + 1 : j = i + 2
    BY <1>1, <2>1
  <2>3. \A k \in i .. j - 1 : k = i \/ k = i + 1
    BY <1>1, <2>2
  <2>4. /\ RunEnd(j, Digits \cup HexLetters) \in i + 1 .. Len(input) + 1
        /\ \A k \in i .. RunEnd(j, Digits \cup HexLetters) - 1 : input[k] # NL
    BY <1>2, <2>1, <2>3, RunIs
  <2>5. NumberEnd(i) = RunEnd(j, Digits \cup HexLetters)
    BY <1>3, <2>2 DEF NumberEnd
  <2> QED BY <2>4, <2>5
<1>4. CASE ~IsHex(i)
  <2>1. PICK j \in i + 1 .. Len(input) + 1 : j = i + 1
    BY <1>1
  <2>2. \A k \in i .. j - 1 : k = i
    BY <1>1, <2>1
  <2>3. /\ RunEnd(j, Digits) \in i + 1 .. Len(input) + 1
        /\ \A k \in i .. RunEnd(j, Digits) - 1 : input[k] # NL
    BY <1>2, <2>2, RunIs
  <2>4. NumberEnd(i) = RunEnd(j, Digits)
    BY <1>4, <2>1 DEF NumberEnd
  <2> QED BY <2>3, <2>4
<1> QED BY <1>3, <1>4

LEMMA WordEndIs ==
    ASSUME input \in Texts, NEW i \in 1 .. Len(input), input[i] # NL
    PROVE  /\ RunEnd(i + 1, WordChars) \in i + 1 .. Len(input) + 1
           /\ \A k \in i .. RunEnd(i + 1, WordChars) - 1 : input[k] # NL
<1>1. Len(input) \in Nat
  BY LenProperties DEF Texts
<1>2. PICK j \in i + 1 .. Len(input) + 1 : j = i + 1
  BY <1>1
<1>3. \A k \in i .. j - 1 : k = i
  BY <1>1, <1>2
<1>4. Eof \notin WordChars /\ NL \notin WordChars
  BY Classes
<1> QED BY <1>2, <1>3, <1>4, RunIs

LEMMA StringEndIs ==
    ASSUME input \in Texts, NEW i \in 1 .. Len(input)
    PROVE  StringEnd(i) \in i + 1 .. Len(input) + 1
<1>1. Len(input) \in Nat
  BY LenProperties DEF Texts
<1>2. PICK j \in 1 .. Len(input) + 1 : j = i + 1
  BY <1>1
<1>3. PICK S : S = Chars \ {Quote} /\ Eof \notin S
  BY Classes
<1>5. PICK e \in j .. Len(input) + 1 : e = RunEnd(j, S)
  BY <1>3, RunEndIs
<1>4. Peek(e) = Quote => e <= Len(input)
  BY <1>1 DEF Peek, Quote, Eof
<1> QED BY <1>1, <1>2, <1>3, <1>4, <1>5 DEF StringEnd

\* What lex_next makes of the text at i.
Reads(i, type, end) ==
    /\ type \in TokenTypes \ {"NEWLINE", "END"}
    /\ end \in i + 1 .. Len(input) + 1
    /\ type # "STRING" => \A k \in i .. end - 1 : input[k] # NL
    /\ type = "CT_DIRECTIVE" => at_line_start

LEMMA ScanReads ==
    ASSUME input \in Texts, NEW i \in 1 .. Len(input), input[i] # NL
    PROVE  Reads(i, Scan(i).type, Scan(i).end)
<1>1. Len(input) \in Nat
  BY LenProperties DEF Texts
<1>2. \A k \in i .. (i + 1) - 1 : k = i
  BY <1>1
<1> DEFINE c == input[i]
<1>3. CASE c = Quote
  <2>1. Scan(i) = [type |-> "STRING", end |-> StringEnd(i)]
    <3>1. c # "%" /\ c \notin Letters \cup {"_"} /\ c \notin Digits
      BY <1>3, Classes DEF Quote
    <3>2. c \notin Singles \cup DOMAIN Second
      BY <1>3 DEF Singles, Second, Quote
    <3> QED BY <1>3, <3>1, <3>2 DEF Scan
  <2> QED BY <2>1, StringEndIs DEF Reads, TokenTypes
<1>4. CASE c = "%"
  <2>1. Scan(i) = [type |-> IF DirectiveEnd(i) > i + 1 THEN "CT_DIRECTIVE" ELSE "OPERATOR",
                   end |-> DirectiveEnd(i)]
    <3>1. c # Quote /\ c \notin Letters \cup {"_"} /\ c \notin Digits
      BY <1>4, Classes DEF Quote
    <3>2. c \notin Singles \cup DOMAIN Second
      BY <1>4 DEF Singles, Second
    <3> QED BY <1>4, <3>1, <3>2 DEF Scan
  <2>2. CASE at_line_start
    <3>1. DirectiveEnd(i) = RunEnd(i + 1, WordChars)
      BY <2>2 DEF DirectiveEnd
    <3> QED BY <2>1, <2>2, <3>1, WordEndIs DEF Reads, TokenTypes
  <2>3. CASE ~at_line_start
    <3>1. DirectiveEnd(i) = i + 1
      BY <2>3 DEF DirectiveEnd
    <3>2. Scan(i) = [type |-> "OPERATOR", end |-> i + 1]
      BY <1>1, <2>1, <3>1
    <3> QED BY <1>1, <1>2, <3>2 DEF Reads, TokenTypes
  <2> QED BY <2>2, <2>3
<1>5. CASE c \in Letters \cup {"_"}
  <2>1. c # Quote /\ c # "%" /\ c \notin Digits /\ c \notin Singles \cup DOMAIN Second
    BY <1>5, Classes DEF Quote
  <2>2. PICK type \in {"KEYWORD", "IDENT"} :
            Scan(i) = [type |-> type, end |-> RunEnd(i + 1, WordChars)]
    BY <1>5, <2>1 DEF Scan
  <2> QED BY <2>2, WordEndIs DEF Reads, TokenTypes
<1>6. CASE c \in Digits
  <2>1. c # Quote /\ c # "%" /\ c \notin Letters \cup {"_"}
        /\ c \notin Singles \cup DOMAIN Second
    BY <1>6, Classes DEF Quote
  <2>2. PICK type \in {"INVALID", "NUM"} : Scan(i) = [type |-> type, end |-> NumberEnd(i)]
    BY <1>6, <2>1 DEF Scan
  <2> QED BY <2>2, NumberEndIs DEF Reads, TokenTypes
<1>7. CASE c \in Singles \cup DOMAIN Second
  <2>1. c # Quote /\ c # "%"
    BY <1>7 DEF Singles, Second, Quote
  <2>2. c \notin Letters \cup {"_"} /\ c \notin Digits
    BY <1>7, Classes
  <2>3. Scan(i) = [type |-> "OPERATOR", end |-> OperatorEnd(i)]
    BY <1>7, <2>1, <2>2 DEF Scan
  <2> QED BY <2>3, OperatorEndIs DEF Reads, TokenTypes
<1>8. CASE /\ c # Quote /\ c # "%" /\ c \notin Letters \cup {"_"} /\ c \notin Digits
           /\ c \notin Singles \cup DOMAIN Second
  <2>1. Scan(i) = [type |-> "INVALID", end |-> i + 1]
    BY <1>8 DEF Scan
  <2> QED BY <1>1, <1>2, <2>1 DEF Reads, TokenTypes
<1> QED BY <1>3, <1>4, <1>5, <1>6, <1>7, <1>8
-----------------------------------------------------------------------------
(* The text between the token before, whose end is p, and the place q.       *)

Begin(s, i, first, second) == At(s, i) = first /\ At(s, i + 1) = second

Opening(s, p, q, i) == i \in p .. q - 1 /\ i + 1 \in p .. q - 1 /\ Begin(s, i, "/", "*")

\* A newline is skipped in a block comment only.
Skipped(s, p, q) ==
    \A n \in p .. q - 1 : s[n] = NL => \E i \in p .. n - 1 : Opening(s, p, q, i)

Opened(s, p, q) == \E i \in p .. q - 1 : Opening(s, p, q, i)

Spans(s, p, q) == \E n \in p .. q - 1 : s[n] = NL

\* No two comments begin there.
Single(s, p, q) ==
    \A i, j \in p .. q - 1 : Opening(s, p, q, i) /\ Opening(s, p, q, j) => i = j

\* The flag that a comment with a newline leaves behind.
Told(s, p, q, flag) == (flag => Spans(s, p, q)) /\ (Spans(s, p, q) /\ Single(s, p, q) => flag)

\* More is skipped, up to r.
LEMMA SkippedMore ==
    ASSUME NEW s, NEW p \in Nat, NEW q \in Nat, NEW r \in Nat, q <= r, Skipped(s, p, q),
           \A n \in q .. r - 1 : s[n] = NL => Opened(s, p, q)
    PROVE  Skipped(s, p, r)
<1>1. ASSUME NEW n \in p .. r - 1, s[n] = NL PROVE \E i \in p .. n - 1 : Opening(s, p, r, i)
  <2>1. ASSUME NEW i \in p .. q - 1, Opening(s, p, q, i) PROVE Opening(s, p, r, i)
    BY <2>1 DEF Opening
  <2>2. CASE n \in p .. q - 1
    <3>1. PICK i \in p .. n - 1 : Opening(s, p, q, i)
      BY <1>1, <2>2 DEF Skipped
    <3>2. i \in p .. q - 1
      BY <2>2
    <3> QED BY <2>1, <3>1, <3>2
  <2>3. CASE n \in q .. r - 1
    <3>1. PICK i \in p .. q - 1 : Opening(s, p, q, i)
      BY <1>1, <2>3 DEF Opened
    <3>2. i \in p .. n - 1
      BY <2>3
    <3> QED BY <2>1, <3>1, <3>2
  <2> QED BY <2>2, <2>3
<1> QED BY <1>1 DEF Skipped

LEMMA SingleLess ==
    ASSUME NEW s, NEW p \in Nat, NEW q \in Nat, NEW r \in Nat, q <= r, Single(s, p, r)
    PROVE  Single(s, p, q)
<1> SUFFICES ASSUME NEW i \in p .. q - 1, NEW j \in p .. q - 1,
                    Opening(s, p, q, i), Opening(s, p, q, j)
             PROVE  i = j
  BY DEF Single
<1>1. Opening(s, p, r, i) /\ Opening(s, p, r, j)
  BY DEF Opening
<1>2. i \in p .. r - 1 /\ j \in p .. r - 1
  OBVIOUS
<1> QED BY <1>1, <1>2 DEF Single

\* The flag stays right as long as no newline is skipped, and is set at a newline.
LEMMA ToldMore ==
    ASSUME NEW s, NEW p \in Nat, NEW q \in Nat, NEW r \in Nat, q <= r,
           NEW flag \in BOOLEAN, Told(s, p, q, flag)
    PROVE  /\ (\A n \in q .. r - 1 : s[n] # NL) => Told(s, p, r, flag)
           /\ p <= q /\ Spans(s, q, r) => Told(s, p, r, TRUE)
<1>1. Spans(s, p, q) => Spans(s, p, r)
  <2> SUFFICES ASSUME NEW n \in p .. q - 1, s[n] = NL PROVE Spans(s, p, r)
    BY DEF Spans
  <2>1. n \in p .. r - 1
    OBVIOUS
  <2> QED BY <2>1 DEF Spans
<1>2. ASSUME \A n \in q .. r - 1 : s[n] # NL PROVE Told(s, p, r, flag)
  <2>1. Spans(s, p, r) => Spans(s, p, q)
    <3> SUFFICES ASSUME NEW n \in p .. r - 1, s[n] = NL PROVE Spans(s, p, q)
      BY DEF Spans
    <3>1. n \in p .. q - 1
      BY <1>2
    <3> QED BY <3>1 DEF Spans
  <2>2. Single(s, p, r) => Single(s, p, q)
    BY SingleLess
  <2> QED BY <1>1, <2>1, <2>2 DEF Told
<1>3. ASSUME p <= q, Spans(s, q, r) PROVE Told(s, p, r, TRUE)
  <2>1. PICK n \in q .. r - 1 : s[n] = NL
    BY <1>3 DEF Spans
  <2>2. n \in p .. r - 1
    BY <1>3
  <2>3. Spans(s, p, r)
    BY <2>1, <2>2 DEF Spans
  <2> QED BY <2>3 DEF Told
<1> QED BY <1>2, <1>3

\* Where a comment begins, no newline was skipped or another comment before.
LEMMA ToldAnew ==
    ASSUME NEW s, NEW p \in Nat, NEW q \in Nat, p <= q, Skipped(s, p, q),
           Begin(s, q, "/", "*"), s[q] # NL, s[q + 1] # NL
    PROVE  Told(s, p, q + 2, FALSE) /\ Opened(s, p, q + 2)
<1>1. q \in p .. (q + 2) - 1 /\ q + 1 \in p .. (q + 2) - 1
  OBVIOUS
<1>2. Opening(s, p, q + 2, q)
  BY <1>1 DEF Opening
<1>3. ASSUME Spans(s, p, q + 2), Single(s, p, q + 2) PROVE FALSE
  <2>1. PICK n \in p .. (q + 2) - 1 : s[n] = NL
    BY <1>3 DEF Spans
  <2>2. n \in p .. q - 1
    BY <2>1
  <2>3. PICK i \in p .. n - 1 : Opening(s, p, q, i)
    BY <2>1, <2>2 DEF Skipped
  <2>4. Opening(s, p, q + 2, i) /\ i \in p .. (q + 2) - 1 /\ i < q
    BY <2>2, <2>3 DEF Opening
  <2> QED BY <1>1, <1>2, <1>3, <2>4 DEF Single
<1> QED BY <1>1, <1>2, <1>3 DEF Told, Opened
-----------------------------------------------------------------------------
(* The tokens, and the lines they are in.                                    *)

Marked == [type : TokenTypes, start : Nat, length : Nat, line : Nat]

\* The end of the token before token k.
Behind(ts, k) == IF k = 1 THEN 1 ELSE ts[k - 1].start + ts[k - 1].length

InStrings(ts, k) ==
    UNION {ts[j].start .. (ts[j].start + ts[j].length) - 1 :
              j \in {i \in 1 .. k - 1 : ts[i].type = "STRING"}}

\* The newlines before q that count.
Counted(s, ts, k, q) == {n \in (1 .. q - 1) \ InStrings(ts, k) : s[n] = NL}

IsNewline(t) == t.type = "NEWLINE" /\ t.length = 0

Right(s, ts, k) ==
    /\ Behind(ts, k) <= ts[k].start
    /\ Skipped(s, Behind(ts, k), ts[k].start)
    /\ Told(s, Behind(ts, k), ts[k].start, IsNewline(ts[k]))
    /\ ts[k].line = 1 + Cardinality(Counted(s, ts, k, ts[k].start))

\* The lexer has come to q, in line ln, with the flag of the comment skipped last.
Here(s, ts, q, flag, ln) ==
    /\ \A k \in 1 .. Len(ts) : ts[k].start + ts[k].length <= q
    /\ Behind(ts, Len(ts) + 1) <= q
    /\ Skipped(s, Behind(ts, Len(ts) + 1), q)
    /\ Told(s, Behind(ts, Len(ts) + 1), q, flag)
    /\ ln = 1 + Cardinality(Counted(s, ts, Len(ts) + 1, q))

LEMMA BehindIs ==
    ASSUME NEW ts \in Seq(Marked), NEW k \in 1 .. Len(ts) + 1
    PROVE  Behind(ts, k) \in Nat
<1>1. Len(ts) \in Nat
  BY LenProperties
<1>2. CASE k = 1
  BY <1>2 DEF Behind
<1>3. CASE k # 1
  <2>1. k - 1 \in 1 .. Len(ts)
    BY <1>1, <1>3
  <2>2. ts[k - 1] \in Marked
    BY <2>1, ElementOfSeq
  <2>3. PICK t \in Marked : t = ts[k - 1]
    BY <2>2
  <2>4. t.start \in Nat /\ t.length \in Nat
    BY DEF Marked
  <2>5. Behind(ts, k) = t.start + t.length
    BY <1>3, <2>3 DEF Behind
  <2> QED BY <2>4, <2>5
<1> QED BY <1>2, <1>3

LEMMA CountIsFinite ==
    ASSUME NEW s, NEW ts, NEW k, NEW q \in Nat
    PROVE  IsFiniteSet(Counted(s, ts, k, q)) /\ Cardinality(Counted(s, ts, k, q)) \in Nat
<1>1. IsFiniteSet(1 .. q - 1)
  BY FS_Interval
<1>2. Counted(s, ts, k, q) \in SUBSET (1 .. q - 1)
  BY DEF Counted
<1> QED BY <1>1, <1>2, FS_Subset, FS_CardinalityType

\* A newline that no string holds counts.
LEMMA CountOneMore ==
    ASSUME NEW s, NEW ts \in Seq(Marked), NEW q \in Nat \ {0}, s[q] = NL,
           \A k \in 1 .. Len(ts) : ts[k].start + ts[k].length <= q
    PROVE  Cardinality(Counted(s, ts, Len(ts) + 1, q + 1))
              = Cardinality(Counted(s, ts, Len(ts) + 1, q)) + 1
<1>1. Len(ts) \in Nat
  BY LenProperties
<1>2. q \notin InStrings(ts, Len(ts) + 1)
  <2> SUFFICES ASSUME NEW j \in 1 .. Len(ts), q \in ts[j].start .. (ts[j].start + ts[j].length) - 1
               PROVE  FALSE
    BY <1>1 DEF InStrings
  <2>1. ts[j] \in Marked
    BY ElementOfSeq
  <2>2. PICK a \in Nat, b \in Nat : a = ts[j].start /\ b = ts[j].length
    BY <2>1 DEF Marked
  <2>3. a + b <= q /\ q \in a .. a + b - 1
    BY <2>2
  <2> QED BY <2>3
<1>3. Counted(s, ts, Len(ts) + 1, q + 1) = Counted(s, ts, Len(ts) + 1, q) \cup {q}
  <2>1. 1 .. (q + 1) - 1 = (1 .. q - 1) \cup {q}
    OBVIOUS
  <2> QED BY <1>2, <2>1 DEF Counted
<1>4. q \notin Counted(s, ts, Len(ts) + 1, q)
  BY DEF Counted
<1>5. IsFiniteSet(Counted(s, ts, Len(ts) + 1, q))
  BY CountIsFinite
<1> QED BY <1>3, <1>4, <1>5, FS_AddElement

LEMMA CountNoMore ==
    ASSUME NEW s, NEW ts, NEW k, NEW q \in Nat, NEW r \in Nat, q <= r, 1 <= q,
           \A n \in q .. r - 1 : s[n] # NL
    PROVE  Counted(s, ts, k, r) = Counted(s, ts, k, q)
<1>1. \A n \in 1 .. r - 1 : n \in 1 .. q - 1 \/ n \in q .. r - 1
  OBVIOUS
<1>2. 1 .. q - 1 \subseteq 1 .. r - 1
  OBVIOUS
<1> QED BY <1>1, <1>2 DEF Counted
-----------------------------------------------------------------------------
\* Nothing but text without newlines is skipped.
LEMMA HereQuiet ==
    ASSUME NEW s, NEW ts \in Seq(Marked), NEW q \in Nat, NEW r \in Nat, q <= r, 1 <= q,
           NEW flag \in BOOLEAN, NEW ln, Here(s, ts, q, flag, ln),
           NEW p, p = Behind(ts, Len(ts) + 1),
           \A n \in q .. r - 1 : s[n] # NL
    PROVE  Here(s, ts, r, flag, ln)
<1>1. Len(ts) \in Nat /\ Len(ts) + 1 \in 1 .. Len(ts) + 1
  <2>1. Len(ts) \in Nat
    BY LenProperties
  <2> QED BY <2>1
<1>2. p \in Nat /\ p <= q
  BY <1>1, BehindIs DEF Here
<1>3. Skipped(s, p, q) /\ Told(s, p, q, flag)
  BY DEF Here
<1>4. \A n \in q .. r - 1 : s[n] = NL => Opened(s, p, q)
  OBVIOUS
<1>5. Skipped(s, p, r)
  BY <1>2, <1>3, <1>4, SkippedMore
<1>6. Told(s, p, r, flag)
  BY <1>2, <1>3, ToldMore
<1>7. Counted(s, ts, Len(ts) + 1, r) = Counted(s, ts, Len(ts) + 1, q)
  BY CountNoMore
<1>8. ASSUME NEW k \in 1 .. Len(ts) PROVE ts[k].start + ts[k].length <= r
  <2>1. ts[k] \in Marked
    BY ElementOfSeq
  <2>2. PICK e \in Nat : e = ts[k].start + ts[k].length
    BY <2>1 DEF Marked
  <2>3. e <= q
    BY <2>2 DEF Here
  <2> QED BY <2>2, <2>3
<1>9. p <= r
  BY <1>2
<1>10. ln = 1 + Cardinality(Counted(s, ts, Len(ts) + 1, r))
  BY <1>7 DEF Here
<1> QED BY <1>5, <1>6, <1>8, <1>9, <1>10 DEF Here

\* A block comment begins.
LEMMA HereOpens ==
    ASSUME NEW s, NEW ts \in Seq(Marked), NEW q \in Nat, 1 <= q,
           NEW flag \in BOOLEAN, NEW ln, Here(s, ts, q, flag, ln),
           Begin(s, q, "/", "*"), s[q] = "/", s[q + 1] = "*"
    PROVE  /\ Here(s, ts, q + 2, FALSE, ln)
           /\ Opened(s, Behind(ts, Len(ts) + 1), q + 2)
<1>1. PICK p : p = Behind(ts, Len(ts) + 1)
  OBVIOUS
<1>2. Len(ts) \in Nat /\ Len(ts) + 1 \in 1 .. Len(ts) + 1
  <2>1. Len(ts) \in Nat
    BY LenProperties
  <2> QED BY <2>1
<1>3. p \in Nat /\ p <= q /\ Skipped(s, p, q)
  BY <1>1, <1>2, BehindIs DEF Here
<1>4. s[q] # NL /\ s[q + 1] # NL
  BY DEF NL
<1>5. Told(s, p, q + 2, FALSE) /\ Opened(s, p, q + 2)
  BY <1>3, <1>4, ToldAnew
<1>6. PICK r \in Nat : r = q + 2
  OBVIOUS
<1>7. \A n \in q .. r - 1 : s[n] # NL
  <2>1. \A n \in q .. r - 1 : n = q \/ n = q + 1
    BY <1>6
  <2> QED BY <1>4, <2>1
<1>8. q <= r
  BY <1>6
<1>9. Here(s, ts, r, flag, ln)
  BY <1>1, <1>7, <1>8, HereQuiet
<1> QED BY <1>1, <1>5, <1>6, <1>9 DEF Here

\* In a comment: a newline, or other characters.
LEMMA HereInComment ==
    ASSUME NEW s, NEW ts \in Seq(Marked), NEW q \in Nat, 1 <= q,
           NEW flag \in BOOLEAN, NEW ln, Here(s, ts, q, flag, ln),
           NEW p, p = Behind(ts, Len(ts) + 1), Opened(s, p, q)
    PROVE  /\ s[q] = NL => Here(s, ts, q + 1, TRUE, ln + 1) /\ Opened(s, p, q + 1)
           /\ \A r \in Nat : (q <= r /\ \A n \in q .. r - 1 : s[n] # NL)
                                => Here(s, ts, r, flag, ln) /\ Opened(s, p, r)
<1>1. Len(ts) \in Nat /\ Len(ts) + 1 \in 1 .. Len(ts) + 1
  <2>1. Len(ts) \in Nat
    BY LenProperties
  <2> QED BY <2>1
<1>2. p \in Nat /\ p <= q /\ Skipped(s, p, q) /\ Told(s, p, q, flag)
  BY <1>1, BehindIs DEF Here
<1>3. PICK i \in p .. q - 1 : Opening(s, p, q, i)
  BY DEF Opened
<1>5. ASSUME NEW r \in Nat, q <= r PROVE Opened(s, p, r)
  <2>1. i \in p .. r - 1 /\ Opening(s, p, r, i)
    BY <1>3, <1>5 DEF Opening
  <2> QED BY <2>1 DEF Opened
<1>6. ASSUME NEW r \in Nat, q <= r, \A n \in q .. r - 1 : s[n] # NL
      PROVE  Here(s, ts, r, flag, ln) /\ Opened(s, p, r)
  BY <1>5, <1>6, HereQuiet
<1>7. ASSUME s[q] = NL PROVE Here(s, ts, q + 1, TRUE, ln + 1) /\ Opened(s, p, q + 1)
  <2>1. PICK r \in Nat : r = q + 1 /\ q <= r
    OBVIOUS
  <2>2. \A n \in q .. r - 1 : s[n] = NL => Opened(s, p, q)
    OBVIOUS
  <2>3. Skipped(s, p, r)
    BY <1>2, <2>1, <2>2, SkippedMore
  <2>4. Told(s, p, r, TRUE)
    <3>1. q \in q .. r - 1
      BY <2>1
    <3>2. Spans(s, q, r)
      BY <1>7, <3>1 DEF Spans
    <3> QED BY <1>2, <2>1, <3>2, ToldMore
  <2>5. Cardinality(Counted(s, ts, Len(ts) + 1, r))
          = Cardinality(Counted(s, ts, Len(ts) + 1, q)) + 1
    BY <1>7, <2>1, CountOneMore DEF Here
  <2>6. ln + 1 = 1 + Cardinality(Counted(s, ts, Len(ts) + 1, r))
    <3>1. Cardinality(Counted(s, ts, Len(ts) + 1, q)) \in Nat
      BY CountIsFinite
    <3> QED BY <2>5, <3>1 DEF Here
  <2>7. ASSUME NEW k \in 1 .. Len(ts) PROVE ts[k].start + ts[k].length <= r
    <3>1. ts[k] \in Marked
      BY ElementOfSeq
    <3>2. PICK e \in Nat : e = ts[k].start + ts[k].length
      BY SMTT(30), <3>1 DEF Marked
    <3>3. e <= q
      BY <3>2 DEF Here
    <3> QED BY <2>1, <3>2, <3>3
  <2>8. p <= r
    BY <1>2, <2>1
  <2>9. Here(s, ts, r, TRUE, ln + 1)
    BY <2>3, <2>4, <2>6, <2>7, <2>8 DEF Here
  <2> QED BY <1>5, <2>1, <2>9
<1> QED BY <1>6, <1>7
-----------------------------------------------------------------------------
\* ts2 is ts with token t behind its n tokens: what is said of a token speaks of
\* those before it only.
Appended(ts, t, n, ts2) ==
    /\ n = Len(ts) /\ ts2 = Append(ts, t) /\ Len(ts2) = n + 1 /\ ts2[n + 1] = t
    /\ \A k \in 1 .. n : ts2[k] = ts[k]
    /\ \A k \in 1 .. n + 1 : Behind(ts2, k) = Behind(ts, k)
    /\ \A k \in 1 .. n + 1 : InStrings(ts2, k) = InStrings(ts, k)
    /\ \A s : \A k \in 1 .. n : Right(s, ts, k) => Right(s, ts2, k)

LEMMA AppendKeeps ==
    ASSUME NEW ts \in Seq(Marked), NEW t \in Marked
    PROVE  \E n \in Nat, ts2 \in Seq(Marked) : Appended(ts, t, n, ts2)
<1>0. PICK n, ts2 : n = Len(ts) /\ ts2 = Append(ts, t)
  OBVIOUS
<1>1. /\ n \in Nat /\ ts2 \in Seq(Marked) /\ Len(ts2) = n + 1 /\ ts2[n + 1] = t
      /\ \A k \in 1 .. n : ts2[k] = ts[k]
  BY <1>0, LenProperties, AppendProperties
<1>2. ASSUME NEW k \in 1 .. n + 1 PROVE Behind(ts2, k) = Behind(ts, k)
  <2>1. k # 1 => k - 1 \in 1 .. n
    BY <1>1
  <2> QED BY <1>1, <2>1 DEF Behind
<1>3. ASSUME NEW k \in 1 .. n + 1 PROVE InStrings(ts2, k) = InStrings(ts, k)
  <2>1. \A j \in 1 .. k - 1 : ts2[j] = ts[j]
    <3> SUFFICES ASSUME NEW j \in 1 .. k - 1 PROVE ts2[j] = ts[j]
      OBVIOUS
    <3>1. j \in 1 .. n
      BY <1>1
    <3> QED BY <1>1, <3>1
  <2> QED BY <2>1 DEF InStrings
<1>4. ASSUME NEW s, NEW k \in 1 .. n, Right(s, ts, k) PROVE Right(s, ts2, k)
  <2>1. k \in 1 .. n + 1
    BY <1>1
  <2>2. ts2[k] = ts[k] /\ Behind(ts2, k) = Behind(ts, k)
    BY <1>1, <1>2, <2>1
  <2>3. Counted(s, ts2, k, ts[k].start) = Counted(s, ts, k, ts[k].start)
    BY <1>3, <2>1 DEF Counted
  <2> QED BY <1>4, <2>2, <2>3 DEF Right
<1>5. Appended(ts, t, n, ts2)
  BY <1>0, <1>1, <1>2, <1>3, <1>4 DEF Appended
<1> QED BY <1>1, <1>5

\* Token t begins at q, in line ln, and is a newline without text just when the flag
\* is set; behind it, at r, the line is ln2.
Placed(s, t, q, r, flag, ln, ln2) ==
    /\ 1 <= q /\ t.start = q /\ t.line = ln /\ IsNewline(t) = flag /\ r = q + t.length
    /\ \/ t.type = "STRING" /\ ln2 = ln
       \/ (\A n \in q .. r - 1 : s[n] # NL) /\ ln2 = ln
       \/ t.type # "STRING" /\ t.length = 1 /\ s[q] = NL /\ ln2 = ln + 1

\* A token is to be stored behind those in ts, which makes ts2.
Storing(s, ts, t, q, r, flag, ln, ln2, n, ts2) ==
    /\ ts \in Seq(Marked) /\ t \in Marked /\ q \in Nat /\ r \in Nat /\ flag \in BOOLEAN
    /\ ln \in Nat /\ ln2 \in Nat /\ n \in Nat /\ ts2 \in Seq(Marked)
    /\ Here(s, ts, q, flag, ln) /\ Placed(s, t, q, r, flag, ln, ln2)
    /\ Appended(ts, t, n, ts2)

\* Such a token is right, and nothing was skipped yet behind it.
LEMMA HerePushed ==
    ASSUME NEW s, NEW ts, NEW t, NEW q, NEW r, NEW flag, NEW ln, NEW ln2, NEW n, NEW ts2,
           Storing(s, ts, t, q, r, flag, ln, ln2, n, ts2)
    PROVE  Right(s, ts2, n + 1) /\ Here(s, ts2, r, FALSE, ln2)
<1>0. /\ ts \in Seq(Marked) /\ t \in Marked /\ q \in Nat /\ r \in Nat /\ flag \in BOOLEAN
      /\ ln \in Nat /\ ln2 \in Nat /\ n \in Nat /\ ts2 \in Seq(Marked)
      /\ Here(s, ts, q, flag, ln) /\ Placed(s, t, q, r, flag, ln, ln2)
      /\ Appended(ts, t, n, ts2)
  BY DEF Storing
<1> USE <1>0
<1>1. /\ 1 <= q /\ t.start = q /\ t.line = ln /\ IsNewline(t) = flag /\ r = q + t.length
      /\ \/ t.type = "STRING" /\ ln2 = ln
         \/ (\A k \in q .. r - 1 : s[k] # NL) /\ ln2 = ln
         \/ t.type # "STRING" /\ t.length = 1 /\ s[q] = NL /\ ln2 = ln + 1
  BY DEF Placed
<1>2. /\ n = Len(ts) /\ ts2 \in Seq(Marked) /\ Len(ts2) = n + 1 /\ ts2[n + 1] = t
      /\ \A k \in 1 .. n : ts2[k] = ts[k]
      /\ \A k \in 1 .. n + 1 : Behind(ts2, k) = Behind(ts, k)
      /\ \A k \in 1 .. n + 1 : InStrings(ts2, k) = InStrings(ts, k)
  BY DEF Appended
<1>3. r \in Nat /\ q <= r /\ t.length \in Nat /\ n + 1 \in 1 .. n + 1
  <2>1. t.length \in Nat
    BY DEF Marked
  <2> QED BY <1>1, <2>1
<1>4. Behind(ts2, n + 1) = Behind(ts, n + 1) /\ InStrings(ts2, n + 1) = InStrings(ts, n + 1)
  BY <1>2, <1>3
<1>5. Right(s, ts2, n + 1)
  <2>1. Counted(s, ts2, n + 1, q) = Counted(s, ts, n + 1, q)
    BY <1>4 DEF Counted
  <2>2. /\ Behind(ts, n + 1) <= q /\ Skipped(s, Behind(ts, n + 1), q)
        /\ Told(s, Behind(ts, n + 1), q, flag)
        /\ ln = 1 + Cardinality(Counted(s, ts, n + 1, q))
    BY <1>2 DEF Here
  <2>3. Told(s, Behind(ts, n + 1), q, IsNewline(t))
    BY <1>1, <2>2
  <2> QED BY <1>1, <1>2, <1>4, <2>1, <2>2, <2>3 DEF Right
<1>6. Behind(ts2, n + 2) = r
  <2>1. n + 2 # 1 /\ (n + 2) - 1 = n + 1
    BY <1>2
  <2> QED BY <1>1, <1>2, <2>1 DEF Behind
<1>7. InStrings(ts2, n + 2) =
        IF t.type = "STRING" THEN InStrings(ts, n + 1) \cup (q .. r - 1) ELSE InStrings(ts, n + 1)
  <2>1. \A x : x \in InStrings(ts, n + 1) <=>
            \E j \in 1 .. n : ts2[j].type = "STRING"
                              /\ x \in ts2[j].start .. (ts2[j].start + ts2[j].length) - 1
    <3>1. (n + 1) - 1 = n
      BY <1>2
    <3> QED BY <1>4, <3>1 DEF InStrings
  <2>2. \A x : x \in InStrings(ts2, n + 2) <=>
            \E j \in 1 .. n + 1 : ts2[j].type = "STRING"
                              /\ x \in ts2[j].start .. (ts2[j].start + ts2[j].length) - 1
    <3>1. (n + 2) - 1 = n + 1
      BY <1>2
    <3> QED BY <3>1 DEF InStrings
  <2>3. \A j : j \in 1 .. n + 1 <=> j \in 1 .. n \/ j = n + 1
    BY <1>2
  <2>4. ts2[n + 1].type = t.type
        /\ ts2[n + 1].start .. (ts2[n + 1].start + ts2[n + 1].length) - 1 = q .. r - 1
    <3>1. ts2[n + 1] = t
      BY <1>2
    <3>2. t.start .. (t.start + t.length) - 1 = q .. r - 1
      BY <1>1, <1>3
    <3> QED BY <3>1, <3>2
  <2>5. \A x : x \in InStrings(ts2, n + 2) <=>
            x \in InStrings(ts, n + 1) \/ (t.type = "STRING" /\ x \in q .. r - 1)
    BY <2>1, <2>2, <2>3, <2>4, Zenon
  <2> QED BY <2>5, Zenon
<1>8. ln2 = 1 + Cardinality(Counted(s, ts2, n + 2, r))
  <2>1. ln = 1 + Cardinality(Counted(s, ts, n + 1, q))
    BY <1>2 DEF Here
  <2>2. CASE t.type = "STRING" /\ ln2 = ln
    <3>1. (1 .. r - 1) \ (InStrings(ts, n + 1) \cup (q .. r - 1)) =
            (1 .. q - 1) \ InStrings(ts, n + 1)
      <4>1. \A k : k \in 1 .. r - 1 /\ k \notin q .. r - 1 <=> k \in 1 .. q - 1
        BY <1>3
      <4> QED BY <4>1
    <3>2. InStrings(ts2, n + 2) = InStrings(ts, n + 1) \cup (q .. r - 1)
      BY <1>7, <2>2
    <3>3. Counted(s, ts2, n + 2, r) = Counted(s, ts, n + 1, q)
      BY <3>1, <3>2 DEF Counted
    <3> QED BY <2>1, <2>2, <3>3
  <2>3. CASE (\A k \in q .. r - 1 : s[k] # NL) /\ ln2 = ln
    <3>1. \A k : k \in 1 .. r - 1 <=> k \in 1 .. q - 1 \/ k \in q .. r - 1
      BY SMTT(30), <1>1, <1>3
    <3>2. \A k : k \in 1 .. q - 1 => k \notin q .. r - 1
      BY <1>1
    <3>3. Counted(s, ts2, n + 2, r) = Counted(s, ts, n + 1, q)
      <4>1. CASE t.type = "STRING"
        <5>1. InStrings(ts2, n + 2) = InStrings(ts, n + 1) \cup (q .. r - 1)
          BY <1>7, <4>1
        <5> QED BY <2>3, <3>1, <3>2, <5>1 DEF Counted
      <4>2. CASE t.type # "STRING"
        <5>1. InStrings(ts2, n + 2) = InStrings(ts, n + 1)
          BY <1>7, <4>2
        <5> QED BY <2>3, <3>1, <3>2, <5>1 DEF Counted
      <4> QED BY <4>1, <4>2
    <3> QED BY <2>1, <2>3, <3>3
  <2>4. CASE t.type # "STRING" /\ t.length = 1 /\ s[q] = NL /\ ln2 = ln + 1
    <3>1. r = q + 1
      BY <1>1, <2>4
    <3>2. InStrings(ts2, n + 2) = InStrings(ts, n + 1)
      BY <1>7, <2>4
    <3>3. Counted(s, ts2, n + 2, r) = Counted(s, ts, n + 1, q + 1)
      BY <3>1, <3>2 DEF Counted
    <3>4. Cardinality(Counted(s, ts, n + 1, q + 1)) = Cardinality(Counted(s, ts, n + 1, q)) + 1
      <4>1. q \in Nat \ {0} /\ \A k \in 1 .. Len(ts) : ts[k].start + ts[k].length <= q
        BY <1>1 DEF Here
      <4> QED BY <1>2, <2>4, <4>1, CountOneMore
    <3>5. Cardinality(Counted(s, ts, n + 1, q)) \in Nat
      BY CountIsFinite
    <3> QED BY SMTT(30), <2>1, <2>4, <3>3, <3>4, <3>5
  <2> QED BY <1>1, <2>2, <2>3, <2>4
<1>9. ASSUME NEW k \in 1 .. Len(ts2) PROVE ts2[k].start + ts2[k].length <= r
  <2>1. CASE k = n + 1
    <3>1. ts2[k].start + ts2[k].length = r
      BY <1>1, <1>2, <2>1
    <3> QED BY <1>3, <3>1
  <2>2. CASE k \in 1 .. n
    <3>1. ts[k] \in Marked
      BY <1>2, <2>2, ElementOfSeq
    <3>2. ts[k].start \in Nat /\ ts[k].length \in Nat
      BY <3>1 DEF Marked
    <3>5. PICK e \in Nat : e = ts[k].start + ts[k].length
      BY <3>2
    <3>3. e <= q
      BY <1>2, <2>2, <3>5 DEF Here
    <3>4. ts2[k].start + ts2[k].length = e
      BY <1>2, <2>2, <3>5
    <3> QED BY <1>3, <3>3, <3>4
  <2> QED BY <1>2, <2>1, <2>2
<1>10. Skipped(s, r, r) /\ Told(s, r, r, FALSE)
  <2>1. \A k : k \notin r .. r - 1
    BY <1>3
  <2> QED BY <2>1 DEF Skipped, Told, Spans
<1>11. Len(ts2) + 1 = n + 2 /\ r <= r
  BY <1>2, <1>3
<1>12. Here(s, ts2, r, FALSE, ln2)
  BY <1>6, <1>8, <1>9, <1>10, <1>11 DEF Here
<1> QED BY <1>2, <1>5, <1>12
-----------------------------------------------------------------------------
(* Types, and where the lexer is.                                            *)

TokenSet(s) ==
    [type : TokenTypes, start : 0 .. Len(s) + 1, length : 0 .. Len(s), line : 0 .. Len(s) + 1]

\* A line holds at least the newline before it.
Typed == TypeOK /\ line <= pos

Running == pc \in {"shebang", "skip", "block"}

LEMMA TypedIs ==
    ASSUME Typed
    PROVE  /\ input \in Inputs /\ input \in Texts /\ Len(input) \in Nat
           /\ pos \in Nat /\ 1 <= pos /\ pos <= Len(input) + 1 /\ pos \in 1 .. Len(input) + 1
           /\ line \in Nat /\ 1 <= line /\ line <= pos /\ line \in 1 .. Len(input) + 1
           /\ pc \in Phases /\ depth \in Nat
           /\ at_line_start \in BOOLEAN /\ has_newline \in BOOLEAN /\ pending \in BOOLEAN
           /\ tokens \in Seq(TokenSet(input)) /\ tokens \in Seq(Marked)
           /\ cap \in Nat /\ cap >= 1 /\ buffer \in Nat /\ room \in Nat
<1>1. input \in Inputs /\ input \in Texts
  BY LexerAssumption DEF Typed, TypeOK, Texts
<1>2. Len(input) \in Nat
  BY <1>1, LenProperties DEF Texts
<1>3. tokens \in Seq(TokenSet(input))
  BY DEF Typed, TypeOK, TokenSet
<1>4. tokens \in Seq(Marked)
  <2>1. TokenSet(input) \subseteq Marked
    BY <1>2 DEF TokenSet, Marked
  <2> QED BY <1>3, <2>1, SeqMonotonic
<1>5. at_line_start \in BOOLEAN /\ has_newline \in BOOLEAN /\ pending \in BOOLEAN
  BY DEF Typed, TypeOK
<1> QED BY <1>1, <1>2, <1>3, <1>4, <1>5 DEF Typed, TypeOK

LEMMA TypedFrom ==
    ASSUME Typed, input' = input, pos' \in 1 .. Len(input) + 1,
           line' \in 1 .. Len(input) + 1, line' <= pos', pc' \in Phases, depth' \in Nat,
           at_line_start' \in BOOLEAN, has_newline' \in BOOLEAN, pending' \in BOOLEAN,
           tokens' \in Seq(TokenSet(input)), cap' \in Nat, cap' >= 1,
           buffer' \in Nat, room' \in Nat
    PROVE  Typed'
<1>1. input' \in Inputs
  BY TypedIs
<1>2. tokens' \in Seq([type : TokenTypes, start : 0 .. Len(input') + 1,
                       length : 0 .. Len(input'), line : 0 .. Len(input') + 1])
  BY DEF TokenSet
<1>3. {at_line_start', has_newline', pending'} \subseteq BOOLEAN
  OBVIOUS
<1> QED BY <1>1, <1>2, <1>3 DEF Typed, TypeOK

\* The lexer looks at a character, not behind the end.
LEMMA PeekIs ==
    ASSUME Typed, NEW i \in Nat, Peek(i) # Eof
    PROVE  i <= Len(input) /\ Peek(i) = input[i] /\ Peek(i) = At(input, i)
<1>1. Len(input) \in Nat
  BY TypedIs
<1> QED BY <1>1 DEF Peek, At

LEMMA PeekAt == ASSUME NEW i PROVE Peek(i) = At(input, i)
BY DEF Peek, At

LEMMA BeginsIs ==
    ASSUME NEW i, NEW first, NEW second
    PROVE  Begins(i, first, second) <=> Begin(input, i, first, second)
BY PeekAt DEF Begins, Begin

\* Two characters that are looked at.
LEMMA TwoAhead ==
    ASSUME Typed, NEW x, NEW y, x # Eof, y # Eof, Peek(pos) = x, Peek(pos + 1) = y
    PROVE  /\ Begin(input, pos, x, y) /\ input[pos] = x /\ input[pos + 1] = y
           /\ pos + 2 \in 1 .. Len(input) + 1
<1>1. pos \in Nat /\ pos + 1 \in Nat /\ Len(input) \in Nat
  BY TypedIs
<1>2. pos <= Len(input) /\ Peek(pos) = input[pos]
  BY <1>1, PeekIs
<1>3. pos + 1 <= Len(input) /\ Peek(pos + 1) = input[pos + 1]
  BY <1>1, PeekIs
<1>4. Begin(input, pos, x, y)
  BY PeekAt DEF Begin
<1> QED BY <1>1, <1>2, <1>3, <1>4
-----------------------------------------------------------------------------
(* The buffer of the tokens.                                                 *)

Filled ==
    /\ buffer \in {0, cap}
    /\ Running => Len(tokens) <= buffer
    /\ pc = "done" => Len(tokens) <= buffer + 1 /\ tokens # << >>
                      /\ tokens[Len(tokens)].type = "END"

\* A token is stored, or there is no memory for it; every token has its place.
LEMMA PushIs ==
    ASSUME Typed, Filled, Running, NEW token \in TokenSet(input), Push(token)
    PROVE  /\ \/ pc' = "skip" /\ tokens' = Append(tokens, token)
              \/ pc' = "crashed" /\ tokens' = tokens
           /\ tokens' \in Seq(TokenSet(input))
           /\ cap' \in Nat /\ cap' >= 1 /\ buffer' \in Nat /\ room' \in Nat
           /\ pc' \in Phases /\ Filled'
<1>1. PICK held : held = IF ~(Len(tokens) >= cap) THEN buffer
                         ELSE IF 2 * cap <= room THEN 2 * cap ELSE 0
  OBVIOUS
<1>2. /\ cap' = (IF Len(tokens) >= cap THEN 2 * cap ELSE cap)
      /\ buffer' = held
      /\ room' = (IF Len(tokens) >= cap THEN room - held ELSE room)
      /\ tokens' = (IF held = 0 THEN tokens ELSE Append(tokens, token))
      /\ pc' = (IF held = 0 THEN "crashed" ELSE "skip")
  BY <1>1 DEF Push
<1>3. /\ cap \in Nat /\ cap >= 1 /\ buffer \in Nat /\ room \in Nat
      /\ tokens \in Seq(TokenSet(input)) /\ Len(tokens) \in Nat
  BY TypedIs, LenProperties
<1>4. buffer \in {0, cap} /\ Len(tokens) <= buffer
  BY DEF Filled
<1>5. /\ Append(tokens, token) \in Seq(TokenSet(input))
      /\ Len(Append(tokens, token)) = Len(tokens) + 1
  BY <1>3, AppendProperties
<1>6. held \in Nat /\ cap' \in Nat /\ cap' >= 1 /\ buffer' \in Nat /\ room' \in Nat
  BY <1>1, <1>2, <1>3
<1>7. CASE held = 0
  <2>1. pc' = "crashed" /\ tokens' = tokens /\ buffer' = 0
    BY <1>2, <1>7
  <2> QED BY <1>3, <1>6, <2>1 DEF Filled, Running, Phases
<1>8. CASE held # 0
  <2>1. pc' = "skip" /\ tokens' = Append(tokens, token)
    BY <1>2, <1>8
  <2>2. buffer' = cap' /\ Len(tokens) + 1 <= buffer'
    BY <1>1, <1>2, <1>3, <1>4, <1>8
  <2> QED BY <1>5, <1>6, <2>1, <2>2 DEF Filled, Running, Phases
<1> QED BY <1>7, <1>8

LEMMA FilledKept ==
    ASSUME Filled, UNCHANGED store, Running, pc' \in {"shebang", "skip", "block"}
    PROVE  Filled'
BY DEF Filled, store, Running
-----------------------------------------------------------------------------
(* The inductive invariant.                                                  *)

\* No text before the first token with text, where a directive may stand.
Started == at_line_start => \A k \in 1 .. Len(tokens) : tokens[k].length = 0

FirstOnly ==
    \A k \in 1 .. Len(tokens) : tokens[k].type = "CT_DIRECTIVE" =>
        \A j \in 1 .. k - 1 : tokens[j].length = 0

Stored == \A k \in 1 .. Len(tokens) : tokens[k].type # "END" => Right(input, tokens, k)

\* The flag of the comment that is being skipped, or was skipped last.
Flag == IF pc = "block" THEN has_newline ELSE pending

Skipping ==
    Running =>
        /\ Here(input, tokens, pos, Flag, line)
        /\ pc = "shebang" => tokens = << >> /\ Begin(input, 1, "#", "!")
        /\ pc = "block" => Opened(input, Behind(tokens, Len(tokens) + 1), pos)

IInv == Typed /\ Filled /\ Started /\ FirstOnly /\ Stored /\ Skipping

\* The lexer moves on without storing a token.
LEMMA Moves ==
    ASSUME IInv, Running, input' = input, at_line_start' = at_line_start, UNCHANGED store,
           pc' \in {"shebang", "skip", "block"}, pos' \in 1 .. Len(input) + 1,
           line' \in 1 .. Len(input) + 1, line' <= pos', depth' \in Nat,
           has_newline' \in BOOLEAN, pending' \in BOOLEAN,
           Here(input, tokens, pos', IF pc' = "block" THEN has_newline' ELSE pending', line'),
           pc' = "shebang" => pc = "shebang",
           pc' = "block" => Opened(input, Behind(tokens, Len(tokens) + 1), pos')
    PROVE  IInv'
<1>1. Typed /\ Filled /\ Started /\ FirstOnly /\ Stored /\ Skipping
  BY DEF IInv
<1>2. tokens' = tokens /\ cap' = cap /\ buffer' = buffer /\ room' = room
  BY DEF store
<1>3. Typed'
  <2>1. pc' \in Phases
    BY DEF Phases
  <2>2. /\ tokens \in Seq(TokenSet(input)) /\ cap \in Nat /\ cap >= 1
        /\ buffer \in Nat /\ room \in Nat /\ at_line_start \in BOOLEAN
    BY <1>1, TypedIs
  <2> QED BY <1>1, <1>2, <2>1, <2>2, TypedFrom
<1>4. Filled'
  BY <1>1, FilledKept
<1>5. Started' /\ FirstOnly' /\ Stored'
  BY <1>1, <1>2 DEF Started, FirstOnly, Stored
<1>6. Flag' = IF pc' = "block" THEN has_newline' ELSE pending'
  BY DEF Flag
<1>7. Skipping'
  BY <1>1, <1>2, <1>6 DEF Skipping
<1> QED BY <1>3, <1>4, <1>5, <1>7 DEF IInv

\* The lexer stores a token, if it has memory for it.
LEMMA Pushes ==
    ASSUME IInv, pc = "skip", NEW token \in TokenSet(input), Push(token),
           input' = input, UNCHANGED comment,
           token.start = pos, token.line = line, IsNewline(token) = pending,
           token.type = "CT_DIRECTIVE" => at_line_start,
           pos' = pos + token.length, pos' \in 1 .. Len(input) + 1,
           line' \in 1 .. Len(input) + 1, line' <= pos', pending' = FALSE,
           at_line_start' \in BOOLEAN, at_line_start' => at_line_start /\ token.length = 0,
           \/ token.type = "STRING" /\ line' = line
           \/ (\A n \in pos .. pos' - 1 : input[n] # NL) /\ line' = line
           \/ token.type # "STRING" /\ token.length = 1 /\ input[pos] = NL /\ line' = line + 1
    PROVE  IInv'
<1>1. Typed /\ Filled /\ Started /\ FirstOnly /\ Stored /\ Skipping /\ Running
  BY DEF IInv, Running
<1>2. /\ \/ pc' = "skip" /\ tokens' = Append(tokens, token)
         \/ pc' = "crashed" /\ tokens' = tokens
      /\ tokens' \in Seq(TokenSet(input))
      /\ cap' \in Nat /\ cap' >= 1 /\ buffer' \in Nat /\ room' \in Nat
      /\ pc' \in Phases /\ Filled'
  BY <1>1, PushIs
<1>3. /\ pos \in Nat /\ 1 <= pos /\ line \in Nat /\ pending \in BOOLEAN
      /\ depth \in Nat /\ has_newline \in BOOLEAN /\ tokens \in Seq(Marked)
      /\ Len(input) \in Nat
  BY <1>1, TypedIs
<1>4. Typed'
  <2>1. depth' \in Nat /\ has_newline' \in BOOLEAN
    BY <1>3 DEF comment
  <2> QED BY <1>1, <1>2, <2>1, TypedFrom
<1>5. CASE pc' = "crashed" /\ tokens' = tokens
  <2>1. FirstOnly' /\ Stored' /\ Started'
    BY <1>1, <1>5 DEF FirstOnly, Stored, Started
  <2>2. Skipping'
    BY <1>5 DEF Skipping, Running
  <2> QED BY <1>2, <1>4, <2>1, <2>2 DEF IInv
<1>6. CASE pc' = "skip" /\ tokens' = Append(tokens, token)
  <2>1. token \in Marked
    BY <1>3 DEF TokenSet, Marked
  <2>2. PICK n \in Nat, ts \in Seq(Marked) : Appended(tokens, token, n, ts)
    BY <1>3, <2>1, AppendKeeps
  <2>3. ts = tokens'
    BY <1>6, <2>2 DEF Appended
  <2>4. /\ n = Len(tokens) /\ Len(ts) = n + 1 /\ ts[n + 1] = token
        /\ \A k \in 1 .. n : ts[k] = tokens[k]
        /\ \A k \in 1 .. n : Right(input, tokens, k) => Right(input, ts, k)
    BY <2>2 DEF Appended
  <2>5. \A k \in 1 .. n + 1 : k \in 1 .. n \/ k = n + 1
    OBVIOUS
  <2>6. Right(input, ts, n + 1) /\ Here(input, ts, pos', FALSE, line')
    <3>1. Here(input, tokens, pos, pending, line)
      BY <1>1 DEF Skipping, Flag
    <3>2. pos' \in Nat /\ line' \in Nat
      BY <1>3
    <3>3. Placed(input, token, pos, pos', pending, line, line')
      BY <1>3 DEF Placed
    <3>4. Storing(input, tokens, token, pos, pos', pending, line, line', n, ts)
      BY <1>3, <2>1, <2>2, <3>1, <3>2, <3>3 DEF Storing
    <3> QED BY <3>4, HerePushed
  <2>7. Stored'
    <3> SUFFICES ASSUME NEW k \in 1 .. n + 1, ts[k].type # "END" PROVE Right(input, ts, k)
      BY <2>3, <2>4 DEF Stored
    <3>1. CASE k = n + 1
      BY <2>6, <3>1
    <3>2. CASE k \in 1 .. n
      BY <1>1, <2>4, <3>2 DEF Stored
    <3> QED BY <2>5, <3>1, <3>2
  <2>8. Started'
    <3> SUFFICES ASSUME at_line_start', NEW k \in 1 .. n + 1 PROVE ts[k].length = 0
      BY <2>3, <2>4 DEF Started
    <3>1. CASE k = n + 1
      BY <2>4, <3>1
    <3>2. CASE k \in 1 .. n
      BY <1>1, <2>4, <3>2 DEF Started
    <3> QED BY <2>5, <3>1, <3>2
  <2>9. FirstOnly'
    <3> SUFFICES ASSUME NEW k \in 1 .. n + 1, ts[k].type = "CT_DIRECTIVE", NEW j \in 1 .. k - 1
                 PROVE  ts[j].length = 0
      BY <2>3, <2>4 DEF FirstOnly
    <3>1. j \in 1 .. n /\ ts[j] = tokens[j]
      BY <2>4
    <3>2. CASE k = n + 1
      BY <1>1, <2>4, <3>1, <3>2 DEF Started
    <3>3. CASE k \in 1 .. n
      BY <1>1, <2>4, <3>1, <3>3 DEF FirstOnly
    <3> QED BY <2>5, <3>2, <3>3
  <2>10. Flag' = FALSE
    BY <1>6 DEF Flag
  <2>11. Skipping'
    BY <1>6, <2>3, <2>6, <2>10 DEF Skipping
  <2> QED BY <1>2, <1>4, <2>7, <2>8, <2>9, <2>11 DEF IInv
<1> QED BY <1>2, <1>5, <1>6
-----------------------------------------------------------------------------
(* The steps of the lexer.                                                   *)

LEMMA HereNow ==
    ASSUME IInv, Running
    PROVE  /\ Typed /\ Here(input, tokens, pos, Flag, line)
           /\ pc = "shebang" => tokens = << >> /\ Begin(input, 1, "#", "!")
           /\ pc = "block" => Opened(input, Behind(tokens, Len(tokens) + 1), pos)
BY DEF IInv, Skipping

\* Text without newlines is skipped from pos to r.
LEMMA QuietNow ==
    ASSUME IInv, pc \in {"shebang", "skip"}, NEW r \in pos .. Len(input) + 1,
           \A n \in pos .. r - 1 : input[n] # NL
    PROVE  Here(input, tokens, r, pending, line)
<1>1. /\ pos \in Nat /\ 1 <= pos /\ pending \in BOOLEAN /\ tokens \in Seq(Marked)
      /\ Len(input) \in Nat
  BY TypedIs DEF IInv
<1>2. Here(input, tokens, pos, pending, line)
  BY HereNow DEF Running, Flag
<1>3. PICK q \in Nat, e \in Nat : q = pos /\ e = r /\ q <= e /\ 1 <= q
  BY <1>1
<1>4. PICK p : p = Behind(tokens, Len(tokens) + 1)
  OBVIOUS
<1>5. Here(input, tokens, q, pending, line)
  BY <1>2, <1>3
<1>6. \A n \in q .. e - 1 : input[n] # NL
  BY <1>3
<1>7. Here(input, tokens, e, pending, line)
  BY <1>1, <1>3, <1>4, <1>5, <1>6, HereQuiet
<1> QED BY <1>3, <1>7

LEMMA ShebangStep == ASSUME IInv, Shebang PROVE IInv'
<1>1. /\ pc = "shebang" /\ input' = input /\ line' = line /\ at_line_start' = at_line_start
      /\ UNCHANGED store /\ UNCHANGED comment /\ pending' = pending
  BY DEF Shebang
<1>2. Running /\ depth' = depth /\ has_newline' = has_newline
  BY <1>1 DEF Running, comment
<1>3. /\ Typed /\ tokens = << >> /\ Begin(input, 1, "#", "!")
      /\ Here(input, tokens, pos, pending, line)
  BY <1>1, <1>2, HereNow DEF Flag
<1>4. /\ pos \in Nat /\ 1 <= pos /\ pos <= Len(input) + 1 /\ Len(input) \in Nat
      /\ line \in 1 .. Len(input) + 1 /\ line <= pos /\ line \in Nat
      /\ depth \in Nat /\ has_newline \in BOOLEAN /\ pending \in BOOLEAN
  BY <1>3, TypedIs
<1>5. CASE pos' = pos
  <2>1. pc' \in {"shebang", "skip"}
    BY <1>1 DEF Shebang
  <2>2. pos' \in 1 .. Len(input) + 1 /\ line' <= pos'
    BY <1>1, <1>4, <1>5
  <2>3. Here(input, tokens, pos', IF pc' = "block" THEN has_newline' ELSE pending', line')
    BY <1>1, <1>3, <1>5, <2>1
  <2> QED BY <1>1, <1>2, <1>4, <2>1, <2>2, <2>3, Moves
<1>6. CASE pos' = pos + 1 /\ pc' = "shebang" /\ Peek(pos) # NL /\ Peek(pos) # Eof
  <2>1. pos <= Len(input) /\ input[pos] # NL
    BY <1>3, <1>4, <1>6, PeekIs
  <2>5. PICK r \in pos .. Len(input) + 1 : r = pos + 1
    BY <1>4, <2>1
  <2>6. \A i \in pos .. r - 1 : i = pos
    BY <1>4, <2>5
  <2>8. Here(input, tokens, r, pending, line)
    BY <1>1, <2>1, <2>6, QuietNow
  <2>9. pos' \in 1 .. Len(input) + 1 /\ line' <= pos'
    BY <1>1, <1>4, <1>6, <2>1
  <2>10. Here(input, tokens, pos', IF pc' = "block" THEN has_newline' ELSE pending', line')
    BY <1>1, <1>6, <2>5, <2>8
  <2> QED BY <1>1, <1>2, <1>4, <1>6, <2>9, <2>10, Moves
<1> QED BY <1>1, <1>5, <1>6 DEF Shebang

LEMMA SkipSpaceStep == ASSUME IInv, SkipSpace PROVE IInv'
<1>1. /\ pc = "skip" /\ input' = input /\ line' = line /\ at_line_start' = at_line_start
      /\ UNCHANGED store /\ UNCHANGED comment /\ pending' = pending /\ pc' = pc
      /\ Peek(pos) \in Spaces /\ pos' = pos + 1
  BY DEF SkipSpace
<1>2. Running /\ depth' = depth /\ has_newline' = has_newline /\ Typed
  BY <1>1 DEF Running, comment, IInv
<1>3. /\ pos \in Nat /\ 1 <= pos /\ pos <= Len(input) + 1 /\ Len(input) \in Nat
      /\ line \in 1 .. Len(input) + 1 /\ line <= pos /\ line \in Nat
      /\ depth \in Nat /\ has_newline \in BOOLEAN /\ pending \in BOOLEAN
  BY <1>2, TypedIs
<1>4. pos <= Len(input) /\ input[pos] \in Spaces /\ input[pos] # NL
  <2>1. Peek(pos) # Eof /\ Peek(pos) # NL
    BY <1>1, Classes
  <2> QED BY <1>1, <1>2, <1>3, <2>1, PeekIs
<1>5. PICK r \in pos .. Len(input) + 1 : r = pos + 1
  BY <1>3, <1>4
<1>6. \A i \in pos .. r - 1 : i = pos
  BY <1>3, <1>5
<1>7. Here(input, tokens, r, pending, line)
  BY <1>1, <1>4, <1>6, QuietNow
<1>8. Here(input, tokens, pos', IF pc' = "block" THEN has_newline' ELSE pending', line')
  BY <1>1, <1>5, <1>7
<1>9. pos' \in 1 .. Len(input) + 1 /\ line' <= pos'
  BY <1>1, <1>3, <1>4
<1> QED BY <1>1, <1>2, <1>3, <1>8, <1>9, Moves

LEMMA LineCommentStep == ASSUME IInv, LineComment PROVE IInv'
<1>1. /\ pc = "skip" /\ input' = input /\ line' = line /\ at_line_start' = at_line_start
      /\ UNCHANGED store /\ UNCHANGED comment /\ pending' = pending /\ pc' = pc
      /\ Peek(pos) = "/" /\ Peek(pos + 1) = "/" /\ pos' = RunEnd(pos + 2, Chars \ {NL})
  BY DEF LineComment, AtLineComment
<1>2. Running /\ depth' = depth /\ has_newline' = has_newline /\ Typed
  BY <1>1 DEF Running, comment, IInv
<1>3. /\ pos \in Nat /\ 1 <= pos /\ pos <= Len(input) + 1 /\ Len(input) \in Nat
      /\ line \in 1 .. Len(input) + 1 /\ line <= pos /\ line \in Nat
      /\ depth \in Nat /\ has_newline \in BOOLEAN /\ pending \in BOOLEAN
      /\ input \in Texts /\ tokens \in Seq(Marked)
  BY <1>2, TypedIs
<1>4. /\ Begin(input, pos, "/", "/") /\ input[pos] = "/" /\ input[pos + 1] = "/"
      /\ pos + 2 \in 1 .. Len(input) + 1
  <2>1. "/" # Eof
    BY DEF Eof
  <2> QED BY <1>1, <1>2, <2>1, TwoAhead
<1>5. /\ pos' \in pos + 2 .. Len(input) + 1
      /\ \A k \in pos + 2 .. pos' - 1 : input[k] \in Chars \ {NL}
  <2>1. Eof \notin Chars \ {NL}
    BY Classes
  <2> QED BY <1>1, <1>3, <1>4, <2>1, RunEndIs
<1>6. PICK r \in pos .. Len(input) + 1 : r = pos'
  BY <1>3, <1>5
<1>7. \A n \in pos .. r - 1 : n = pos \/ n = pos + 1 \/ n \in pos + 2 .. r - 1
  BY <1>3
<1>8. \A n \in pos .. r - 1 : input[n] # NL
  <2>1. "/" # NL
    BY DEF NL
  <2>2. \A n \in pos + 2 .. r - 1 : input[n] # NL
    BY <1>5, <1>6
  <2> QED BY <1>4, <1>7, <2>1, <2>2
<1>10. Here(input, tokens, r, pending, line)
  BY <1>1, <1>8, QuietNow
<1>11. Here(input, tokens, pos', IF pc' = "block" THEN has_newline' ELSE pending', line')
  BY <1>1, <1>6, <1>10
<1>12. pos' \in 1 .. Len(input) + 1 /\ line' <= pos'
  BY <1>1, <1>3, <1>5
<1> QED BY <1>1, <1>2, <1>3, <1>11, <1>12, Moves

LEMMA BlockCommentStep == ASSUME IInv, BlockComment PROVE IInv'
<1>1. /\ pc = "skip" /\ input' = input /\ line' = line /\ at_line_start' = at_line_start
      /\ UNCHANGED store /\ pending' = pending /\ pc' = "block" /\ depth' = 1
      /\ has_newline' = FALSE
      /\ Peek(pos) = "/" /\ Peek(pos + 1) = "*" /\ pos' = pos + 2
  BY DEF BlockComment, AtBlockComment
<1>2. Running /\ Typed
  BY <1>1 DEF Running, IInv
<1>3. /\ pos \in Nat /\ 1 <= pos /\ line \in 1 .. Len(input) + 1 /\ line <= pos /\ line \in Nat
      /\ pending \in BOOLEAN /\ tokens \in Seq(Marked)
  BY <1>2, TypedIs
<1>4. /\ Begin(input, pos, "/", "*") /\ input[pos] = "/" /\ input[pos + 1] = "*"
      /\ pos + 2 \in 1 .. Len(input) + 1
  <2>1. "/" # Eof /\ "*" # Eof
    BY DEF Eof
  <2> QED BY <1>1, <1>2, <2>1, TwoAhead
<1>5. Here(input, tokens, pos, pending, line)
  BY <1>1, <1>2, HereNow DEF Flag
<1>6. /\ Here(input, tokens, pos + 2, FALSE, line)
      /\ Opened(input, Behind(tokens, Len(tokens) + 1), pos + 2)
  BY <1>3, <1>4, <1>5, HereOpens
<1>7. Here(input, tokens, pos', IF pc' = "block" THEN has_newline' ELSE pending', line')
  <2>1. (IF pc' = "block" THEN has_newline' ELSE pending') = FALSE
    BY <1>1
  <2>2. pos' = pos + 2 /\ line' = line
    BY <1>1
  <2> QED BY <1>6, <2>1, <2>2, Zenon
<1>8. /\ pos' \in 1 .. Len(input) + 1 /\ line' <= pos' /\ line' \in 1 .. Len(input) + 1
      /\ depth' \in Nat /\ has_newline' \in BOOLEAN /\ pending' \in BOOLEAN
  <2>1. pos' = pos + 2 /\ line' = line /\ depth' = 1 /\ has_newline' = FALSE /\ pending' = pending
    BY <1>1
  <2>2. line <= pos + 2
    BY <1>3
  <2> QED BY <1>3, <1>4, <2>1, <2>2
<1>9. Opened(input, Behind(tokens, Len(tokens) + 1), pos')
  BY <1>1, <1>6
<1> QED BY <1>1, <1>2, <1>7, <1>8, <1>9, Moves

LEMMA InCommentStep == ASSUME IInv, InComment PROVE IInv'
<1>1. /\ pc = "block" /\ input' = input /\ at_line_start' = at_line_start
      /\ UNCHANGED store /\ pending' = pending /\ pc' = pc
      /\ Peek(pos) # Eof /\ depth > 0
      /\ has_newline' = (has_newline \/ Peek(pos) = NL)
      /\ line' = (IF Peek(pos) = NL THEN line + 1 ELSE line)
  BY DEF InComment
<1>2. Running /\ Typed
  BY <1>1 DEF Running, IInv
<1>3. /\ pos \in Nat /\ 1 <= pos /\ line \in 1 .. Len(input) + 1 /\ line <= pos /\ line \in Nat
      /\ pending \in BOOLEAN /\ tokens \in Seq(Marked) /\ Len(input) \in Nat
      /\ depth \in Nat /\ has_newline \in BOOLEAN
  BY <1>2, TypedIs
<1>4. pos <= Len(input) /\ Peek(pos) = input[pos]
  BY <1>1, <1>2, <1>3, PeekIs
<1>5. PICK p : p = Behind(tokens, Len(tokens) + 1)
  OBVIOUS
<1>6. Here(input, tokens, pos, has_newline, line) /\ Opened(input, p, pos)
  BY <1>1, <1>2, <1>5, HereNow DEF Flag
<1>7. /\ input[pos] = NL => Here(input, tokens, pos + 1, TRUE, line + 1) /\ Opened(input, p, pos + 1)
      /\ \A r \in Nat : (pos <= r /\ \A n \in pos .. r - 1 : input[n] # NL)
            => Here(input, tokens, r, has_newline, line) /\ Opened(input, p, r)
  BY <1>3, <1>5, <1>6, HereInComment
<1>8. /\ pos' = (IF AtBlockComment \/ (Peek(pos) = "*" /\ Peek(pos + 1) = "/")
                 THEN pos + 2 ELSE pos + 1)
      /\ depth' = (IF AtBlockComment THEN depth + 1
                   ELSE IF Peek(pos) = "*" /\ Peek(pos + 1) = "/" THEN depth - 1 ELSE depth)
  BY DEF InComment
<1>9. depth' \in Nat /\ has_newline' \in BOOLEAN
  <2>1. depth' \in Nat
    BY <1>1, <1>3, <1>8
  <2> QED BY <1>1, <1>3, <2>1
<1>10. CASE Peek(pos) = NL
  <2>1. pos' = pos + 1
    <3>1. Peek(pos) # "/" /\ Peek(pos) # "*"
      BY <1>10 DEF NL
    <3> QED BY <1>8, <3>1 DEF AtBlockComment
  <2>2. has_newline' = TRUE /\ line' = line + 1
    BY <1>1, <1>10
  <2>3. Here(input, tokens, pos', has_newline', line') /\ Opened(input, p, pos')
    BY <1>4, <1>7, <1>10, <2>1, <2>2
  <2>4. pos' \in 1 .. Len(input) + 1 /\ line' <= pos' /\ line' \in 1 .. Len(input) + 1
    BY <1>3, <1>4, <2>1, <2>2
  <2>5. Here(input, tokens, pos', IF pc' = "block" THEN has_newline' ELSE pending', line')
    BY <1>1, <2>3
  <2> QED BY <1>1, <1>2, <1>3, <1>5, <1>9, <2>3, <2>4, <2>5, Moves
<1>11. CASE Peek(pos) # NL
  <2>1. has_newline' = has_newline /\ line' = line
    BY <1>1, <1>3, <1>11
  <2>2. /\ pos' \in pos .. Len(input) + 1 /\ pos' \in Nat
        /\ \A n \in pos .. pos' - 1 : input[n] # NL
    <3>1. CASE AtBlockComment \/ (Peek(pos) = "*" /\ Peek(pos + 1) = "/")
      <4>1. pos' = pos + 2 /\ Peek(pos + 1) # Eof /\ Peek(pos + 1) # NL
        BY <1>8, <3>1 DEF AtBlockComment, Eof, NL
      <4>2. pos + 1 <= Len(input) /\ input[pos + 1] # NL
        <5>1. pos + 1 \in Nat
          BY <1>3
        <5> QED BY <1>2, <4>1, <5>1, PeekIs
      <4>3. \A n \in pos .. (pos + 2) - 1 : n = pos \/ n = pos + 1
        BY <1>3
      <4> QED BY <1>3, <1>4, <1>11, <4>1, <4>2, <4>3
    <3>2. CASE ~(AtBlockComment \/ (Peek(pos) = "*" /\ Peek(pos + 1) = "/"))
      <4>1. pos' = pos + 1
        BY <1>8, <3>2
      <4>2. \A n \in pos .. (pos + 1) - 1 : n = pos
        BY <1>3
      <4> QED BY <1>3, <1>4, <1>11, <4>1, <4>2
    <3> QED BY <3>1, <3>2
  <2>3. Here(input, tokens, pos', has_newline', line') /\ Opened(input, p, pos')
    <3>1. PICK r \in Nat : r = pos'
      BY <2>2
    <3>2. pos <= r /\ \A n \in pos .. r - 1 : input[n] # NL
      <4>1. r \in pos .. Len(input) + 1
        BY <2>2, <3>1
      <4>2. \A n \in pos .. r - 1 : input[n] # NL
        BY <2>2, <3>1, Zenon
      <4> QED BY <1>3, <4>1, <4>2
    <3>3. Here(input, tokens, r, has_newline, line) /\ Opened(input, p, r)
      BY <1>7, <3>2
    <3> QED BY <2>1, <3>1, <3>3
  <2>4. pos' \in 1 .. Len(input) + 1 /\ line' <= pos' /\ line' \in 1 .. Len(input) + 1
    BY <1>3, <2>1, <2>2
  <2>5. Here(input, tokens, pos', IF pc' = "block" THEN has_newline' ELSE pending', line')
    BY <1>1, <2>3
  <2> QED BY <1>1, <1>2, <1>3, <1>5, <1>9, <2>3, <2>4, <2>5, Moves
<1> QED BY <1>10, <1>11

LEMMA CommentEndsStep == ASSUME IInv, CommentEnds PROVE IInv'
<1>1. /\ pc = "block" /\ input' = input /\ at_line_start' = at_line_start
      /\ UNCHANGED store /\ UNCHANGED comment /\ pending' = has_newline /\ pc' = "skip"
      /\ pos' = pos /\ line' = line
  BY DEF CommentEnds
<1>2. Running /\ Typed /\ depth' = depth /\ has_newline' = has_newline
  BY <1>1 DEF Running, IInv, comment
<1>3. /\ pos \in 1 .. Len(input) + 1 /\ line \in 1 .. Len(input) + 1 /\ line <= pos
      /\ depth \in Nat /\ has_newline \in BOOLEAN
  BY <1>2, TypedIs
<1>4. Here(input, tokens, pos, has_newline, line)
  BY <1>1, <1>2, HereNow DEF Flag
<1>5. Here(input, tokens, pos', IF pc' = "block" THEN has_newline' ELSE pending', line')
  BY <1>1, <1>4
<1> QED BY <1>1, <1>2, <1>3, <1>5, Moves

LEMMA CommentNewlineStep == ASSUME IInv, CommentNewline PROVE IInv'
<1>1. /\ pc = "skip" /\ input' = input /\ at_line_start' = at_line_start
      /\ UNCHANGED comment /\ pending = TRUE /\ pending' = FALSE
      /\ pos' = pos /\ line' = line /\ Push(Token("NEWLINE", 0))
  <2>1. pending \in BOOLEAN
    BY TypedIs DEF IInv
  <2> QED BY <2>1 DEF CommentNewline, AtToken
<1>2. /\ pos \in Nat /\ 1 <= pos /\ pos \in 1 .. Len(input) + 1 /\ Len(input) \in Nat
      /\ line \in 1 .. Len(input) + 1 /\ line <= pos /\ at_line_start \in BOOLEAN
  BY TypedIs DEF IInv
<1>3. PICK token : token = Token("NEWLINE", 0)
  OBVIOUS
<1>4. /\ token.type = "NEWLINE" /\ token.start = pos /\ token.length = 0 /\ token.line = line
      /\ token \in TokenSet(input)
  BY <1>2, <1>3 DEF Token, TokenSet, TokenTypes
<1>5. IsNewline(token) = pending
  BY <1>1, <1>4 DEF IsNewline
<1>6. pos' = pos + token.length /\ \A n \in pos .. pos' - 1 : input[n] # NL
  BY <1>1, <1>2, <1>4
<1> QED BY <1>1, <1>2, <1>3, <1>4, <1>5, <1>6, Pushes

LEMMA NewlineStep == ASSUME IInv, Newline PROVE IInv'
<1>1. /\ pc = "skip" /\ input' = input /\ at_line_start' = FALSE
      /\ UNCHANGED comment /\ pending = FALSE /\ pending' = FALSE
      /\ pos' = pos + 1 /\ line' = line + 1 /\ Push(Token("NEWLINE", 1))
      /\ Peek(pos) = NL
  <2>1. pending \in BOOLEAN
    BY TypedIs DEF IInv
  <2> QED BY <2>1 DEF Newline, AtToken
<1>2. /\ pos \in Nat /\ 1 <= pos /\ pos \in 1 .. Len(input) + 1 /\ Len(input) \in Nat
      /\ line \in 1 .. Len(input) + 1 /\ line <= pos /\ line \in Nat
  BY TypedIs DEF IInv
<1>3. pos <= Len(input) /\ input[pos] = NL
  <2>1. Peek(pos) # Eof
    BY <1>1 DEF NL, Eof
  <2> QED BY <1>1, <1>2, <2>1, PeekIs DEF IInv
<1>4. PICK token : token = Token("NEWLINE", 1)
  OBVIOUS
<1>5. /\ token.type = "NEWLINE" /\ token.start = pos /\ token.length = 1 /\ token.line = line
      /\ token \in TokenSet(input)
  <2>1. 1 \in 0 .. Len(input) /\ pos \in 0 .. Len(input) + 1 /\ line \in 0 .. Len(input) + 1
    BY <1>2, <1>3
  <2>2. "NEWLINE" \in TokenTypes
    BY DEF TokenTypes
  <2>3. token = [type |-> "NEWLINE", start |-> pos, length |-> 1, line |-> line]
    BY <1>4 DEF Token
  <2>4. token \in TokenSet(input)
    BY <2>1, <2>2, <2>3 DEF TokenSet
  <2> QED BY <2>3, <2>4
<1>6. IsNewline(token) = pending
  <2>1. token.length # 0
    BY <1>5
  <2>2. IsNewline(token) = FALSE
    BY <2>1, Zenon DEF IsNewline
  <2> QED BY <1>1, <2>2
<1>7. /\ pos' = pos + token.length /\ pos' \in 1 .. Len(input) + 1
      /\ line' \in 1 .. Len(input) + 1 /\ line' <= pos'
  BY <1>1, <1>2, <1>3, <1>5
<1> QED BY <1>1, <1>3, <1>4, <1>5, <1>6, <1>7, Pushes

LEMMA OtherTokenStep == ASSUME IInv, OtherToken PROVE IInv'
<1>1. PICK type, end : type = Scan(pos).type /\ end = Scan(pos).end
  OBVIOUS
<1>2. /\ pc = "skip" /\ input' = input /\ at_line_start' = FALSE
      /\ UNCHANGED comment /\ pending = FALSE /\ pending' = FALSE
      /\ pos' = end /\ line' = line /\ Push(Token(type, end - pos))
      /\ Peek(pos) # NL /\ Peek(pos) # Eof
  <2>1. pending \in BOOLEAN
    BY TypedIs DEF IInv
  <2> QED BY <1>1, <2>1 DEF OtherToken, AtToken
<1>3. /\ pos \in Nat /\ 1 <= pos /\ Len(input) \in Nat /\ input \in Texts
      /\ line \in 1 .. Len(input) + 1 /\ line <= pos /\ line \in Nat
  BY TypedIs DEF IInv
<1>4. pos \in 1 .. Len(input) /\ input[pos] # NL
  <2>1. pos <= Len(input) /\ Peek(pos) = input[pos]
    BY <1>2, <1>3, PeekIs DEF IInv
  <2> QED BY <1>2, <1>3, <2>1
<1>5. Reads(pos, type, end)
  BY <1>1, <1>3, <1>4, ScanReads
<1>6. /\ type \in TokenTypes /\ type # "NEWLINE" /\ type # "END"
      /\ end \in pos + 1 .. Len(input) + 1
      /\ type # "STRING" => \A k \in pos .. end - 1 : input[k] # NL
      /\ type = "CT_DIRECTIVE" => at_line_start
  BY <1>5 DEF Reads
<1>7. PICK token : token = Token(type, end - pos)
  OBVIOUS
<1>8. /\ token.type = type /\ token.start = pos /\ token.length = end - pos /\ token.line = line
      /\ token \in TokenSet(input)
  BY <1>3, <1>4, <1>6, <1>7 DEF Token, TokenSet
<1>9. IsNewline(token) = pending
  BY <1>2, <1>6, <1>8 DEF IsNewline
<1>10. /\ pos' = pos + token.length /\ pos' \in 1 .. Len(input) + 1 /\ line' <= pos'
       /\ line' \in 1 .. Len(input) + 1
  BY <1>2, <1>3, <1>6, <1>8
<1>11. \/ token.type = "STRING" /\ line' = line
       \/ (\A n \in pos .. pos' - 1 : input[n] # NL) /\ line' = line
  BY <1>2, <1>6, <1>8
<1>12. token.type = "CT_DIRECTIVE" => at_line_start
  BY <1>6, <1>8
<1> QED BY <1>2, <1>7, <1>8, <1>9, <1>10, <1>11, <1>12, Pushes

LEMMA EndStep == ASSUME IInv, End PROVE IInv'
<1>1. /\ pc = "skip" /\ input' = input /\ at_line_start' = at_line_start
      /\ pos' = pos /\ line' = line /\ depth' = depth /\ has_newline' = has_newline
      /\ pending' = pending /\ cap' = cap /\ buffer' = buffer /\ room' = room
  BY DEF End, AtToken, comment
<1>2. Typed /\ Filled /\ Started /\ FirstOnly /\ Stored /\ Running
  BY <1>1 DEF IInv, Running
<1>3. /\ tokens \in Seq(TokenSet(input)) /\ tokens \in Seq(Marked) /\ Len(tokens) \in Nat
      /\ Len(input) \in Nat
      /\ buffer \in Nat /\ Len(tokens) <= buffer
  <2>1. Len(tokens) <= buffer
    BY <1>2 DEF Filled
  <2> QED BY <1>2, <2>1, TypedIs, LenProperties
<1>4. CASE pc' = "crashed" /\ tokens' = tokens
  <2>1. Typed'
    <3>1. pc' \in Phases
      BY <1>4 DEF Phases
    <3> QED BY <1>1, <1>2, <1>4, <3>1 DEF Typed, TypeOK
  <2>2. Filled' /\ Skipping'
    BY <1>1, <1>2, <1>4 DEF Filled, Skipping, Running
  <2>3. Started' /\ FirstOnly' /\ Stored'
    BY <1>1, <1>2, <1>4 DEF Started, FirstOnly, Stored
  <2> QED BY <2>1, <2>2, <2>3 DEF IInv
<1>5. CASE pc' = "done"
  <2>1. PICK t : t = [type |-> "END", start |-> 0, length |-> 0, line |-> 0]
    OBVIOUS
  <2>2. tokens' = Append(tokens, t)
    BY <1>5, <2>1 DEF End
  <2>3. /\ t.type = "END" /\ t.length = 0 /\ t \in TokenSet(input) /\ t \in Marked
    BY <1>3, <2>1 DEF TokenSet, TokenTypes, Marked
  <2>4. tokens' \in Seq(TokenSet(input))
    BY <1>3, <2>2, <2>3, AppendProperties
  <2>5. PICK n \in Nat, ts \in Seq(Marked) : Appended(tokens, t, n, ts)
    BY <1>3, <2>3, AppendKeeps
  <2>6. /\ ts = tokens' /\ n = Len(tokens) /\ Len(ts) = n + 1 /\ ts[n + 1] = t
        /\ \A k \in 1 .. n : ts[k] = tokens[k]
        /\ \A k \in 1 .. n : Right(input, tokens, k) => Right(input, ts, k)
    BY <2>2, <2>5 DEF Appended
  <2>7. \A k \in 1 .. n + 1 : k \in 1 .. n \/ k = n + 1
    OBVIOUS
  <2>8. Typed'
    <3>1. pc' \in Phases
      BY <1>5 DEF Phases
    <3>2. tokens' \in Seq([type : TokenTypes, start : 0 .. Len(input) + 1,
                           length : 0 .. Len(input), line : 0 .. Len(input) + 1])
      BY <2>4 DEF TokenSet
    <3> QED BY <1>1, <1>2, <3>1, <3>2 DEF Typed, TypeOK
  <2>9. Filled'
    <3>1. ts # << >>
      BY <2>6, EmptySeq
    <3>2. Len(tokens') <= buffer' + 1 /\ tokens' # << >> /\ tokens'[Len(tokens')].type = "END"
      BY <1>1, <1>3, <2>3, <2>6, <3>1
    <3>3. buffer' \in {0, cap'}
      BY <1>1, <1>2 DEF Filled
    <3> QED BY <1>5, <3>2, <3>3 DEF Filled, Running
  <2>10. Started'
    <3> SUFFICES ASSUME at_line_start', NEW k \in 1 .. n + 1 PROVE ts[k].length = 0
      BY <2>6 DEF Started
    <3>1. CASE k = n + 1
      BY <2>3, <2>6, <3>1
    <3>2. CASE k \in 1 .. n
      BY <1>1, <1>2, <2>6, <3>2 DEF Started
    <3> QED BY <2>7, <3>1, <3>2
  <2>11. FirstOnly'
    <3> SUFFICES ASSUME NEW k \in 1 .. n + 1, ts[k].type = "CT_DIRECTIVE", NEW j \in 1 .. k - 1
                 PROVE  ts[j].length = 0
      BY <2>6 DEF FirstOnly
    <3>1. k \in 1 .. n
      BY <2>3, <2>6, <2>7
    <3>2. j \in 1 .. n
      BY <3>1
    <3> QED BY <1>2, <2>6, <3>1, <3>2 DEF FirstOnly
  <2>12. Stored'
    <3> SUFFICES ASSUME NEW k \in 1 .. n + 1, ts[k].type # "END" PROVE Right(input, ts, k)
      BY <1>1, <2>6 DEF Stored
    <3>1. k \in 1 .. n
      BY <2>3, <2>6, <2>7
    <3> QED BY <1>2, <2>6, <3>1 DEF Stored
  <2>13. Skipping'
    BY <1>5 DEF Skipping, Running
  <2> QED BY <2>8, <2>9, <2>10, <2>11, <2>12, <2>13 DEF IInv
<1> QED BY <1>4, <1>5 DEF End
-----------------------------------------------------------------------------
LEMMA InitHolds == Init => IInv
<1> SUFFICES ASSUME Init PROVE IInv
  OBVIOUS
<1>1. /\ input \in Inputs /\ pos = 1 /\ line = 1 /\ at_line_start = TRUE /\ depth = 0
      /\ has_newline = FALSE /\ pending = FALSE /\ tokens = << >> /\ cap = InitialCap
      /\ pc \in {"shebang", "skip"}
      /\ pc = "shebang" => Len(input) > 2 /\ input[1] = "#" /\ input[2] = "!"
  BY DEF Init
<1>2. input \in Texts /\ Len(input) \in Nat /\ InitialCap \in Nat /\ InitialCap >= 1
  <2>1. input \in Texts
    BY <1>1, LexerAssumption DEF Texts
  <2>2. Len(input) \in Nat
    BY <2>1, LenProperties DEF Texts
  <2>3. InitialCap \in Nat /\ InitialCap >= 1
    <3>1. InitialCap \in Nat \ {0}
      BY LexerAssumption, Zenon
    <3> QED BY <3>1
  <2> QED BY <2>1, <2>2, <2>3
<1>3. Len(tokens) = 0 /\ \A S : tokens \in Seq(S)
  BY <1>1, EmptySeq
<1>4. buffer \in {0, cap} /\ buffer \in Nat /\ room \in Nat
  <2>1. ArenaTokens \in Nat
    BY LexerAssumption
  <2> QED BY <1>1, <1>2, <2>1 DEF Init
<1>5. Typed
  <2>1. pc \in Phases
    BY <1>1 DEF Phases
  <2>2. tokens \in Seq([type : TokenTypes, start : 0 .. Len(input) + 1,
                        length : 0 .. Len(input), line : 0 .. Len(input) + 1])
    BY <1>3
  <2>3. pos \in 1 .. Len(input) + 1 /\ line \in 1 .. Len(input) + 1 /\ line <= pos
    BY <1>1, <1>2
  <2>4. {at_line_start, has_newline, pending} \subseteq BOOLEAN
    BY <1>1
  <2> QED BY <1>1, <1>2, <1>4, <2>1, <2>2, <2>3, <2>4 DEF Typed, TypeOK
<1>6. Filled
  BY <1>1, <1>3, <1>4 DEF Filled
<1>7. Started /\ FirstOnly /\ Stored
  BY <1>3 DEF Started, FirstOnly, Stored
<1>8. Here(input, tokens, 1, FALSE, 1)
  <2>1. Behind(tokens, Len(tokens) + 1) = 1
    BY <1>3 DEF Behind
  <2>2. \A k : k \notin 1 .. 1 - 1
    OBVIOUS
  <2>3. Skipped(input, 1, 1) /\ Told(input, 1, 1, FALSE)
    BY <2>2 DEF Skipped, Told, Spans
  <2>4. Counted(input, tokens, Len(tokens) + 1, 1) = {}
    BY <2>2 DEF Counted
  <2>5. 1 = 1 + Cardinality(Counted(input, tokens, Len(tokens) + 1, 1))
    BY <2>4, FS_EmptySet
  <2>6. \A k \in 1 .. Len(tokens) : tokens[k].start + tokens[k].length <= 1
    BY <1>3
  <2>7. /\ Behind(tokens, Len(tokens) + 1) <= 1
        /\ Skipped(input, Behind(tokens, Len(tokens) + 1), 1)
        /\ Told(input, Behind(tokens, Len(tokens) + 1), 1, FALSE)
    <3>1. 1 <= 1
      OBVIOUS
    <3> QED BY <2>1, <2>3, <3>1, Zenon
  <2> QED BY <2>5, <2>6, <2>7 DEF Here
<1>9. pc = "shebang" => Begin(input, 1, "#", "!")
  <2>1. pc = "shebang" => At(input, 1) = "#" /\ At(input, 1 + 1) = "!"
    BY <1>1, <1>2 DEF At
  <2> QED BY <2>1 DEF Begin
<1>10. Flag = FALSE
  BY <1>1 DEF Flag
<1>11. Skipping
  BY <1>1, <1>8, <1>9, <1>10 DEF Skipping
<1> QED BY <1>5, <1>6, <1>7, <1>11 DEF IInv

LEMMA StepHolds == IInv /\ [Next]_vars => IInv'
<1> SUFFICES ASSUME IInv, [Next]_vars PROVE IInv'
  OBVIOUS
<1>1. CASE Shebang
  BY <1>1, ShebangStep
<1>2. CASE SkipSpace
  BY <1>2, SkipSpaceStep
<1>3. CASE LineComment
  BY <1>3, LineCommentStep
<1>4. CASE BlockComment
  BY <1>4, BlockCommentStep
<1>5. CASE InComment
  BY <1>5, InCommentStep
<1>6. CASE CommentEnds
  BY <1>6, CommentEndsStep
<1>7. CASE CommentNewline
  BY <1>7, CommentNewlineStep
<1>8. CASE Newline
  BY <1>8, NewlineStep
<1>9. CASE OtherToken
  BY <1>9, OtherTokenStep
<1>10. CASE End
  BY <1>10, EndStep
<1>11. CASE UNCHANGED vars
  BY <1>11 DEF vars, IInv, Typed, TypeOK, Filled, Started, FirstOnly, Stored, Skipping,
               Running, Flag
<1> QED BY <1>1, <1>2, <1>3, <1>4, <1>5, <1>6, <1>7, <1>8, <1>9, <1>10, <1>11 DEF Next

\* Everything the lexer's state relates: its place, the tokens stored, the lines
\* counted, what was skipped since the last token, and the buffer.
THEOREM Inductive == Spec => []IInv
BY InitHolds, StepHolds, PTL DEF Spec

\* Positions, lines and lengths stay within the file, whatever is in it.
THEOREM TypeCorrect == Spec => []TypeOK
<1>1. IInv => TypeOK
  BY DEF IInv, Typed
<1> QED BY <1>1, Inductive, PTL

\* Only the END token is ever written behind the buffer's last place.
THEOREM OthersInBuffer == Spec => []OnlyEndPastBuffer
<1>1. IInv => OnlyEndPastBuffer
  <2> SUFFICES ASSUME IInv PROVE OnlyEndPastBuffer
    OBVIOUS
  <2>1. buffer \in Nat /\ Len(tokens) \in Nat /\ pc \in Phases
    BY TypedIs, LenProperties DEF IInv
  <2>2. Running => Len(tokens) <= buffer
    BY DEF IInv, Filled
  <2>3. pc = "done" => Len(tokens) <= buffer + 1 /\ tokens[Len(tokens)].type = "END"
    BY DEF IInv, Filled
  <2>4. Running \/ pc = "done" \/ pc = "crashed"
    BY <2>1 DEF Phases, Running
  <2>5. CASE Running
    <3>1. pc # "crashed" /\ Len(tokens) <= buffer + 1 /\ Len(tokens) # buffer + 1
      BY <2>1, <2>2, <2>5 DEF Running
    <3> QED BY <3>1 DEF OnlyEndPastBuffer
  <2>6. CASE pc = "done" \/ pc = "crashed"
    BY <2>3, <2>6 DEF OnlyEndPastBuffer
  <2> QED BY <2>4, <2>5, <2>6
<1> QED BY <1>1, Inductive, PTL

\* A directive is the first text of the file, or no directive.
THEOREM OneDirective == Spec => []DirectiveOnlyFirst
<1>1. IInv => DirectiveOnlyFirst
  <2> SUFFICES ASSUME IInv PROVE DirectiveOnlyFirst
    OBVIOUS
  <2>1. DOMAIN tokens = 1 .. Len(tokens)
    BY TypedIs, LenProperties DEF IInv
  <2> QED BY <2>1 DEF IInv, FirstOnly, DirectiveOnlyFirst
<1> QED BY <1>1, Inductive, PTL

\* What is known of a token with text, in the words of the properties.
LEMMA TextTokenIs ==
    ASSUME IInv, NEW k \in TextTokens
    PROVE  /\ k \in 1 .. Len(tokens) /\ Right(input, tokens, k)
           /\ Gap(k) = Behind(tokens, k) .. tokens[k].start - 1
           /\ \A i : i \in CommentOpens(k) <=> Opening(input, Behind(tokens, k), tokens[k].start, i)
<1>1. DOMAIN tokens = 1 .. Len(tokens)
  BY TypedIs, LenProperties DEF IInv
<1>2. k \in 1 .. Len(tokens) /\ Right(input, tokens, k)
  BY <1>1 DEF TextTokens, IInv, Stored
<1>3. Gap(k) = Behind(tokens, k) .. tokens[k].start - 1
  BY DEF Gap, Behind, EndOf
<1>4. \A i : i \in CommentOpens(k) <=> Opening(input, Behind(tokens, k), tokens[k].start, i)
  BY <1>3, BeginsIs DEF CommentOpens, Opening
<1> QED BY <1>2, <1>3, <1>4

\* A token's line is the number of newlines before it, in and outside of comments
\* but not in strings, and one more.
THEOREM LinesRight == Spec => []LinesCounted
<1>1. IInv => LinesCounted
  <2> SUFFICES ASSUME IInv, NEW k \in TextTokens
               PROVE  LET inStrings == UNION {tokens[j].start .. EndOf(j) - 1 :
                                          j \in {i \in 1 .. k - 1 : tokens[i].type = "STRING"}}
                          before == NewlinesIn((1 .. tokens[k].start - 1) \ inStrings)
                      IN  tokens[k].line = 1 + Cardinality(before)
    BY DEF LinesCounted
  <2>1. tokens[k].line = 1 + Cardinality(Counted(input, tokens, k, tokens[k].start))
    BY TextTokenIs DEF Right
  <2>2. UNION {tokens[j].start .. EndOf(j) - 1 :
                  j \in {i \in 1 .. k - 1 : tokens[i].type = "STRING"}} = InStrings(tokens, k)
    BY DEF InStrings, EndOf
  <2>3. NewlinesIn((1 .. tokens[k].start - 1) \ InStrings(tokens, k))
          = Counted(input, tokens, k, tokens[k].start)
    BY DEF NewlinesIn, Counted
  <2> QED BY <2>1, <2>2, <2>3
<1> QED BY <1>1, Inductive, PTL

\* A comment that spans lines ends the statement before it, as a newline does, and
\* nothing else yields a NEWLINE token without text.
THEOREM CommentsEndStatements == Spec => []NewlineFromComment
<1>1. IInv => NewlineFromComment
  <2> SUFFICES ASSUME IInv, NEW k \in TextTokens
               PROVE  LET spans == NewlinesIn(Gap(k)) # {}
                          isNewline == tokens[k].type = "NEWLINE" /\ tokens[k].length = 0
                      IN  /\ isNewline => spans
                          /\ (spans /\ \A i, j \in CommentOpens(k) : i = j) => isNewline
    BY DEF NewlineFromComment
  <2>1. PICK p, q : p = Behind(tokens, k) /\ q = tokens[k].start
    OBVIOUS
  <2>2. /\ Told(input, p, q, IsNewline(tokens[k])) /\ Gap(k) = p .. q - 1
        /\ \A i : i \in CommentOpens(k) <=> Opening(input, p, q, i)
    BY <2>1, TextTokenIs DEF Right
  <2>3. NewlinesIn(Gap(k)) # {} <=> Spans(input, p, q)
    BY <2>2 DEF NewlinesIn, Spans
  <2>4. (\A i, j \in CommentOpens(k) : i = j) => Single(input, p, q)
    BY <2>2 DEF Single
  <2> QED BY <2>2, <2>3, <2>4 DEF Told, IsNewline
<1> QED BY <1>1, Inductive, PTL
-----------------------------------------------------------------------------
(* What a number token is worth.                                             *)

\* Values in V are computed step by step from n to m.
Steps(V, start, n, m, step) ==
    /\ start \in V /\ n \in Nat /\ m \in Nat /\ n <= m
    /\ \A i \in n + 1 .. m : \A v \in V : step[i][v] \in V

Stepwise(V, start, n, m, step, f) ==
    /\ f \in [n .. m -> V]
    /\ \A i \in n .. m : f[i] = IF i = n THEN start ELSE step[i][f[i - 1]]

\* They exist, whatever the steps are: what a recursive function is by definition.
LEMMA StepsExist ==
    ASSUME NEW V, NEW start, NEW n, NEW m, NEW step, Steps(V, start, n, m, step)
    PROVE  \E f : Stepwise(V, start, n, m, step, f)
<1> USE DEF Stepwise
<1>0. /\ start \in V /\ n \in Nat /\ m \in Nat /\ n <= m
      /\ \A i \in n + 1 .. m : \A v \in V : step[i][v] \in V
  BY DEF Steps
<1> USE <1>0
<1> DEFINE Upto(k) == \E f \in [n .. k -> V] :
              \A i \in n .. k : f[i] = IF i = n THEN start ELSE step[i][f[i - 1]]
           T == {k \in n .. m : ~Upto(k)}
<1>1. SUFFICES ASSUME T # {} PROVE FALSE
  <2>1. m \in n .. m
    OBVIOUS
  <2>2. Upto(m)
    BY <1>1, <2>1
  <2> QED BY <2>2
<1>2. PICK k \in T : \A j \in T : k <= j
  <2>1. T \in SUBSET Nat
    OBVIOUS
  <2> HIDE DEF T
  <2> QED BY <1>1, <2>1, LeastNat
<1>3. k \in n .. m /\ ~Upto(k) /\ k \in Nat
  OBVIOUS
<1>4. CASE k = n
  <2>1. PICK f : f = [i \in n .. k |-> start]
    OBVIOUS
  <2>2. f \in [n .. k -> V] /\ \A i \in n .. k : i = n /\ f[i] = start
    BY <1>4, <2>1
  <2> QED BY <1>3, <2>2
<1>5. CASE k # n
  <2>1. k - 1 \in n .. m /\ k - 1 < k
    BY <1>3, <1>5
  <2>2. Upto(k - 1)
    <3>1. k - 1 \notin T
      BY <1>2, <1>3
    <3> QED BY <2>1, <3>1
  <2>3. PICK f \in [n .. k - 1 -> V] :
            \A i \in n .. k - 1 : f[i] = IF i = n THEN start ELSE step[i][f[i - 1]]
    BY <2>2
  <2>4. PICK last \in V : last = step[k][f[k - 1]]
    <3>1. f[k - 1] \in V
      BY <2>1
    <3>2. k \in n + 1 .. m
      BY <1>3, <1>5
    <3> QED BY <3>1, <3>2
  <2>5. PICK g : g = [i \in n .. k |-> IF i = k THEN last ELSE f[i]]
    OBVIOUS
  <2>6. ASSUME NEW i \in n .. k
        PROVE  g[i] \in V /\ g[i] = IF i = n THEN start ELSE step[i][g[i - 1]]
    <3>1. CASE i = k
      <4>1. k - 1 \in n .. k /\ k - 1 # k
        BY <2>1
      <4>2. g[k] = last /\ g[k - 1] = f[k - 1]
        BY <2>5, <3>1, <4>1
      <4> QED BY <1>5, <2>4, <3>1, <4>2
    <3>2. CASE i # k
      <4>1. i \in n .. k - 1 /\ (i # n => i - 1 \in n .. k /\ i - 1 # k)
        BY <1>3, <3>2
      <4>2. g[i] = f[i] /\ (i # n => g[i - 1] = f[i - 1])
        BY <2>5, <3>2, <4>1
      <4> QED BY <2>3, <4>1, <4>2
    <3> QED BY <3>1, <3>2
  <2>7. g \in [n .. k -> V]
    BY <2>5, <2>6
  <2> QED BY <1>3, <2>6, <2>7
<1> QED BY <1>4, <1>5

LEMMA DigitIs ==
    ASSUME NEW base \in {10, 16}, NEW c \in DigitsOf(base)
    PROVE  DigitValue[c] \in 0 .. base - 1 /\ DigitValue[c] \in Nat /\ base \in Nat
<1>1. DigitValue[c] \in 0 .. 15 /\ DigitValue[c] < base
  BY NumbersAssumption DEF DigitsOf
<1> QED BY <1>1

\* A round refuses what would be greater than the greatest number, and computes the
\* rest.
LEMMA AddDigitIs ==
    ASSUME NEW base \in {10, 16}, NEW c \in DigitsOf(base), NEW result \in Int
    PROVE  /\ AddDigit(result, base, c) \in Int
           /\ AddDigit(Refused, base, c) = Refused
           /\ result >= 0 =>
                 AddDigit(result, base, c) =
                    IF result * base + DigitValue[c] > IntMax THEN Refused
                    ELSE result * base + DigitValue[c]
<1>1. PICK d \in Nat : d = DigitValue[c]
  BY DigitIs
<1>2. d <= 15 /\ IntMax \in Nat /\ IntMax >= 15 /\ Refused = -1
  BY <1>1, DigitIs, NumbersAssumption DEF Refused
<1>3. AddDigit(result, base, c) =
         IF result = Refused THEN Refused
         ELSE IF result > (IntMax - d) \div base THEN Refused ELSE result * base + d
  BY <1>1 DEF AddDigit
<1>4. (result > (IntMax - d) \div base) <=> (result * base + d > IntMax)
  <2>1. CASE base = 10
    BY <1>2, <2>1
  <2>2. CASE base = 16
    BY <1>2, <2>2
  <2> QED BY <2>1, <2>2
<1>5. AddDigit(result, base, c) \in Int
  BY <1>2, <1>3
<1>6. AddDigit(Refused, base, c) = Refused
  BY DEF AddDigit
<1>7. ASSUME result >= 0
      PROVE  AddDigit(result, base, c) = IF result * base + d > IntMax THEN Refused
                                         ELSE result * base + d
  BY <1>2, <1>3, <1>4, <1>7
<1> QED BY <1>1, <1>5, <1>6, <1>7

\* The characters of s behind the first n are digits.
Numeric(s, n, base) ==
    /\ Len(s) \in Nat /\ n \in 0 .. Len(s) /\ base \in {10, 16}
    /\ \A i \in n + 1 .. Len(s) : s[i] \in DigitsOf(base)

\* What Accumulate computes, round by round.
Rounds(s, n, base, R) ==
    /\ R[n] = 0 /\ Accumulate(s, n, base) = R[Len(s)]
    /\ \A i \in n + 1 .. Len(s) : R[i] = AddDigit(R[i - 1], base, s[i])

LEMMA AccumulateIs ==
    ASSUME NEW s, NEW n, NEW base, Numeric(s, n, base)
    PROVE  \E R : Rounds(s, n, base, R)
<1>1. PICK m \in Nat : m = Len(s)
  BY DEF Numeric
<1>2. n \in Nat /\ n <= m /\ base \in {10, 16} /\ \A i \in n + 1 .. m : s[i] \in DigitsOf(base)
  BY <1>1 DEF Numeric
<1>3. PICK step : step = [i \in n + 1 .. m |-> [v \in Int |-> AddDigit(v, base, s[i])]]
  OBVIOUS
<1>4. \A i \in n + 1 .. m : \A v \in Int :
          step[i][v] = AddDigit(v, base, s[i]) /\ step[i][v] \in Int
  BY <1>2, <1>3, AddDigitIs
<1>5. \E f \in [n .. m -> Int] :
          \A i \in n .. m : f[i] = IF i = n THEN 0 ELSE step[i][f[i - 1]]
  <2>1. Steps(Int, 0, n, m, step)
    BY <1>1, <1>2, <1>4 DEF Steps
  <2>2. PICK f : Stepwise(Int, 0, n, m, step, f)
    BY <2>1, StepsExist
  <2> QED BY <2>2 DEF Stepwise
<1>6. PICK f \in [n .. m -> Int] :
          \A i \in n .. m : f[i] = IF i = n THEN 0 ELSE step[i][f[i - 1]]
  BY <1>5
<1>7. \A i \in n .. m : f[i] = IF i = n THEN 0 ELSE AddDigit(f[i - 1], base, s[i])
  <2> SUFFICES ASSUME NEW i \in n .. m, i # n PROVE f[i] = AddDigit(f[i - 1], base, s[i])
    BY <1>6
  <2>1. i \in n + 1 .. m /\ i - 1 \in n .. m
    BY <1>1, <1>2
  <2>2. f[i - 1] \in Int
    BY <2>1
  <2> QED BY <1>4, <1>6, <2>1, <2>2
<1>8. f = [i \in n .. m |-> IF i = n THEN 0 ELSE AddDigit(f[i - 1], base, s[i])]
  BY <1>7
<1> DEFINE Round(g) == [i \in n .. m |-> IF i = n THEN 0 ELSE AddDigit(g[i - 1], base, s[i])]
<1>9. PICK R : R = CHOOSE g : g = Round(g)
  OBVIOUS
<1>10. Accumulate(s, n, base) = R[m]
  BY <1>1, <1>9 DEF Accumulate
<1>11. R = Round(R)
  <2>1. f = Round(f)
    BY <1>8
  <2> HIDE DEF Round
  <2> QED BY <1>9, <2>1, Zenon
<1>12. R[n] = 0 /\ \A i \in n + 1 .. m : R[i] = AddDigit(R[i - 1], base, s[i])
  <2>1. n \in n .. m /\ \A i \in n + 1 .. m : i \in n .. m /\ i # n
    BY <1>1, <1>2
  <2> QED BY <1>11, <2>1
<1>13. Rounds(s, n, base, R)
  BY <1>1, <1>10, <1>12 DEF Rounds
<1> QED BY <1>13

\* The powers and the sums that PlaceValue computes.
Sums(s, n, base, P, S) ==
    /\ P[0] = 1 /\ \A i \in 1 .. Len(s) : P[i] = base * P[i - 1]
    /\ S[n] = 0 /\ PlaceValue(s, n, base) = S[Len(s)]
    /\ \A i \in n + 1 .. Len(s) : S[i] = S[i - 1] + DigitValue[s[i]] * P[Len(s) - i]
    /\ \A i \in 0 .. Len(s) : P[i] \in Int

LEMMA PlaceValueIs ==
    ASSUME NEW s, NEW n, NEW base, Numeric(s, n, base)
    PROVE  \E P, S : Sums(s, n, base, P, S)
<1>1. PICK m \in Nat : m = Len(s)
  BY DEF Numeric
<1>2. n \in Nat /\ n <= m /\ base \in Int /\ \A i \in n + 1 .. m : s[i] \in DigitsOf(base)
  BY <1>1 DEF Numeric
<1>3. \A i \in n + 1 .. m : DigitValue[s[i]] \in Nat
  BY <1>1, <1>2, DigitIs DEF Numeric
<1> DEFINE Power(g) == [i \in 0 .. m |-> IF i = 0 THEN 1 ELSE base * g[i - 1]]
<1>4. PICK P : P = CHOOSE g : g = Power(g)
  OBVIOUS
<1>5. PICK e : e = Power(e) /\ e \in [0 .. m -> Int]
  <2>1. PICK step : step = [i \in 1 .. m |-> [v \in Int |-> base * v]]
    OBVIOUS
  <2>2. \A i \in 1 .. m : \A v \in Int : step[i][v] = base * v /\ step[i][v] \in Int
    BY <1>2, <2>1
  <2>3. Steps(Int, 1, 0, m, step)
    BY <1>1, <2>2 DEF Steps
  <2>4. PICK f : Stepwise(Int, 1, 0, m, step, f)
    BY <2>3, StepsExist
  <2>5. f \in [0 .. m -> Int] /\ \A i \in 0 .. m : f[i] = IF i = 0 THEN 1 ELSE step[i][f[i - 1]]
    BY <2>4 DEF Stepwise
  <2>6. \A i \in 0 .. m : f[i] = IF i = 0 THEN 1 ELSE base * f[i - 1]
    <3> SUFFICES ASSUME NEW i \in 0 .. m, i # 0 PROVE f[i] = base * f[i - 1]
      BY <2>5
    <3>1. i \in 1 .. m /\ i - 1 \in 0 .. m
      BY <1>1
    <3>2. f[i - 1] \in Int
      BY <2>5, <3>1
    <3> QED BY <2>2, <2>5, <3>1, <3>2
  <2>7. f = Power(f)
    BY <2>5, <2>6
  <2> QED BY <2>5, <2>7
<1>6. P = Power(P)
  <2> HIDE DEF Power
  <2> QED BY <1>4, <1>5, Zenon
<1>7. P[0] = 1 /\ \A i \in 1 .. m : P[i] = base * P[i - 1]
  <2>1. 0 \in 0 .. m /\ \A i \in 1 .. m : i \in 0 .. m /\ i # 0
    BY <1>1
  <2> QED BY <1>6, <2>1
<1>8. \A i \in 0 .. m : P[i] \in Int
  <2> DEFINE T == {i \in 0 .. m : P[i] \notin Int}
  <2> SUFFICES ASSUME T # {} PROVE FALSE
    OBVIOUS
  <2>1. PICK i \in T : \A j \in T : i <= j
    <3>1. T \in SUBSET Nat
      BY <1>1
    <3> HIDE DEF T
    <3> QED BY <3>1, LeastNat
  <2>2. i # 0
    BY <1>7
  <2>3. i \in 1 .. m /\ i - 1 \in 0 .. m /\ i - 1 < i
    BY <1>1, <2>2
  <2>4. P[i - 1] \in Int
    <3>1. i - 1 \notin T
      BY <2>1, <2>3
    <3> QED BY <2>3, <3>1
  <2>5. P[i] = base * P[i - 1]
    BY <1>7, <2>3
  <2>6. P[i] \in Int
    BY <1>2, <2>4, <2>5
  <2> QED BY <2>6
<1> DEFINE Sum(g) ==
      [i \in n .. m |-> IF i = n THEN 0 ELSE g[i - 1] + DigitValue[s[i]] * P[m - i]]
<1>9. PICK S : S = CHOOSE g : g = Sum(g)
  OBVIOUS
<1>10. PICK f : f = Sum(f)
  <2>1. PICK step : step = [i \in n + 1 .. m |-> [v \in Int |-> v + DigitValue[s[i]] * P[m - i]]]
    OBVIOUS
  <2>2. ASSUME NEW i \in n + 1 .. m, NEW v \in Int
        PROVE  step[i][v] = v + DigitValue[s[i]] * P[m - i] /\ step[i][v] \in Int
    <3>1. m - i \in 0 .. m
      BY <1>1, <1>2
    <3>2. P[m - i] \in Int /\ DigitValue[s[i]] \in Int
      BY <1>3, <1>8, <3>1
    <3>3. step[i][v] = v + DigitValue[s[i]] * P[m - i]
      BY <2>1
    <3>4. v + DigitValue[s[i]] * P[m - i] \in Int
      BY <3>2
    <3> QED BY <3>3, <3>4
  <2>3. Steps(Int, 0, n, m, step)
    BY <1>1, <1>2, <2>2 DEF Steps
  <2>4. PICK f : Stepwise(Int, 0, n, m, step, f)
    BY <2>3, StepsExist
  <2>5. f \in [n .. m -> Int] /\ \A i \in n .. m : f[i] = IF i = n THEN 0 ELSE step[i][f[i - 1]]
    BY <2>4 DEF Stepwise
  <2>6. \A i \in n .. m : f[i] = IF i = n THEN 0 ELSE f[i - 1] + DigitValue[s[i]] * P[m - i]
    <3> SUFFICES ASSUME NEW i \in n .. m, i # n
                 PROVE  f[i] = f[i - 1] + DigitValue[s[i]] * P[m - i]
      BY <2>5
    <3>1. i \in n + 1 .. m /\ i - 1 \in n .. m
      BY <1>1, <1>2
    <3>2. f[i - 1] \in Int
      BY <2>5, <3>1
    <3>3. f[i] = step[i][f[i - 1]]
      BY <2>5
    <3> QED BY <2>2, <3>1, <3>2, <3>3
  <2>7. f = Sum(f)
    BY <2>5, <2>6
  <2> QED BY <2>7
<1>11. S = Sum(S)
  <2> HIDE DEF Sum
  <2> QED BY <1>9, <1>10, Zenon
<1>12. S[n] = 0 /\ \A i \in n + 1 .. m : S[i] = S[i - 1] + DigitValue[s[i]] * P[m - i]
  <2>1. n \in n .. m /\ \A i \in n + 1 .. m : i \in n .. m /\ i # n
    BY <1>1, <1>2
  <2> QED BY <1>11, <2>1
<1>13. PlaceValue(s, n, base) = S[m]
  BY <1>1, <1>4, <1>9 DEF PlaceValue
<1>14. Sums(s, n, base, P, S)
  BY <1>1, <1>7, <1>8, <1>12, <1>13 DEF Sums
<1> QED BY <1>14

\* The value so far, put to its place: with a digit more, or as a number too great.
LEMMA PlaceMore ==
    ASSUME NEW r \in Nat, NEW d \in Nat, NEW p \in Nat, p >= 1, NEW base \in {10, 16}
    PROVE  /\ (r * base + d) * p = r * (base * p) + d * p
           /\ (r * base + d) * p >= r * base + d
           /\ d * p \in Nat /\ r * base + d \in Nat
<1>1. PICK x \in Nat : x = r * base + d
  <2>1. CASE base = 10
    BY <2>1
  <2>2. CASE base = 16
    BY <2>2
  <2> QED BY <2>1, <2>2
<1>2. \A a, b \in Nat : a * b \in Nat
  OBVIOUS
<1>3. x * p >= x
  <2>1. PICK q \in Nat : p = q + 1
    <3>1. p - 1 \in Nat /\ p = (p - 1) + 1
      OBVIOUS
    <3> QED BY <3>1
  <2>2. x * p = x * q + x
    BY <1>1, <2>1
  <2>3. x * q \in Nat
    BY <1>2
  <2> QED BY <2>2, <2>3
<1>4. x * p = r * (base * p) + d * p
  <2>1. CASE base = 10
    <3>1. x = r * 10 + d
      BY <1>1, <2>1
    <3>2. x * p = (r * 10) * p + d * p
      BY <3>1
    <3>3. (r * 10) * p = r * (10 * p)
      OBVIOUS
    <3> QED BY <2>1, <3>2, <3>3
  <2>2. CASE base = 16
    <3>1. x = r * 16 + d
      BY <1>1, <2>2
    <3>2. x * p = (r * 16) * p + d * p
      BY <3>1
    <3>3. (r * 16) * p = r * (16 * p)
      OBVIOUS
    <3> QED BY <2>2, <3>2, <3>3
  <2> QED BY <2>1, <2>2
<1> QED BY <1>1, <1>2, <1>3, <1>4

\* The value after a round: r is what was read, p the power for its last digit, and
\* sum what that makes of the whole number.
Keeps(r, p, sum) ==
    /\ sum \in Nat
    /\ r = Refused => sum > IntMax
    /\ r # Refused => r \in 0 .. IntMax /\ r * p = sum

LEMMA RoundKeeps ==
    ASSUME NEW base \in {10, 16}, NEW c \in DigitsOf(base), NEW p \in Nat, p >= 1,
           NEW r, NEW sum, Keeps(r, base * p, sum)
    PROVE  Keeps(AddDigit(r, base, c), p, sum + DigitValue[c] * p)
<1>1. PICK d \in Nat : d = DigitValue[c]
  BY DigitIs
<1>2. sum \in Nat /\ IntMax \in Nat /\ Refused = -1
  BY NumbersAssumption DEF Keeps, Refused
<1>3. CASE r = Refused
  <2>1. AddDigit(r, base, c) = Refused
    BY <1>3, AddDigitIs, <1>2
  <2>2. sum > IntMax
    BY <1>3 DEF Keeps
  <2>3. d * p \in Nat
    OBVIOUS
  <2>4. sum + d * p \in Nat /\ sum + d * p > IntMax
    BY <1>2, <2>2, <2>3
  <2> QED BY <1>1, <2>1, <2>4 DEF Keeps
<1>4. CASE r # Refused
  <2>1. r \in 0 .. IntMax /\ r \in Nat /\ r * (base * p) = sum
    BY <1>2, <1>4 DEF Keeps
  <2>2. /\ (r * base + d) * p = r * (base * p) + d * p
        /\ (r * base + d) * p >= r * base + d
        /\ d * p \in Nat /\ r * base + d \in Nat
    BY <2>1, PlaceMore
  <2>3. PICK x \in Nat : x = r * base + d
    BY <2>2
  <2>4. x * p = sum + d * p /\ x * p >= x /\ sum + d * p \in Nat
    BY <1>2, <2>1, <2>2, <2>3
  <2>5. AddDigit(r, base, c) = IF x > IntMax THEN Refused ELSE x
    <3>1. r \in Int /\ r >= 0
      BY <2>1
    <3> QED BY <1>1, <2>3, <3>1, AddDigitIs
  <2>6. CASE x > IntMax
    <3>1. sum + d * p > IntMax
      BY <1>2, <2>4, <2>6
    <3> QED BY <1>1, <2>4, <2>5, <2>6, <3>1 DEF Keeps
  <2>7. CASE ~(x > IntMax)
    <3>1. x \in 0 .. IntMax /\ x # Refused
      BY <1>2, <2>7
    <3> QED BY <1>1, <2>4, <2>5, <2>7, <3>1 DEF Keeps
  <2> QED BY <2>6, <2>7
<1> QED BY <1>3, <1>4

\* Digit by digit, a number is converted to what its digits are worth, and refused
\* just when that is too great; no round leaves the range in between.
LEMMA ValueIs ==
    ASSUME NEW s, NEW n, NEW base, Numeric(s, n, base)
    PROVE  /\ PlaceValue(s, n, base) \in Nat
           /\ Accumulate(s, n, base) =
                 IF PlaceValue(s, n, base) <= IntMax THEN PlaceValue(s, n, base) ELSE Refused
<1>1. PICK m \in Nat : m = Len(s)
  BY DEF Numeric
<1>2. n \in Nat /\ n <= m /\ base \in {10, 16} /\ \A i \in n + 1 .. m : s[i] \in DigitsOf(base)
  BY <1>1 DEF Numeric
<1>3. PICK R : Rounds(s, n, base, R)
  BY AccumulateIs
<1>4. /\ R[n] = 0 /\ Accumulate(s, n, base) = R[m]
      /\ \A i \in n + 1 .. m : R[i] = AddDigit(R[i - 1], base, s[i])
  BY <1>1, <1>3 DEF Rounds
<1>5. PICK P, S : Sums(s, n, base, P, S)
  BY PlaceValueIs
<1>6. /\ P[0] = 1 /\ \A i \in 1 .. m : P[i] = base * P[i - 1]
      /\ S[n] = 0 /\ PlaceValue(s, n, base) = S[m]
      /\ \A i \in n + 1 .. m : S[i] = S[i - 1] + DigitValue[s[i]] * P[m - i]
      /\ \A i \in 0 .. m : P[i] \in Int
  BY <1>1, <1>5 DEF Sums
<1>7. \A i \in 0 .. m : P[i] \in Nat /\ P[i] >= 1
  <2> DEFINE T == {i \in 0 .. m : ~(P[i] \in Nat /\ P[i] >= 1)}
  <2> SUFFICES ASSUME T # {} PROVE FALSE
    OBVIOUS
  <2>1. PICK i \in T : \A j \in T : i <= j
    <3>1. T \in SUBSET Nat
      BY <1>1
    <3> HIDE DEF T
    <3> QED BY <3>1, LeastNat
  <2>2. i # 0
    BY <1>6
  <2>3. i \in 1 .. m /\ i - 1 \in 0 .. m /\ i - 1 < i
    BY <1>1, <2>2
  <2>4. PICK p \in Nat : p = P[i - 1] /\ p >= 1
    <3>1. i - 1 \notin T
      BY <2>1, <2>3
    <3> QED BY <2>3, <3>1
  <2>5. P[i] = base * p
    BY <1>6, <2>3, <2>4
  <2>6. P[i] \in Nat /\ P[i] >= 1
    BY <1>2, <2>4, <2>5
  <2> QED BY <2>6
<1>8. \A i \in n .. m : Keeps(R[i], P[m - i], S[i])
  <2> DEFINE T == {i \in n .. m : ~Keeps(R[i], P[m - i], S[i])}
  <2> SUFFICES ASSUME T # {} PROVE FALSE
    OBVIOUS
  <2>1. PICK i \in T : \A j \in T : i <= j
    <3>1. T \in SUBSET Nat
      BY <1>1, <1>2
    <3> HIDE DEF T
    <3> QED BY <3>1, LeastNat
  <2>2. i # n
    <3>1. Keeps(0, P[m - n], 0)
      <4>1. m - n \in 0 .. m
        BY <1>1, <1>2
      <4>2. PICK p \in Nat : p = P[m - n]
        BY <1>7, <4>1
      <4>3. Refused = -1 /\ IntMax \in Nat /\ 0 * p = 0
        BY NumbersAssumption DEF Refused
      <4> QED BY <4>2, <4>3 DEF Keeps
    <3> QED BY <1>4, <1>6, <3>1
  <2>3. i \in n + 1 .. m /\ i - 1 \in n .. m /\ i - 1 < i
    BY <1>1, <1>2, <2>2
  <2>4. Keeps(R[i - 1], P[m - (i - 1)], S[i - 1])
    <3>1. i - 1 \notin T
      BY <2>1, <2>3
    <3> QED BY <2>3, <3>1
  <2>5. P[m - (i - 1)] = base * P[m - i] /\ P[m - i] \in Nat /\ P[m - i] >= 1
    <3>0. /\ i \in Int /\ 1 <= i /\ i <= m /\ m \in Int
          /\ m - (i - 1) \in 1 .. m /\ (m - (i - 1)) - 1 = m - i
      BY <1>1, <1>2, <2>3
    <3>1. PICK j \in 1 .. m : j = m - (i - 1) /\ j - 1 = m - i
      BY <3>0
    <3>2. j - 1 \in 0 .. m
      BY <1>1
    <3> QED BY <1>6, <1>7, <3>1, <3>2
  <2>6. PICK p \in Nat : p = P[m - i] /\ p >= 1
    BY <2>5
  <2>7. Keeps(R[i - 1], base * p, S[i - 1])
    BY <2>4, <2>5, <2>6
  <2>8. s[i] \in DigitsOf(base)
    BY <1>2, <2>3
  <2>9. Keeps(AddDigit(R[i - 1], base, s[i]), p, S[i - 1] + DigitValue[s[i]] * p)
    BY <1>2, <2>6, <2>7, <2>8, RoundKeeps
  <2>10. R[i] = AddDigit(R[i - 1], base, s[i]) /\ S[i] = S[i - 1] + DigitValue[s[i]] * P[m - i]
    BY <1>4, <1>6, <2>3
  <2>11. Keeps(R[i], P[m - i], S[i])
    BY <2>6, <2>9, <2>10
  <2> QED BY <2>11
<1>9. Keeps(R[m], 1, S[m])
  <2>1. m \in n .. m /\ m - m = 0
    BY <1>1, <1>2
  <2> QED BY <1>6, <1>8, <2>1
<1>10. S[m] \in Nat /\ R[m] = IF S[m] <= IntMax THEN S[m] ELSE Refused
  <2>1. IntMax \in Nat
    BY NumbersAssumption
  <2>2. CASE R[m] = Refused
    BY <1>9, <2>1, <2>2 DEF Keeps
  <2>3. CASE R[m] # Refused
    <3>1. R[m] \in 0 .. IntMax /\ R[m] * 1 = S[m]
      BY <1>9, <2>3 DEF Keeps
    <3> QED BY <2>1, <3>1
  <2> QED BY <2>2, <2>3
<1> QED BY <1>4, <1>6, <1>10
-----------------------------------------------------------------------------
(* What number tokens consist of, and where tokens with text are.            *)

\* The characters of s from a to e - 1 are those of a number.
Numeral(s, a, e) ==
    \/ \A k \in a .. e - 1 : s[k] \in Digits
    \/ /\ s[a] = "0" /\ s[a + 1] \in {"x", "X"} /\ a + 2 < e
       /\ \A k \in a + 2 .. e - 1 : s[k] \in Digits \cup HexLetters

LEMMA ScanNumber ==
    ASSUME input \in Texts, NEW i \in 1 .. Len(input), Scan(i).type = "NUM"
    PROVE  Numeral(input, i, Scan(i).end)
<1>1. Len(input) \in Nat
  BY LenProperties DEF Texts
<1> DEFINE c == input[i]
<1>2. CASE c \in Digits
  <2>1. c # Quote /\ c # "%" /\ c \notin Letters \cup {"_"} /\ c \notin Singles \cup DOMAIN Second
    BY <1>2, Classes DEF Quote
  <2>2. Scan(i) = [type |-> IF IsHex(i) /\ NumberEnd(i) = i + 2 THEN "INVALID" ELSE "NUM",
                   end |-> NumberEnd(i)]
    BY <1>2, <2>1 DEF Scan
  <2>3. Scan(i).end = NumberEnd(i) /\ ~(IsHex(i) /\ NumberEnd(i) = i + 2)
    BY <2>2
  <2>4. Eof \notin Digits /\ Eof \notin Digits \cup HexLetters
    BY Classes
  <2>5. CASE IsHex(i)
    <3>1. i + 1 <= Len(input) /\ input[i] = "0" /\ input[i + 1] \in {"x", "X"}
      BY <1>1, <2>5 DEF IsHex, Peek, Eof
    <3>2. PICK j \in 1 .. Len(input) + 1 : j = i + 2
      BY <1>1, <3>1
    <3>3. PICK e : e = RunEnd(j, Digits \cup HexLetters)
      OBVIOUS
    <3>4. e \in j .. Len(input) + 1 /\ \A k \in j .. e - 1 : input[k] \in Digits \cup HexLetters
      BY <2>4, <3>3, RunEndIs
    <3>5. NumberEnd(i) = e /\ i + 2 < e
      <4>1. NumberEnd(i) = e
        BY <2>5, <3>2, <3>3 DEF NumberEnd
      <4> QED BY <1>1, <2>3, <2>5, <3>2, <3>4, <4>1
    <3> QED BY <2>3, <3>1, <3>2, <3>4, <3>5 DEF Numeral
  <2>6. CASE ~IsHex(i)
    <3>1. PICK j \in 1 .. Len(input) + 1 : j = i + 1
      BY <1>1
    <3>2. PICK e : e = RunEnd(j, Digits)
      OBVIOUS
    <3>3. e \in j .. Len(input) + 1 /\ \A k \in j .. e - 1 : input[k] \in Digits
      BY <2>4, <3>2, RunEndIs
    <3>4. NumberEnd(i) = e
      BY <2>6, <3>1, <3>2 DEF NumberEnd
    <3>5. \A k \in i .. e - 1 : k = i \/ k \in j .. e - 1
      BY <1>1, <3>1, <3>3
    <3>6. \A k \in i .. e - 1 : input[k] \in Digits
      BY <1>2, <3>3, <3>5
    <3> QED BY <2>3, <3>4, <3>6 DEF Numeral
  <2> QED BY <2>5, <2>6
<1>3. CASE c \notin Digits
  <2>1. Scan(i).type # "NUM"
    BY <1>3 DEF Scan
  <2> QED BY <2>1
<1> QED BY <1>2, <1>3

Sound(s, t) ==
    /\ t.type # "END" => 1 <= t.start /\ t.start + t.length <= Len(s) + 1
    /\ t.type = "NUM" => t.length >= 1 /\ Numeral(s, t.start, t.start + t.length)

\* Every token is sound, and only the last one may be END.
AllSound ==
    /\ \A k \in 1 .. Len(tokens) : Sound(input, tokens[k])
    /\ \A k \in 1 .. Len(tokens) : tokens[k].type = "END" => pc = "done" /\ k = Len(tokens)

LEMMA SoundPushed ==
    ASSUME IInv, AllSound, pc = "skip", input' = input, NEW t \in TokenSet(input), Push(t),
           t.type # "END", Sound(input, t)
    PROVE  AllSound'
<1>1. /\ Typed /\ Filled /\ Running
  BY DEF IInv, Running
<1>2. \/ pc' = "skip" /\ tokens' = Append(tokens, t)
      \/ pc' = "crashed" /\ tokens' = tokens
  BY <1>1, PushIs
<1>3. CASE tokens' = tokens
  BY <1>3 DEF AllSound
<1>4. CASE tokens' = Append(tokens, t)
  <2>1. tokens \in Seq(TokenSet(input)) /\ Len(tokens) \in Nat
    BY <1>1, TypedIs, LenProperties
  <2>2. /\ Len(tokens') = Len(tokens) + 1 /\ tokens'[Len(tokens) + 1] = t
        /\ \A k \in 1 .. Len(tokens) : tokens'[k] = tokens[k]
    BY <1>4, <2>1, AppendProperties
  <2>3. ASSUME NEW k \in 1 .. Len(tokens) + 1
        PROVE  Sound(input, tokens'[k]) /\ tokens'[k].type # "END"
    <3>1. CASE k = Len(tokens) + 1
      BY <2>2, <3>1
    <3>2. CASE k \in 1 .. Len(tokens)
      BY <2>2, <3>2 DEF AllSound
    <3> QED BY <2>1, <3>1, <3>2
  <2> QED BY <2>2, <2>3 DEF AllSound
<1> QED BY <1>2, <1>3, <1>4

LEMMA SoundStep == IInv /\ AllSound /\ [Next]_vars => AllSound'
<1> SUFFICES ASSUME IInv, AllSound, [Next]_vars PROVE AllSound'
  OBVIOUS
<1>1. CASE Shebang \/ SkipSpace \/ LineComment \/ BlockComment \/ InComment \/ CommentEnds
  <2>1. tokens' = tokens /\ input' = input /\ pc # "done"
    BY <1>1 DEF Shebang, SkipSpace, LineComment, BlockComment, InComment, CommentEnds, store
  <2> QED BY <2>1 DEF AllSound
<1>2. /\ pos \in Nat /\ 1 <= pos /\ pos \in 1 .. Len(input) + 1 /\ Len(input) \in Nat
      /\ line \in 1 .. Len(input) + 1 /\ input \in Texts
  BY TypedIs DEF IInv
<1>3. CASE CommentNewline
  <2>1. PICK t : t = Token("NEWLINE", 0)
    OBVIOUS
  <2>2. pc = "skip" /\ input' = input /\ Push(t)
    BY <1>3, <2>1 DEF CommentNewline, AtToken
  <2>3. /\ t.type = "NEWLINE" /\ t.start = pos /\ t.length = 0 /\ t \in TokenSet(input)
    BY <1>2, <2>1 DEF Token, TokenSet, TokenTypes
  <2>4. Sound(input, t)
    BY <1>2, <2>3 DEF Sound
  <2> QED BY <2>2, <2>3, <2>4, SoundPushed
<1>4. CASE Newline
  <2>1. PICK t : t = Token("NEWLINE", 1)
    OBVIOUS
  <2>2. pc = "skip" /\ input' = input /\ Push(t) /\ Peek(pos) # Eof
    BY <1>4, <2>1 DEF Newline, AtToken, NL, Eof
  <2>3. pos <= Len(input)
    BY <1>2, <2>2, PeekIs DEF IInv
  <2>4. t.type = "NEWLINE" /\ t.start = pos /\ t.length = 1
    BY <2>1 DEF Token
  <2>5. t \in TokenSet(input)
    <3>1. 1 \in 0 .. Len(input) /\ pos \in 0 .. Len(input) + 1 /\ line \in 0 .. Len(input) + 1
      BY <1>2, <2>3
    <3> QED BY <2>1, <3>1 DEF Token, TokenSet, TokenTypes
  <2>6. Sound(input, t)
    BY <1>2, <2>3, <2>4 DEF Sound
  <2> QED BY <2>2, <2>4, <2>5, <2>6, SoundPushed
<1>5. CASE OtherToken
  <2>1. PICK type, end : type = Scan(pos).type /\ end = Scan(pos).end
    OBVIOUS
  <2>2. PICK t : t = Token(type, end - pos)
    OBVIOUS
  <2>3. pc = "skip" /\ input' = input /\ Push(t) /\ Peek(pos) # Eof /\ Peek(pos) # NL
    BY <1>5, <2>1, <2>2 DEF OtherToken, AtToken
  <2>4. pos <= Len(input) /\ Peek(pos) = input[pos]
    BY <1>2, <2>3, PeekIs DEF IInv
  <2>5. pos \in 1 .. Len(input) /\ input[pos] # NL
    BY <1>2, <2>3, <2>4
  <2>6. Reads(pos, type, end)
    BY <1>2, <2>1, <2>5, ScanReads
  <2>7. type \in TokenTypes \ {"NEWLINE", "END"} /\ end \in pos + 1 .. Len(input) + 1
    BY <2>6 DEF Reads
  <2>8. t.type = type /\ t.start = pos /\ t.length = end - pos /\ t.start + t.length = end
    BY <1>2, <2>2, <2>7 DEF Token
  <2>9. t \in TokenSet(input)
    <3>1. end - pos \in 0 .. Len(input) /\ pos \in 0 .. Len(input) + 1 /\ line \in 0 .. Len(input) + 1
      BY <1>2, <2>5, <2>7
    <3> QED BY <2>2, <2>7, <3>1 DEF Token, TokenSet
  <2>10. Sound(input, t)
    <3>1. type = "NUM" => Numeral(input, pos, end)
      BY <1>2, <2>1, <2>5, ScanNumber
    <3> QED BY <1>2, <2>7, <2>8, <3>1 DEF Sound
  <2> QED BY <2>3, <2>7, <2>8, <2>9, <2>10, SoundPushed
<1>6. CASE End
  <2>1. CASE tokens' = tokens
    BY <1>6, <2>1 DEF End, AtToken, AllSound
  <2>2. CASE pc' = "done"
    <3>1. PICK t : t = [type |-> "END", start |-> 0, length |-> 0, line |-> 0]
      OBVIOUS
    <3>2. tokens' = Append(tokens, t) /\ input' = input /\ pc = "skip"
      BY <1>6, <2>2, <3>1 DEF End, AtToken
    <3>3. tokens \in Seq(TokenSet(input)) /\ Len(tokens) \in Nat /\ t \in TokenSet(input)
      <4>1. tokens \in Seq(TokenSet(input)) /\ Len(tokens) \in Nat
        BY TypedIs, LenProperties DEF IInv
      <4> QED BY <1>2, <3>1, <4>1 DEF TokenSet, TokenTypes
    <3>4. /\ Len(tokens') = Len(tokens) + 1 /\ tokens'[Len(tokens) + 1] = t
          /\ \A k \in 1 .. Len(tokens) : tokens'[k] = tokens[k]
      BY <3>2, <3>3, AppendProperties
    <3>5. Sound(input, t)
      BY <3>1 DEF Sound
    <3>6. \A k \in 1 .. Len(tokens) : Sound(input, tokens'[k]) /\ tokens'[k].type # "END"
      BY <3>2, <3>4 DEF AllSound
    <3>7. \A k \in 1 .. Len(tokens') : k \in 1 .. Len(tokens) \/ k = Len(tokens) + 1
      BY <3>3, <3>4
    <3> QED BY <2>2, <3>2, <3>4, <3>5, <3>6, <3>7 DEF AllSound
  <2> QED BY <1>6, <2>1, <2>2 DEF End
<1>7. CASE UNCHANGED vars
  BY <1>7 DEF vars, AllSound
<1> QED BY <1>1, <1>3, <1>4, <1>5, <1>6, <1>7 DEF Next

\* Numbers consist of digits, and only the last token is END.
THEOREM TokensSound == Spec => []AllSound
<1>1. Init => AllSound
  <2> SUFFICES ASSUME Init PROVE AllSound
    OBVIOUS
  <2>1. Len(tokens) = 0
    BY EmptySeq DEF Init
  <2> QED BY <2>1 DEF AllSound
<1> QED BY <1>1, SoundStep, Inductive, PTL DEF Spec
-----------------------------------------------------------------------------
(* What is skipped, piece by piece.                                          *)

LineOpens(s) == Len(s) > 2 /\ Begin(s, 1, "#", "!")

LineOf(s, i) == CHOOSE j \in i .. Len(s) + 1 :
                    /\ \A k \in i .. j - 1 : s[k] \in Chars \ {NL}
                    /\ At(s, j) \notin Chars \ {NL}

Place(i, d) == [at |-> i, depth |-> d]

\* SkipPiece, of any text.
Piece(s, x) ==
    CASE x.depth = 0 /\ x.at = 1 /\ LineOpens(s)       -> Place(LineOf(s, x.at), 0)
      [] x.depth = 0 /\ Begin(s, x.at, "/", "/")       -> Place(LineOf(s, x.at + 2), 0)
      [] Begin(s, x.at, "/", "*")                      -> Place(x.at + 2, x.depth + 1)
      [] x.depth = 0 /\ At(s, x.at) \in Spaces         -> Place(x.at + 1, 0)
      [] x.depth > 0 /\ Begin(s, x.at, "*", "/")       -> Place(x.at + 2, x.depth - 1)
      [] x.depth > 0 /\ At(s, x.at) # Eof /\ ~Begin(s, x.at, "/", "*")
            /\ ~Begin(s, x.at, "*", "/")               -> Place(x.at + 1, x.depth)
      [] OTHER                                         -> x

\* f is where the pieces lead from a on.
Skims(s, a, f) ==
    f[0] = Place(a, 0) /\ \A n \in 1 .. Len(s) : f[n] = Piece(s, f[n - 1])

\* The pieces lead from a to q, at depth d.
Comes(s, a, q, d) ==
    /\ 1 <= a /\ a \in Nat /\ q \in Nat /\ d \in Nat
    /\ \A f : Skims(s, a, f) => \E n \in 0 .. Len(s) : n <= q - a /\ f[n] = Place(q, d)

\* They lead no further than q.
Stops(s, a, q) == \A f : Skims(s, a, f) => f[Len(s)].at = q

LEMMA LineOfIs == ASSUME NEW i PROVE RunEnd(i, Chars \ {NL}) = LineOf(input, i)
BY PeekAt DEF RunEnd, LineOf

\* The pieces exclude each other.
LEMMA PieceIs ==
    ASSUME NEW s, NEW i \in Nat, NEW d \in Nat, NEW x, x = Place(i, d)
    PROVE  /\ d = 0 /\ i = 1 /\ LineOpens(s) => Piece(s, x) = Place(LineOf(s, i), 0)
           /\ d = 0 /\ Begin(s, i, "/", "/") => Piece(s, x) = Place(LineOf(s, i + 2), 0)
           /\ Begin(s, i, "/", "*") => Piece(s, x) = Place(i + 2, d + 1)
           /\ d = 0 /\ At(s, i) \in Spaces => Piece(s, x) = Place(i + 1, 0)
           /\ d > 0 /\ Begin(s, i, "*", "/") => Piece(s, x) = Place(i + 2, d - 1)
           /\ d > 0 /\ At(s, i) # Eof /\ ~Begin(s, i, "/", "*") /\ ~Begin(s, i, "*", "/")
                 => Piece(s, x) = Place(i + 1, d)
           /\ (d = 0 => ~(i = 1 /\ LineOpens(s)) /\ ~Begin(s, i, "/", "/") /\ At(s, i) \notin Spaces)
              /\ ~Begin(s, i, "/", "*") /\ (d > 0 => At(s, i) = Eof)
                 => Piece(s, x) = x
<1>1. x.at = i /\ x.depth = d
  BY DEF Place
<1>2. /\ LineOpens(s) /\ i = 1 => At(s, i) = "#" /\ At(s, i) \notin Spaces
      /\ Begin(s, i, "/", "/") => At(s, i) = "/" /\ At(s, i + 1) = "/" /\ At(s, i) \notin Spaces
      /\ Begin(s, i, "/", "*") => At(s, i) = "/" /\ At(s, i + 1) = "*" /\ At(s, i) \notin Spaces
      /\ Begin(s, i, "*", "/") => At(s, i) = "*"
      /\ Eof \notin Spaces /\ Eof # "*"
  <2>1. "/" \notin Spaces /\ "#" \notin Spaces /\ Eof \notin Spaces
    BY Classes
  <2> QED BY <2>1 DEF LineOpens, Begin, Eof
<1> DEFINE A == d = 0 /\ i = 1 /\ LineOpens(s)
           B == d = 0 /\ Begin(s, i, "/", "/")
           C == Begin(s, i, "/", "*")
           D == d = 0 /\ At(s, i) \in Spaces
           E == d > 0 /\ Begin(s, i, "*", "/")
           F == d > 0 /\ At(s, i) # Eof /\ ~Begin(s, i, "/", "*") /\ ~Begin(s, i, "*", "/")
<1>3. Piece(s, x) = CASE A -> Place(LineOf(s, i), 0)
                      [] B -> Place(LineOf(s, i + 2), 0)
                      [] C -> Place(i + 2, d + 1)
                      [] D -> Place(i + 1, 0)
                      [] E -> Place(i + 2, d - 1)
                      [] F -> Place(i + 1, d)
                      [] OTHER -> x
  BY <1>1 DEF Piece
<1>4. /\ A => ~B /\ ~C /\ ~D /\ ~E /\ ~F
      /\ B => ~C /\ ~D /\ ~E /\ ~F
      /\ C => ~D /\ ~E /\ ~F
      /\ D => ~E /\ ~F
      /\ E => ~F
  BY <1>2
<1>5. (d = 0 => ~(i = 1 /\ LineOpens(s)) /\ ~Begin(s, i, "/", "/") /\ At(s, i) \notin Spaces)
          /\ ~Begin(s, i, "/", "*") /\ (d > 0 => At(s, i) = Eof)
        => ~A /\ ~B /\ ~C /\ ~D /\ ~E /\ ~F
  BY <1>2
<1> HIDE DEF A, B, C, D, E, F
<1>6. /\ A => Piece(s, x) = Place(LineOf(s, i), 0)
      /\ B => Piece(s, x) = Place(LineOf(s, i + 2), 0)
      /\ C => Piece(s, x) = Place(i + 2, d + 1)
      /\ D => Piece(s, x) = Place(i + 1, 0)
      /\ E => Piece(s, x) = Place(i + 2, d - 1)
      /\ F => Piece(s, x) = Place(i + 1, d)
      /\ ~A /\ ~B /\ ~C /\ ~D /\ ~E /\ ~F => Piece(s, x) = x
  BY <1>3, <1>4
<1> QED BY <1>5, <1>6 DEF A, B, C, D, E, F

LEMMA ComesMore ==
    ASSUME NEW s, Len(s) \in Nat, NEW a, NEW q \in Nat, NEW d, NEW r \in Nat, NEW e \in Nat,
           Comes(s, a, q, d), Piece(s, Place(q, d)) = Place(r, e), q < r, r <= Len(s) + 1
    PROVE  Comes(s, a, r, e)
<1>1. 1 <= a /\ a \in Nat /\ d \in Nat
  BY DEF Comes
<1> SUFFICES ASSUME NEW f, Skims(s, a, f)
             PROVE  \E n \in 0 .. Len(s) : n <= r - a /\ f[n] = Place(r, e)
  BY <1>1 DEF Comes
<1>2. PICK n \in 0 .. Len(s) : n <= q - a /\ f[n] = Place(q, d)
  BY DEF Comes
<1>3. n + 1 \in 1 .. Len(s) /\ n + 1 <= r - a /\ (n + 1) - 1 = n
  BY <1>1, <1>2
<1>4. f[n + 1] = Place(r, e)
  BY <1>2, <1>3 DEF Skims
<1> QED BY <1>3, <1>4

LEMMA ComesFirst ==
    ASSUME NEW s, Len(s) \in Nat, NEW a \in Nat, 1 <= a
    PROVE  Comes(s, a, a, 0)
<1>1. 0 \in 0 .. Len(s) /\ 0 <= a - a
  OBVIOUS
<1> QED BY <1>1 DEF Comes, Skims

\* Where no piece is, the place stays to the last.
LEMMA ComesLast ==
    ASSUME NEW s, Len(s) \in Nat, NEW a, NEW q, NEW d, Comes(s, a, q, d),
           Piece(s, Place(q, d)) = Place(q, d)
    PROVE  Stops(s, a, q)
<1> SUFFICES ASSUME NEW f, Skims(s, a, f) PROVE f[Len(s)].at = q
  BY DEF Stops
<1>1. PICK n \in 0 .. Len(s) : f[n] = Place(q, d)
  BY DEF Comes
<1> DEFINE T == {m \in n .. Len(s) : f[m] # Place(q, d)}
<1>2. T = {}
  <2> SUFFICES ASSUME T # {} PROVE FALSE
    OBVIOUS
  <2>1. PICK m \in T : \A j \in T : m <= j
    <3>1. T \in SUBSET Nat
      OBVIOUS
    <3> HIDE DEF T
    <3> QED BY <3>1, LeastNat
  <2>2. m \in 1 .. Len(s) /\ m - 1 \in n .. Len(s) /\ m - 1 < m
    BY <1>1, <2>1
  <2>3. f[m - 1] = Place(q, d)
    <3>1. m - 1 \notin T
      BY <2>1, <2>2
    <3> QED BY <2>2, <3>1
  <2>4. f[m] = Place(q, d)
    BY <2>2, <2>3 DEF Skims
  <2> QED BY <2>1, <2>4
<1>3. f[Len(s)] = Place(q, d)
  BY <1>2
<1> QED BY <1>3 DEF Place
\* Each token begins where the pieces stop that lead there from the token before;
\* until it is found, they lead to where the lexer is.
Begun(s, ts, k) == Stops(s, Behind(ts, k), IF ts[k].type = "END" THEN Len(s) + 1 ELSE ts[k].start)

From == Behind(tokens, Len(tokens) + 1)

Skimmed ==
    /\ \A k \in 1 .. Len(tokens) : Begun(input, tokens, k)
    /\ pc = "shebang" =>
          tokens = << >> /\ LineOpens(input) /\ \A k \in 1 .. pos - 1 : input[k] # NL
    /\ pc = "skip" =>
          /\ pos = 1 => ~LineOpens(input)
          /\ \E d \in Nat : Comes(input, From, pos, d) /\ (d = 0 \/ pos = Len(input) + 1)
    /\ pc = "block" => pos # 1 /\ Comes(input, From, pos, depth)

\* The lexer has come to the text of a token, or to the end.
LEMMA StopsHere ==
    ASSUME IInv, Skimmed, AtToken
    PROVE  Stops(input, From, pos)
<1>1. /\ pos \in Nat /\ 1 <= pos /\ pos <= Len(input) + 1 /\ Len(input) \in Nat
  BY TypedIs DEF IInv
<1>2. /\ Peek(pos) = At(input, pos) /\ Peek(pos) \notin Spaces
      /\ ~Begin(input, pos, "/", "/") /\ ~Begin(input, pos, "/", "*")
  <2>1. Begin(input, pos, "/", "/") <=> AtLineComment
    BY PeekAt DEF Begin, AtLineComment
  <2>2. Begin(input, pos, "/", "*") <=> AtBlockComment
    BY PeekAt DEF Begin, AtBlockComment
  <2> QED BY <2>1, <2>2, PeekAt DEF AtToken
<1>3. pos = 1 => ~LineOpens(input)
  BY DEF Skimmed, AtToken
<1>4. PICK d \in Nat : Comes(input, From, pos, d) /\ (d = 0 \/ pos = Len(input) + 1)
  BY DEF Skimmed, AtToken
<1>5. d > 0 => At(input, pos) = Eof
  <2>1. pos = Len(input) + 1 => ~(pos <= Len(input))
    BY <1>1
  <2>2. d > 0 => pos = Len(input) + 1
    BY <1>4
  <2> QED BY <2>1, <2>2 DEF At
<1>6. Piece(input, Place(pos, d)) = Place(pos, d)
  BY <1>1, <1>2, <1>3, <1>5, PieceIs
<1> QED BY <1>1, <1>4, <1>6, ComesLast

\* A token is stored that begins where the lexer is.
LEMMA SkimmedPushed ==
    ASSUME IInv, Skimmed, AtToken, input' = input, NEW t \in TokenSet(input),
           tokens' = tokens \/ tokens' = Append(tokens, t),
           pc' = "skip" => tokens' = Append(tokens, t) /\ pos' = t.start + t.length /\ t.type # "END",
           pc' \in {"skip", "crashed", "done"}, pos' \in Nat, pos' >= pos,
           (IF t.type = "END" THEN Len(input) + 1 ELSE t.start) = pos
    PROVE  Skimmed'
<1>1. /\ Typed /\ tokens \in Seq(TokenSet(input)) /\ tokens \in Seq(Marked) /\ Len(tokens) \in Nat
      /\ pos \in Nat /\ 1 <= pos /\ Len(input) \in Nat
  BY TypedIs, LenProperties DEF IInv
<1>2. Stops(input, From, pos)
  BY StopsHere
<1>3. \A k \in 1 .. Len(tokens) : Begun(input, tokens, k)
  BY DEF Skimmed
<1>4. \A k \in 1 .. Len(tokens') : Begun(input, tokens', k)
  <2>1. CASE tokens' = tokens
    BY <1>3, <2>1
  <2>2. CASE tokens' = Append(tokens, t)
    <3>1. /\ Len(tokens') = Len(tokens) + 1 /\ tokens'[Len(tokens) + 1] = t
          /\ \A k \in 1 .. Len(tokens) : tokens'[k] = tokens[k]
      BY <1>1, <2>2, AppendProperties
    <3>2. ASSUME NEW k \in 1 .. Len(tokens) + 1 PROVE Behind(tokens', k) = Behind(tokens, k)
      <4>1. CASE k = 1
        BY <4>1 DEF Behind
      <4>2. CASE k # 1
        <5>1. k - 1 \in 1 .. Len(tokens)
          BY <1>1, <4>2
        <5> QED BY <3>1, <4>2, <5>1 DEF Behind
      <4> QED BY <4>1, <4>2
    <3>3. ASSUME NEW k \in 1 .. Len(tokens) + 1 PROVE Begun(input, tokens', k)
      <4>1. CASE k = Len(tokens) + 1
        <5>1. Behind(tokens', k) = From
          BY <3>2, <4>1 DEF From
        <5>2. (IF tokens'[k].type = "END" THEN Len(input) + 1 ELSE tokens'[k].start) = pos
          BY <3>1, <4>1
        <5> QED BY <1>2, <5>1, <5>2, Zenon DEF Begun
      <4>2. CASE k \in 1 .. Len(tokens)
        <5>1. Behind(tokens', k) = Behind(tokens, k) /\ tokens'[k] = tokens[k]
          BY <3>1, <3>2, <4>2
        <5> QED BY <1>3, <4>2, <5>1, Zenon DEF Begun
      <4> QED BY <1>1, <4>1, <4>2
    <3> QED BY <3>1, <3>3
  <2> QED BY <2>1, <2>2
<1>5. ASSUME pc' = "skip"
      PROVE  /\ pos' = 1 => ~LineOpens(input)
             /\ \E d \in Nat : Comes(input, From', pos', d) /\ (d = 0 \/ pos' = Len(input) + 1)
  <2>1. tokens' = Append(tokens, t) /\ pos' = t.start + t.length
    BY <1>5
  <2>2. Len(tokens') = Len(tokens) + 1 /\ tokens'[Len(tokens) + 1] = t
    BY <1>1, <2>1, AppendProperties
  <2>3. From' = pos'
    <3>1. Len(tokens') + 1 # 1 /\ (Len(tokens') + 1) - 1 = Len(tokens) + 1
      BY <1>1, <2>2
    <3>2. From' = tokens'[Len(tokens) + 1].start + tokens'[Len(tokens) + 1].length
      BY <3>1 DEF From, Behind
    <3> QED BY <2>1, <2>2, <3>2
  <2>4. Comes(input, pos', pos', 0)
    BY <1>1, ComesFirst
  <2>5. pos' = 1 => ~LineOpens(input)
    <3>1. pos = 1 => ~LineOpens(input)
      BY DEF Skimmed, AtToken
    <3>2. pos' = 1 => pos = 1
      BY <1>1
    <3> QED BY <3>1, <3>2
  <2> QED BY <2>3, <2>4, <2>5
<1> QED BY <1>4, <1>5 DEF Skimmed

\* The lexer moves on by a piece, in the same gap.
LEMMA SkimmedMore ==
    ASSUME IInv, Skimmed, input' = input, tokens' = tokens, NEW d \in Nat, NEW e \in Nat,
           Comes(input, From, pos, d), pos' \in Nat, pos < pos', pos' <= Len(input) + 1,
           Piece(input, Place(pos, d)) = Place(pos', e),
           \/ pc' = "skip" /\ e = 0
           \/ pc' = "block" /\ depth' = e
    PROVE  Skimmed'
<1>1. pos \in Nat /\ 1 <= pos /\ Len(input) \in Nat
  BY TypedIs DEF IInv
<1>2. Comes(input, From, pos', e)
  BY <1>1, ComesMore
<1>3. From' = From /\ pos' # 1
  BY <1>1 DEF From
<1>4. \A k \in 1 .. Len(tokens') : Begun(input', tokens', k)
  BY DEF Skimmed
<1> QED BY <1>2, <1>3, <1>4 DEF Skimmed
\* At the newline that ends the #! line, the line is the first piece.
LEMMA SkimmedLine ==
    ASSUME IInv, Skimmed, Shebang, Peek(pos) = NL
    PROVE  Skimmed'
<1>1. /\ pc = "shebang" /\ pc' = "skip" /\ pos' = pos /\ input' = input /\ tokens' = tokens
      /\ depth' = depth
  BY DEF Shebang, store, comment
<1>2. tokens = << >> /\ LineOpens(input) /\ \A k \in 1 .. pos - 1 : input[k] # NL
  BY <1>1 DEF Skimmed
<1>3. /\ pos \in Nat /\ 1 <= pos /\ pos <= Len(input) /\ Len(input) \in Nat /\ input \in Texts
      /\ At(input, pos) = NL /\ input[pos] = NL
  <2>1. pos \in Nat /\ 1 <= pos /\ Len(input) \in Nat /\ input \in Texts /\ Typed
    BY TypedIs DEF IInv
  <2>2. Peek(pos) # Eof
    BY DEF NL, Eof
  <2> QED BY <2>1, <2>2, PeekIs
<1>4. pos # 1
  BY <1>2, <1>3 DEF LineOpens, Begin, NL
<1>5. LineOf(input, 1) = pos
  <2> DEFINE S == Chars \ {NL}
             Is(j) == (\A k \in 1 .. j - 1 : input[k] \in S) /\ At(input, j) \notin S
  <2>1. \A k \in 1 .. Len(input) : input[k] \in Chars
    BY <1>3, ElementOfSeq DEF Texts
  <2>2. pos \in 1 .. Len(input) + 1 /\ Is(pos)
    BY <1>2, <1>3, <2>1
  <2>3. ASSUME NEW j \in 1 .. Len(input) + 1, Is(j) PROVE j = pos
    <3>1. CASE j < pos
      <4>1. j \in 1 .. pos - 1 /\ j \in 1 .. Len(input)
        BY <1>3, <3>1
      <4>2. input[j] \in S /\ At(input, j) = input[j]
        BY <1>2, <2>1, <4>1 DEF At
      <4> QED BY <2>3, <4>2
    <3>2. CASE j > pos
      <4>1. pos \in 1 .. j - 1
        BY <1>3, <3>2
      <4> QED BY <1>3, <2>3, <4>1
    <3> QED BY <1>3, <3>1, <3>2
  <2>4. LineOf(input, 1) = CHOOSE j \in 1 .. Len(input) + 1 : Is(j)
    BY DEF LineOf
  <2> HIDE DEF Is
  <2>5. (CHOOSE j \in 1 .. Len(input) + 1 : Is(j)) \in 1 .. Len(input) + 1
        /\ Is(CHOOSE j \in 1 .. Len(input) + 1 : Is(j))
    BY <2>2
  <2> QED BY <2>3, <2>4, <2>5
<1>6. From = 1
  <2>1. Len(tokens) = 0
    BY <1>2, EmptySeq
  <2> QED BY <2>1 DEF From, Behind
<1>7. PICK a \in Nat : a = 1
  OBVIOUS
<1>8. Comes(input, From, a, 0) /\ Piece(input, Place(a, 0)) = Place(pos, 0)
  <2>1. Comes(input, a, a, 0)
    BY <1>3, <1>7, ComesFirst
  <2>2. From = a
    BY <1>6, <1>7
  <2>3. Comes(input, From, a, 0)
    BY <2>1, <2>2, Zenon
  <2>4. Piece(input, Place(a, 0)) = Place(pos, 0)
    <3>1. 0 = 0 /\ a = 1 /\ LineOpens(input) => Piece(input, Place(a, 0)) = Place(LineOf(input, a), 0)
      BY PieceIs
    <3> QED BY <1>2, <1>5, <1>7, <3>1
  <2> QED BY <2>3, <2>4
<1>9. Comes(input, From, pos, 0)
  <2>1. a < pos /\ pos <= Len(input) + 1
    BY <1>3, <1>4, <1>7
  <2> QED BY <1>3, <1>8, <2>1, ComesMore
<1>10. From' = From
  BY <1>1 DEF From
<1>11. \A k \in 1 .. Len(tokens') : Begun(input', tokens', k)
  BY <1>1 DEF Skimmed
<1> QED BY <1>1, <1>4, <1>9, <1>10, <1>11 DEF Skimmed

LEMMA SkimmedStep == IInv /\ Skimmed /\ [Next]_vars => Skimmed'
<1> SUFFICES ASSUME IInv, Skimmed, [Next]_vars PROVE Skimmed'
  OBVIOUS
<1>1. /\ Typed /\ pos \in Nat /\ 1 <= pos /\ pos <= Len(input) + 1 /\ pos \in 1 .. Len(input) + 1
      /\ Len(input) \in Nat /\ line \in 1 .. Len(input) + 1 /\ input \in Texts /\ depth \in Nat
  BY TypedIs DEF IInv
<1>2. \A k \in 1 .. Len(tokens) : Begun(input, tokens, k)
  BY DEF Skimmed
<1>3. CASE Shebang
  <2>1. CASE Peek(pos) = NL
    BY <1>3, <2>1, SkimmedLine
  <2>2. CASE Peek(pos) # NL
    <3>1. /\ pc = "shebang" /\ pc' = "shebang" /\ input' = input /\ tokens' = tokens
          /\ pos' = IF Peek(pos) = Eof THEN pos ELSE pos + 1
      BY <1>3, <2>2 DEF Shebang, store
    <3>2. tokens = << >> /\ LineOpens(input) /\ \A k \in 1 .. pos - 1 : input[k] # NL
      BY <3>1 DEF Skimmed
    <3>3. \A k \in 1 .. pos' - 1 : input[k] # NL
      <4>1. CASE Peek(pos) = Eof
        BY <3>1, <3>2, <4>1
      <4>2. CASE Peek(pos) # Eof
        <5>1. input[pos] # NL
          BY <1>1, <2>2, <4>2, PeekIs
        <5>2. \A k \in 1 .. (pos + 1) - 1 : k \in 1 .. pos - 1 \/ k = pos
          BY <1>1
        <5> QED BY <3>1, <3>2, <4>2, <5>1, <5>2
      <4> QED BY <4>1, <4>2
    <3> QED BY <1>2, <3>1, <3>2, <3>3 DEF Skimmed
  <2> QED BY <2>1, <2>2
<1>4. CASE SkipSpace
  <2>1. /\ pc = "skip" /\ pc' = "skip" /\ input' = input /\ tokens' = tokens
        /\ Peek(pos) \in Spaces /\ pos' = pos + 1
    BY <1>4 DEF SkipSpace, store
  <2>2. pos <= Len(input) /\ At(input, pos) \in Spaces
    <3>1. Peek(pos) # Eof
      BY <2>1, Classes
    <3> QED BY <1>1, <2>1, <3>1, PeekIs
  <2>3. Comes(input, From, pos, 0)
    BY <1>1, <2>1, <2>2 DEF Skimmed
  <2>4. Piece(input, Place(pos, 0)) = Place(pos', 0)
    BY <1>1, <2>1, <2>2, PieceIs
  <2>5. pos' \in Nat /\ pos < pos' /\ pos' <= Len(input) + 1
    BY <1>1, <2>1, <2>2
  <2> QED BY <2>1, <2>3, <2>4, <2>5, SkimmedMore
<1>5. CASE LineComment
  <2>1. /\ pc = "skip" /\ pc' = "skip" /\ input' = input /\ tokens' = tokens
        /\ Peek(pos) = "/" /\ Peek(pos + 1) = "/" /\ pos' = RunEnd(pos + 2, Chars \ {NL})
    BY <1>5 DEF LineComment, AtLineComment, store
  <2>2. Begin(input, pos, "/", "/") /\ pos + 2 \in 1 .. Len(input) + 1
    <3>1. "/" # Eof
      BY DEF Eof
    <3> QED BY <1>1, <2>1, <3>1, TwoAhead
  <2>3. pos' \in pos + 2 .. Len(input) + 1
    <3>1. Eof \notin Chars \ {NL}
      BY Classes
    <3> QED BY <1>1, <2>1, <2>2, <3>1, RunEndIs
  <2>4. pos' = LineOf(input, pos + 2)
    BY <2>1, LineOfIs
  <2>5. Comes(input, From, pos, 0)
    <3>1. pos # Len(input) + 1
      BY <1>1, <2>2
    <3> QED BY <2>1, <3>1 DEF Skimmed
  <2>6. Piece(input, Place(pos, 0)) = Place(pos', 0)
    BY <1>1, <2>2, <2>4, PieceIs
  <2>7. pos' \in Nat /\ pos < pos' /\ pos' <= Len(input) + 1
    BY <1>1, <2>3
  <2> QED BY <2>1, <2>5, <2>6, <2>7, SkimmedMore
<1>6. CASE BlockComment
  <2>1. /\ pc = "skip" /\ pc' = "block" /\ input' = input /\ tokens' = tokens
        /\ Peek(pos) = "/" /\ Peek(pos + 1) = "*" /\ pos' = pos + 2 /\ depth' = 1
    BY <1>6 DEF BlockComment, AtBlockComment, store
  <2>2. Begin(input, pos, "/", "*") /\ pos + 2 \in 1 .. Len(input) + 1
    <3>1. "/" # Eof /\ "*" # Eof
      BY DEF Eof
    <3> QED BY <1>1, <2>1, <3>1, TwoAhead
  <2>3. Comes(input, From, pos, 0)
    <3>1. pos # Len(input) + 1
      BY <1>1, <2>2
    <3> QED BY <2>1, <3>1 DEF Skimmed
  <2>4. Piece(input, Place(pos, 0)) = Place(pos', 1)
    <3>1. Piece(input, Place(pos, 0)) = Place(pos + 2, 0 + 1)
      BY <1>1, <2>2, PieceIs
    <3> QED BY <2>1, <3>1
  <2>5. pos' \in Nat /\ pos < pos' /\ pos' <= Len(input) + 1
    BY <1>1, <2>1, <2>2
  <2> QED BY <2>1, <2>3, <2>4, <2>5, SkimmedMore
<1>7. CASE InComment
  <2>1. /\ pc = "block" /\ pc' = "block" /\ input' = input /\ tokens' = tokens
        /\ Peek(pos) # Eof /\ depth > 0
    BY <1>7 DEF InComment, store
  <2>2. PICK opens, closes : /\ opens = Begin(input, pos, "/", "*")
                             /\ closes = Begin(input, pos, "*", "/")
    OBVIOUS
  <2>3. /\ pos' = IF opens \/ closes THEN pos + 2 ELSE pos + 1
        /\ depth' = IF opens THEN depth + 1 ELSE IF closes THEN depth - 1 ELSE depth
    BY <1>7, <2>2, PeekAt DEF InComment, AtBlockComment, Begin
  <2>4. Comes(input, From, pos, depth)
    BY <2>1 DEF Skimmed
  <2>5. pos <= Len(input) /\ At(input, pos) # Eof
    BY <1>1, <2>1, PeekIs
  <2>6. opens \/ closes => pos + 2 <= Len(input) + 1
    <3>1. opens \/ closes => Peek(pos + 1) # Eof
      BY <2>2, PeekAt DEF Begin, Eof
    <3>2. pos + 1 \in Nat
      BY <1>1
    <3> QED BY <1>1, <3>1, <3>2, PeekIs
  <2>7. pos' \in Nat /\ pos < pos' /\ pos' <= Len(input) + 1 /\ depth' \in Nat
    BY <1>1, <2>1, <2>3, <2>5, <2>6
  <2>8. Piece(input, Place(pos, depth)) = Place(pos', depth')
    <3>1. CASE opens
      BY <1>1, <2>2, <2>3, <3>1, PieceIs
    <3>2. CASE ~opens /\ closes
      BY <1>1, <2>1, <2>2, <2>3, <3>2, PieceIs
    <3>3. CASE ~opens /\ ~closes
      BY <1>1, <2>1, <2>2, <2>3, <2>5, <3>3, PieceIs
    <3> QED BY <3>1, <3>2, <3>3
  <2> QED BY <1>1, <2>1, <2>4, <2>7, <2>8, SkimmedMore
<1>8. CASE CommentEnds
  <2>1. /\ pc = "block" /\ pc' = "skip" /\ input' = input /\ tokens' = tokens /\ pos' = pos
        /\ Peek(pos) = Eof \/ depth = 0
    BY <1>8 DEF CommentEnds, store
  <2>2. pos # 1 /\ Comes(input, From, pos, depth) /\ From' = From
    BY <2>1 DEF Skimmed, From
  <2>3. depth = 0 \/ pos = Len(input) + 1
    <3> SUFFICES ASSUME Peek(pos) = Eof, pos <= Len(input) PROVE FALSE
      BY <1>1, <2>1
    <3>1. input[pos] \in Chars /\ Peek(pos) = input[pos]
      BY <1>1, ElementOfSeq DEF Texts, Peek
    <3> QED BY <3>1, Classes
  <2> QED BY <1>1, <1>2, <2>1, <2>2, <2>3 DEF Skimmed
<1>9. CASE CommentNewline
  <2>1. PICK t : t = Token("NEWLINE", 0)
    OBVIOUS
  <2>2. AtToken /\ input' = input /\ pos' = pos /\ Push(t)
    BY <1>9, <2>1 DEF CommentNewline
  <2>3. t.type = "NEWLINE" /\ t.start = pos /\ t.length = 0 /\ t \in TokenSet(input)
    BY <1>1, <2>1 DEF Token, TokenSet, TokenTypes
  <2>4. /\ \/ pc' = "skip" /\ tokens' = Append(tokens, t)
           \/ pc' = "crashed" /\ tokens' = tokens
    BY <2>2, <2>3, PushIs DEF IInv, AtToken, Running
  <2>5. pos' = t.start + t.length /\ pos' >= pos /\ pos' \in Nat
    BY <1>1, <2>2, <2>3
  <2> QED BY <2>2, <2>3, <2>4, <2>5, SkimmedPushed
<1>10. CASE Newline
  <2>1. PICK t : t = Token("NEWLINE", 1)
    OBVIOUS
  <2>2. AtToken /\ input' = input /\ pos' = pos + 1 /\ Push(t) /\ Peek(pos) # Eof
    BY <1>10, <2>1 DEF Newline, NL, Eof
  <2>3. pos <= Len(input)
    BY <1>1, <2>2, PeekIs
  <2>4. t.type = "NEWLINE" /\ t.start = pos /\ t.length = 1
    BY <2>1 DEF Token
  <2>5. t \in TokenSet(input)
    <3>1. 1 \in 0 .. Len(input) /\ pos \in 0 .. Len(input) + 1 /\ line \in 0 .. Len(input) + 1
      BY <1>1, <2>3
    <3> QED BY <2>1, <3>1 DEF Token, TokenSet, TokenTypes
  <2>6. /\ \/ pc' = "skip" /\ tokens' = Append(tokens, t)
           \/ pc' = "crashed" /\ tokens' = tokens
    BY <2>2, <2>5, PushIs DEF IInv, AtToken, Running
  <2>7. pos' = t.start + t.length /\ pos' >= pos /\ pos' \in Nat
    BY <1>1, <2>2, <2>4
  <2> QED BY <2>2, <2>4, <2>5, <2>6, <2>7, SkimmedPushed
<1>11. CASE OtherToken
  <2>1. PICK type, end : type = Scan(pos).type /\ end = Scan(pos).end
    OBVIOUS
  <2>2. PICK t : t = Token(type, end - pos)
    OBVIOUS
  <2>3. AtToken /\ input' = input /\ Push(t) /\ Peek(pos) # Eof /\ Peek(pos) # NL /\ pos' = end
    BY <1>11, <2>1, <2>2 DEF OtherToken
  <2>4. pos \in 1 .. Len(input) /\ input[pos] # NL
    BY <1>1, <2>3, PeekIs
  <2>5. Reads(pos, type, end)
    BY <1>1, <2>1, <2>4, ScanReads
  <2>6. type \in TokenTypes \ {"NEWLINE", "END"} /\ end \in pos + 1 .. Len(input) + 1
    BY <2>5 DEF Reads
  <2>7. t.type = type /\ t.start = pos /\ t.length = end - pos /\ t.type # "END"
    BY <2>2, <2>6 DEF Token
  <2>8. t \in TokenSet(input)
    <3>1. end - pos \in 0 .. Len(input) /\ pos \in 0 .. Len(input) + 1 /\ line \in 0 .. Len(input) + 1
      BY <1>1, <2>4, <2>6
    <3> QED BY <2>2, <2>6, <3>1 DEF Token, TokenSet
  <2>9. /\ \/ pc' = "skip" /\ tokens' = Append(tokens, t)
           \/ pc' = "crashed" /\ tokens' = tokens
    BY <2>3, <2>8, PushIs DEF IInv, AtToken, Running
  <2>10. pos' = t.start + t.length /\ pos' >= pos /\ pos' \in Nat
    BY <1>1, <2>3, <2>6, <2>7
  <2> QED BY <2>3, <2>7, <2>8, <2>9, <2>10, SkimmedPushed
<1>12. CASE End
  <2>1. PICK t : t = [type |-> "END", start |-> 0, length |-> 0, line |-> 0]
    OBVIOUS
  <2>2. /\ AtToken /\ input' = input /\ pos' = pos /\ Peek(pos) = Eof
        /\ \/ pc' = "crashed" /\ tokens' = tokens
           \/ pc' = "done" /\ tokens' = Append(tokens, t)
    BY <1>12, <2>1 DEF End
  <2>3. t \in TokenSet(input) /\ t.type = "END"
    BY <1>1, <2>1 DEF TokenSet, TokenTypes
  <2>4. pos = Len(input) + 1
    <3> SUFFICES ASSUME pos <= Len(input) PROVE FALSE
      BY <1>1
    <3>1. input[pos] \in Chars /\ Peek(pos) = input[pos]
      BY <1>1, ElementOfSeq DEF Texts, Peek
    <3> QED BY <2>2, <3>1, Classes
  <2>5. pos' \in Nat /\ pos' >= pos
    BY <1>1, <2>2
  <2> QED BY <2>2, <2>3, <2>4, <2>5, SkimmedPushed
<1>13. CASE UNCHANGED vars
  <2>1. /\ input' = input /\ tokens' = tokens /\ pc' = pc /\ pos' = pos /\ depth' = depth
        /\ From' = From
    BY <1>13 DEF vars, From
  <2> QED BY <2>1 DEF Skimmed
<1> QED BY <1>3, <1>4, <1>5, <1>6, <1>7, <1>8, <1>9, <1>10, <1>11, <1>12, <1>13 DEF Next

LEMMA InitSkimmed == Init => Skimmed
<1> SUFFICES ASSUME Init PROVE Skimmed
  OBVIOUS
<1>1. IInv
  BY InitHolds
<1>2. Len(input) \in Nat /\ Typed
  BY <1>1, TypedIs DEF IInv
<1>3. pos = 1 /\ tokens = << >> /\ Len(tokens) = 0 /\ pc \in {"shebang", "skip"}
  BY EmptySeq DEF Init
<1>4. pc = "shebang" <=> LineOpens(input)
  BY <1>2 DEF Init, LineOpens, Begin, At
<1>5. Comes(input, From, pos, 0)
  <2>1. PICK a \in Nat : a = 1
    OBVIOUS
  <2>2. Comes(input, a, a, 0)
    BY <1>2, <2>1, ComesFirst
  <2>3. From = 1
    BY <1>3 DEF From, Behind
  <2> QED BY <1>3, <2>1, <2>2, <2>3
<1> QED BY <1>3, <1>4, <1>5 DEF Skimmed

\* The pieces lead somewhere: SkipEnd is where they lead at last.
LEMMA SkipEndIs ==
    ASSUME IInv, NEW a \in 1 .. Len(input) + 1, NEW q, Stops(input, a, q)
    PROVE  SkipEnd(a) = q
<1>1. PICK m \in Nat : m = Len(input)
  BY TypedIs DEF IInv
<1>2. input \in Texts /\ Typed
  BY TypedIs DEF IInv
<1> DEFINE V == [at : 1 .. m + 1, depth : Nat]
<1>3. ASSUME NEW x \in V PROVE Piece(input, x) \in V /\ SkipPiece(x) = Piece(input, x)
  <2>1. PICK i \in 1 .. m + 1, d \in Nat :
            x = Place(i, d) /\ x.at = i /\ x.depth = d /\ i \in Nat /\ d \in Nat
    BY DEF Place
  <2>2. SkipPiece(x) = Piece(input, x)
    <3>1. HasShebang <=> LineOpens(input)
      BY BeginsIs DEF HasShebang, LineOpens
    <3>2. RunEnd(i, Chars \ {NL}) = LineOf(input, i)
          /\ RunEnd(i + 2, Chars \ {NL}) = LineOf(input, i + 2)
      BY LineOfIs
    <3>3. /\ Begins(i, "/", "/") <=> Begin(input, i, "/", "/")
          /\ Begins(i, "/", "*") <=> Begin(input, i, "/", "*")
          /\ Begins(i, "*", "/") <=> Begin(input, i, "*", "/")
          /\ Peek(i) = At(input, i)
      BY BeginsIs, PeekAt
    <3>4. SkipPiece(x) =
             CASE d = 0 /\ i = 1 /\ HasShebang -> Place(RunEnd(i, Chars \ {NL}), 0)
               [] d = 0 /\ Begins(i, "/", "/") -> Place(RunEnd(i + 2, Chars \ {NL}), 0)
               [] Begins(i, "/", "*") -> Place(i + 2, d + 1)
               [] d = 0 /\ Peek(i) \in Spaces -> Place(i + 1, 0)
               [] d > 0 /\ Begins(i, "*", "/") -> Place(i + 2, d - 1)
               [] d > 0 /\ Peek(i) # Eof /\ ~Begins(i, "/", "*") /\ ~Begins(i, "*", "/")
                     -> Place(i + 1, d)
               [] OTHER -> x
      BY <2>1 DEF SkipPiece, Place
    <3>5. Piece(input, x) =
             CASE d = 0 /\ i = 1 /\ LineOpens(input) -> Place(LineOf(input, i), 0)
               [] d = 0 /\ Begin(input, i, "/", "/") -> Place(LineOf(input, i + 2), 0)
               [] Begin(input, i, "/", "*") -> Place(i + 2, d + 1)
               [] d = 0 /\ At(input, i) \in Spaces -> Place(i + 1, 0)
               [] d > 0 /\ Begin(input, i, "*", "/") -> Place(i + 2, d - 1)
               [] d > 0 /\ At(input, i) # Eof /\ ~Begin(input, i, "/", "*")
                     /\ ~Begin(input, i, "*", "/") -> Place(i + 1, d)
               [] OTHER -> x
      BY <2>1 DEF Piece
    <3> QED BY <3>1, <3>2, <3>3, <3>4, <3>5
  <2>3. Eof \notin Chars \ {NL} /\ Eof \notin Spaces
    BY Classes
  <2>4. /\ LineOf(input, i) \in 1 .. m + 1
        /\ i + 2 <= m + 1 => LineOf(input, i + 2) \in 1 .. m + 1
    <3>1. 1 \in 1 .. m + 1 /\ (i + 2 <= m + 1 => i + 2 \in 1 .. m + 1)
      OBVIOUS
    <3>2. RunEnd(i, Chars \ {NL}) \in i .. Len(input) + 1
      BY <1>1, <1>2, <2>3, <3>1, RunEndIs
    <3>3. i + 2 <= m + 1 => RunEnd(i + 2, Chars \ {NL}) \in i + 2 .. Len(input) + 1
      BY <1>1, <1>2, <2>3, <3>1, RunEndIs
    <3>4. LineOf(input, i) \in 1 .. m + 1
      <4>1. PICK e : e = LineOf(input, i)
        OBVIOUS
      <4>2. e \in i .. Len(input) + 1
        BY <3>2, <4>1, LineOfIs
      <4> QED BY <1>1, <4>1, <4>2
    <3>5. ASSUME i + 2 <= m + 1 PROVE LineOf(input, i + 2) \in 1 .. m + 1
      <4>1. PICK e : e = LineOf(input, i + 2)
        OBVIOUS
      <4>2. e \in i + 2 .. Len(input) + 1
        BY <3>3, <3>5, <4>1, LineOfIs
      <4> QED BY <1>1, <4>1, <4>2
    <3> QED BY <3>4, <3>5
  <2>5. /\ At(input, i) # Eof => i + 1 \in 1 .. m + 1
        /\ \A c : Begin(input, i, c, "/") \/ Begin(input, i, c, "*") => i + 2 \in 1 .. m + 1
    BY <1>1 DEF Begin, At, Eof
  <2>6. \A j \in 1 .. m + 1, e \in Nat : Place(j, e) \in V
    BY DEF Place
  <2> HIDE DEF V
  <2>7. CASE d = 0 /\ i = 1 /\ LineOpens(input)
    <3>1. d = 0 /\ i = 1 /\ LineOpens(input) => Piece(input, x) = Place(LineOf(input, i), 0)
      BY <2>1, PieceIs
    <3> QED BY <2>2, <2>4, <2>6, <2>7, <3>1
  <2>8. CASE d = 0 /\ Begin(input, i, "/", "/")
    <3>1. Piece(input, x) = Place(LineOf(input, i + 2), 0)
      BY <2>1, <2>8, PieceIs
    <3>2. i + 2 <= m + 1
      BY <2>5, <2>8
    <3>3. LineOf(input, i + 2) \in 1 .. m + 1
      BY <2>4, <3>2
    <3> QED BY <2>2, <2>6, <3>1, <3>3
  <2>9. CASE Begin(input, i, "/", "*")
    <3>1. Piece(input, x) = Place(i + 2, d + 1)
      BY <2>1, <2>9, PieceIs
    <3>2. i + 2 \in 1 .. m + 1 /\ d + 1 \in Nat
      BY <2>5, <2>9
    <3> QED BY <2>2, <2>6, <3>1, <3>2
  <2>10. CASE d = 0 /\ At(input, i) \in Spaces
    <3>1. Piece(input, x) = Place(i + 1, 0)
      BY <2>1, <2>10, PieceIs
    <3>2. i + 1 \in 1 .. m + 1
      BY <2>3, <2>5, <2>10
    <3> QED BY <2>2, <2>6, <3>1, <3>2
  <2>11. CASE d > 0 /\ Begin(input, i, "*", "/")
    <3>1. Piece(input, x) = Place(i + 2, d - 1)
      BY <2>1, <2>11, PieceIs
    <3>2. i + 2 \in 1 .. m + 1 /\ d - 1 \in Nat
      BY <2>5, <2>11
    <3> QED BY <2>2, <2>6, <3>1, <3>2
  <2>12. CASE d > 0 /\ At(input, i) # Eof /\ ~Begin(input, i, "/", "*") /\ ~Begin(input, i, "*", "/")
    <3>1. Piece(input, x) = Place(i + 1, d)
      BY <2>1, <2>12, PieceIs
    <3>2. i + 1 \in 1 .. m + 1
      BY <2>5, <2>12
    <3> QED BY <2>2, <2>6, <3>1, <3>2
  <2>13. CASE /\ d = 0 => /\ ~(i = 1 /\ LineOpens(input)) /\ ~Begin(input, i, "/", "/")
                         /\ At(input, i) \notin Spaces
              /\ ~Begin(input, i, "/", "*")
              /\ d > 0 => At(input, i) = Eof
    <3>1. Piece(input, x) = x
      BY <2>1, <2>13, PieceIs
    <3> QED BY <2>2, <3>1
  <2>14. Piece(input, x) \in V
    BY <2>7, <2>8, <2>9, <2>10, <2>11, <2>12, <2>13
  <2> QED BY <2>2, <2>14
<1> DEFINE Place_(g) == [n \in 0 .. m |-> IF n = 0 THEN [at |-> a, depth |-> 0]
                                           ELSE SkipPiece(g[n - 1])]
<1>4. PICK g : g = CHOOSE h : h = Place_(h)
  OBVIOUS
<1>5. PICK f : f = Place_(f) /\ f \in [0 .. m -> V]
  <2>1. PICK step : step = [i \in 1 .. m |-> [v \in V |-> SkipPiece(v)]]
    OBVIOUS
  <2>2. \A i \in 1 .. m : \A v \in V : step[i][v] = SkipPiece(v) /\ step[i][v] \in V
    BY <1>3, <2>1
  <2>3. PICK start : start = [at |-> a, depth |-> 0]
    OBVIOUS
  <2>9. start \in V
    <3>1. a \in 1 .. m + 1
      BY <1>1
    <3> QED BY <2>3, <3>1
  <2> HIDE DEF V
  <2>4. Steps(V, start, 0, m, step)
    BY <1>1, <2>2, <2>9 DEF Steps
  <2>5. PICK f : Stepwise(V, start, 0, m, step, f)
    BY <2>4, StepsExist
  <2>6. f \in [0 .. m -> V] /\ \A i \in 0 .. m : f[i] = IF i = 0 THEN start ELSE step[i][f[i - 1]]
    BY <2>5 DEF Stepwise
  <2>7. \A i \in 0 .. m : f[i] = IF i = 0 THEN start ELSE SkipPiece(f[i - 1])
    <3> SUFFICES ASSUME NEW i \in 0 .. m, i # 0 PROVE f[i] = SkipPiece(f[i - 1])
      BY <2>6
    <3>1. i \in 1 .. m /\ i - 1 \in 0 .. m
      BY <1>1
    <3>2. f[i - 1] \in V
      BY <2>6, <3>1
    <3> QED BY <2>2, <2>6, <3>1, <3>2
  <2>8. f = Place_(f)
    BY <2>3, <2>6, <2>7
  <2> QED BY <2>6, <2>8
<1>6. g = Place_(g)
  <2> HIDE DEF Place_
  <2> QED BY <1>4, <1>5, Zenon
<1>7. g[0] = Place(a, 0) /\ \A n \in 1 .. m : g[n] = SkipPiece(g[n - 1])
  <2>1. 0 \in 0 .. m /\ \A n \in 1 .. m : n \in 0 .. m /\ n # 0
    BY <1>1
  <2> QED BY <1>6, <2>1 DEF Place
<1>8. \A n \in 0 .. m : g[n] \in V
  <2> DEFINE T == {n \in 0 .. m : g[n] \notin V}
  <2> SUFFICES ASSUME T # {} PROVE FALSE
    OBVIOUS
  <2>1. PICK n \in T : \A j \in T : n <= j
    <3>1. T \in SUBSET Nat
      BY <1>1
    <3> HIDE DEF T
    <3> QED BY <3>1, LeastNat
  <2>2. n # 0
    <3>1. Place(a, 0) \in V
      BY <1>1 DEF Place
    <3> QED BY <1>7, <3>1
  <2>3. n \in 1 .. m /\ n - 1 \in 0 .. m /\ n - 1 < n
    BY <1>1, <2>2
  <2>4. g[n - 1] \in V
    <3>1. n - 1 \notin T
      BY <2>1, <2>3
    <3> QED BY <2>3, <3>1
  <2>5. g[n] = SkipPiece(g[n - 1])
    BY <1>7, <2>3
  <2> HIDE DEF V
  <2>6. g[n] \in V
    BY <1>3, <2>4, <2>5
  <2> QED BY <2>6
<1>9. Skims(input, a, g)
  <2> SUFFICES ASSUME NEW n \in 1 .. m PROVE g[n] = Piece(input, g[n - 1])
    BY <1>1, <1>7 DEF Skims
  <2>1. n - 1 \in 0 .. m
    BY <1>1
  <2> HIDE DEF V
  <2> QED BY <1>3, <1>7, <1>8, <2>1
<1>10. g[m].at = q
  BY <1>1, <1>9 DEF Stops
<1>11. SkipEnd(a) = g[m].at
  BY <1>1, <1>4 DEF SkipEnd
<1> QED BY <1>10, <1>11

\* No character is lost: every token begins behind the white space, the comments and
\* the #! line that follow the token before it, and END is stored at the end of the
\* file only.
THEOREM NothingLost == Spec => []NoCharLost
<1>1. Spec => []Skimmed
  BY InitSkimmed, SkimmedStep, Inductive, PTL DEF Spec
<1>2. IInv /\ AllSound /\ Skimmed => NoCharLost
  <2> SUFFICES ASSUME IInv, AllSound, Skimmed, NEW k \in DOMAIN tokens
               PROVE  SkipEnd(IF k = 1 THEN 1 ELSE EndOf(k - 1)) =
                        IF tokens[k].type = "END" THEN Len(input) + 1 ELSE tokens[k].start
    BY DEF NoCharLost
  <2>1. tokens \in Seq(Marked) /\ Len(tokens) \in Nat /\ Len(input) \in Nat
    BY TypedIs, LenProperties DEF IInv
  <2>2. k \in 1 .. Len(tokens) /\ k \in 1 .. Len(tokens) + 1
    BY <2>1, LenProperties
  <2>3. PICK a : a = Behind(tokens, k)
    OBVIOUS
  <2>4. a \in 1 .. Len(input) + 1
    <3>1. CASE k = 1
      BY <2>1, <2>3, <3>1 DEF Behind
    <3>2. CASE k # 1
      <4>1. k - 1 \in 1 .. Len(tokens) /\ k - 1 # Len(tokens)
        BY <2>1, <2>2, <3>2
      <4>2. Sound(input, tokens[k - 1]) /\ tokens[k - 1].type # "END"
        BY <4>1 DEF AllSound
      <4>3. 1 <= tokens[k - 1].start /\ tokens[k - 1].start + tokens[k - 1].length <= Len(input) + 1
        BY <4>2 DEF Sound
      <4>4. tokens[k - 1] \in Marked
        BY <2>1, <4>1, ElementOfSeq
      <4>5. PICK b \in Nat, l \in Nat : b = tokens[k - 1].start /\ l = tokens[k - 1].length
        BY <4>4 DEF Marked
      <4>6. a = b + l /\ 1 <= b /\ b + l <= Len(input) + 1
        BY <2>3, <3>2, <4>3, <4>5 DEF Behind
      <4> QED BY <2>1, <4>6
    <3> QED BY <3>1, <3>2
  <2>5. (IF k = 1 THEN 1 ELSE EndOf(k - 1)) = a
    BY <2>3 DEF Behind, EndOf
  <2>6. Stops(input, a, IF tokens[k].type = "END" THEN Len(input) + 1 ELSE tokens[k].start)
    BY <2>2, <2>3 DEF Skimmed, Begun
  <2> QED BY <2>4, <2>5, <2>6, SkipEndIs
<1> QED BY <1>1, <1>2, Inductive, TokensSound, PTL
-----------------------------------------------------------------------------
\* What string_to_int64 makes of the characters of a number.
LEMMA NumeralValue ==
    ASSUME NEW s, NEW a \in Nat, NEW e \in Nat, 1 <= a, a < e, e <= Len(s) + 1, s \in Texts,
           Numeral(s, a, e), NEW text, text = SubSeq(s, a, e - 1)
    PROVE  LET worth == IF IsHexNumber(text) THEN PlaceValue(text, 2, 16)
                        ELSE PlaceValue(text, 0, 10)
           IN  /\ string_to_int64(text) = IF worth <= IntMax THEN <<worth>> ELSE << >>
               /\ \A i \in DOMAIN text : text[i] # "."
<1>1. Len(s) \in Nat
  BY LenProperties DEF Texts
<1>2. text \in Seq(Chars) /\ Len(text) = e - a /\ \A i \in 1 .. e - a : text[i] = s[a + i - 1]
  <2>1. a \in 1 .. Len(s) + 1 /\ e - 1 \in a - 1 .. Len(s)
    BY <1>1
  <2>2. Len(text) = (e - 1) - a + 1 /\ text \in Seq(Chars)
        /\ \A i \in 1 .. (e - 1) - a + 1 : text[i] = s[a + i - 1]
    BY <2>1, SubSeqProperties DEF Texts
  <2>3. (e - 1) - a + 1 = e - a
    OBVIOUS
  <2> QED BY <2>2, <2>3
<1>3. PICK m \in Nat : m = Len(text) /\ m = e - a
  BY <1>2
<1>4. DOMAIN text = 1 .. m
  BY <1>2, <1>3, LenProperties
<1>5. /\ Digits \subseteq DigitsOf(10) /\ HexLetters \subseteq DigitsOf(16)
      /\ {"x", "X"} \cap Digits = {}
  BY LexerAssumption
<1>6. Digits \subseteq DigitsOf(16)
  <2> SUFFICES ASSUME NEW c \in Digits PROVE c \in DigitsOf(16)
    OBVIOUS
  <2>1. c \in DOMAIN DigitValue /\ DigitValue[c] < 10
    BY <1>5 DEF DigitsOf
  <2>2. DigitValue[c] \in 0 .. 15
    BY <2>1, NumbersAssumption
  <2> QED BY <2>1, <2>2 DEF DigitsOf
<1>7. "." \notin Digits \cup HexLetters
  <2>1. "." \in DOMAIN Second
    BY DEF Second
  <2> QED BY <2>1, LexerAssumption
<1>8. CASE \A k \in a .. e - 1 : s[k] \in Digits
  <2>1. \A i \in 1 .. m : text[i] \in Digits
    <3>1. \A i \in 1 .. m : a + i - 1 \in a .. e - 1
      BY <1>3
    <3> QED BY <1>2, <1>3, <1>8, <3>1
  <2>2. ~IsHexNumber(text)
    <3> SUFFICES ASSUME Len(text) > 2, text[2] \in {"x", "X"} PROVE FALSE
      BY DEF IsHexNumber
    <3>1. 2 \in 1 .. m
      BY <1>3
    <3>2. text[2] \in Digits
      BY <2>1, <3>1
    <3> QED BY <1>5, <3>2
  <2>3. Numeric(text, 0, 10)
    <3>1. \A i \in 1 .. m : text[i] \in DigitsOf(10)
      BY <1>5, <2>1
    <3>2. 0 + 1 = 1 /\ 0 \in 0 .. m /\ Len(text) = m
      BY <1>3
    <3>3. \A i \in 0 + 1 .. Len(text) : text[i] \in DigitsOf(10)
      BY <3>1, <3>2
    <3> QED BY <3>2, <3>3 DEF Numeric
  <2>4. PICK w \in Nat : /\ w = PlaceValue(text, 0, 10)
                         /\ Accumulate(text, 0, 10) = IF w <= IntMax THEN w ELSE Refused
    BY <2>3, ValueIs
  <2>5. text # << >>
    BY <1>2, <1>3, EmptySeq
  <2>6. string_to_int64(text) = IF w <= IntMax THEN <<w>> ELSE << >>
    <3>1. string_to_int64(text) =
              IF Accumulate(text, 0, 10) = Refused THEN << >> ELSE <<Accumulate(text, 0, 10)>>
      BY <2>2, <2>5 DEF string_to_int64
    <3>2. w # Refused
      BY DEF Refused
    <3> QED BY <2>4, <3>1, <3>2
  <2>7. \A i \in DOMAIN text : text[i] # "."
    BY <1>4, <1>7, <2>1
  <2> QED BY <2>2, <2>4, <2>6, <2>7
<1>9. CASE /\ s[a] = "0" /\ s[a + 1] \in {"x", "X"} /\ a + 2 < e
           /\ \A k \in a + 2 .. e - 1 : s[k] \in Digits \cup HexLetters
  <2>1. m > 2 /\ text[1] = "0" /\ text[2] \in {"x", "X"}
    <3>1. 1 \in 1 .. e - a /\ 2 \in 1 .. e - a /\ a + 1 - 1 = a /\ a + 2 - 1 = a + 1
      BY <1>9
    <3>2. text[1] = s[a] /\ text[2] = s[a + 1]
      BY <1>2, <3>1
    <3> QED BY <1>3, <1>9, <3>2
  <2>2. IsHexNumber(text) /\ text # << >>
    BY <1>3, <2>1, EmptySeq DEF IsHexNumber
  <2>3. \A i \in 3 .. m : text[i] \in Digits \cup HexLetters
    <3>1. \A i \in 3 .. m : i \in 1 .. m /\ a + i - 1 \in a + 2 .. e - 1
      BY <1>3
    <3> QED BY <1>2, <1>3, <1>9, <3>1
  <2>4. Numeric(text, 2, 16)
    <3>1. \A i \in 3 .. m : text[i] \in DigitsOf(16)
      BY <1>5, <1>6, <2>3
    <3> QED BY <1>3, <2>1, <3>1 DEF Numeric
  <2>5. PICK w \in Nat : /\ w = PlaceValue(text, 2, 16)
                         /\ Accumulate(text, 2, 16) = IF w <= IntMax THEN w ELSE Refused
    BY <2>4, ValueIs
  <2>6. string_to_int64(text) = IF w <= IntMax THEN <<w>> ELSE << >>
    <3>1. string_to_int64(text) =
              IF Accumulate(text, 2, 16) = Refused THEN << >> ELSE <<Accumulate(text, 2, 16)>>
      BY <2>2 DEF string_to_int64
    <3>2. w # Refused
      BY DEF Refused
    <3> QED BY <2>5, <3>1, <3>2
  <2>7. \A i \in DOMAIN text : text[i] # "."
    <3> SUFFICES ASSUME NEW i \in 1 .. m PROVE text[i] # "."
      BY <1>4
    <3>1. i = 1 \/ i = 2 \/ i \in 3 .. m
      OBVIOUS
    <3> QED BY <1>7, <2>1, <2>3, <3>1
  <2> QED BY <2>2, <2>5, <2>6, <2>7
<1> QED BY <1>8, <1>9 DEF Numeral

\* A number token is taken for what its digits are worth, or refused when that is more
\* than the greatest number; no number token is taken for a double.
THEOREM NumbersRight == Spec => []NumbersExact
<1>1. IInv /\ AllSound => NumbersExact
  <2> SUFFICES ASSUME IInv, AllSound, NEW k \in TextTokens, tokens[k].type = "NUM"
               PROVE  LET text == SubSeq(input, tokens[k].start, EndOf(k) - 1)
                          worth == IF IsHexNumber(text) THEN PlaceValue(text, 2, 16)
                                   ELSE PlaceValue(text, 0, 10)
                      IN  /\ string_to_int64(text) = IF worth <= IntMax THEN <<worth>> ELSE << >>
                          /\ \A i \in DOMAIN text : text[i] # "."
    BY DEF NumbersExact
  <2>1. k \in 1 .. Len(tokens) /\ tokens \in Seq(Marked) /\ input \in Texts
    BY TextTokenIs, TypedIs DEF IInv
  <2>2. tokens[k] \in Marked
    BY <2>1, ElementOfSeq
  <2>3. PICK a \in Nat, e \in Nat : a = tokens[k].start /\ e = EndOf(k)
    BY <2>2 DEF Marked, EndOf
  <2>4. 1 <= a /\ a < e /\ e <= Len(input) + 1 /\ Numeral(input, a, e)
    <3>1. Sound(input, tokens[k])
      BY <2>1 DEF AllSound
    <3>2. tokens[k].length \in Nat /\ tokens[k].start \in Nat
      BY <2>2 DEF Marked
    <3> QED BY <2>3, <3>1, <3>2 DEF Sound, EndOf
  <2> DEFINE text == SubSeq(input, a, e - 1)
  <2> QED BY <2>1, <2>3, <2>4, NumeralValue
<1> QED BY <1>1, Inductive, TokensSound, PTL
-----------------------------------------------------------------------------
(* Which line a token stands in.                                             *)

\* The newlines of s before q.
Before(s, q) == {j \in 1 .. q - 1 : s[j] = NL}

LEMMA BeforeIs ==
    ASSUME NEW s, NEW i \in Nat, NEW q \in Nat, 1 <= i, i <= q
    PROVE  /\ Cardinality(Before(s, i)) \in Nat /\ Cardinality(Before(s, q)) \in Nat
           /\ Cardinality(Before(s, i)) <= Cardinality(Before(s, q))
           /\ (\A j \in i .. q - 1 : s[j] # NL)
                 => Cardinality(Before(s, i)) = Cardinality(Before(s, q))
           /\ (\E j \in i .. q - 1 : s[j] = NL)
                 => Cardinality(Before(s, i)) < Cardinality(Before(s, q))
<1>1. Before(s, q) = Before(s, i) \cup {j \in i .. q - 1 : s[j] = NL}
  <2>1. \A j : j \in 1 .. q - 1 <=> j \in 1 .. i - 1 \/ j \in i .. q - 1
    OBVIOUS
  <2> QED BY <2>1 DEF Before
<1>2. Before(s, i) \cap {j \in i .. q - 1 : s[j] = NL} = {}
  <2>1. \A j : ~(j \in 1 .. i - 1 /\ j \in i .. q - 1)
    OBVIOUS
  <2> QED BY <2>1 DEF Before
<1>3. IsFiniteSet(Before(s, i)) /\ IsFiniteSet(Before(s, q))
  <2>1. \A k \in Nat : IsFiniteSet(Before(s, k))
    <3> SUFFICES ASSUME NEW k \in Nat PROVE IsFiniteSet(Before(s, k))
      OBVIOUS
    <3>1. IsFiniteSet(1 .. k - 1)
      BY FS_Interval
    <3>2. Before(s, k) \in SUBSET (1 .. k - 1)
      BY DEF Before
    <3> QED BY <3>1, <3>2, FS_Subset
  <2> QED BY <2>1
<1>4. Cardinality(Before(s, i)) \in Nat /\ Cardinality(Before(s, q)) \in Nat
  BY <1>3, FS_CardinalityType
<1>5. Before(s, i) \in SUBSET Before(s, q)
  BY <1>1
<1>6. /\ Cardinality(Before(s, i)) <= Cardinality(Before(s, q))
      /\ Cardinality(Before(s, i)) = Cardinality(Before(s, q)) => Before(s, i) = Before(s, q)
  BY <1>3, <1>5, FS_Subset
<1>7. ASSUME \A j \in i .. q - 1 : s[j] # NL PROVE Before(s, i) = Before(s, q)
  BY <1>1, <1>7
<1>8. ASSUME \E j \in i .. q - 1 : s[j] = NL PROVE Before(s, i) # Before(s, q)
  BY <1>1, <1>2, <1>8
<1>9. (\E j \in i .. q - 1 : s[j] = NL) => Cardinality(Before(s, i)) < Cardinality(Before(s, q))
  BY <1>4, <1>6, <1>8
<1> QED BY <1>4, <1>6, <1>7, <1>9

LEMMA LineStartIs ==
    ASSUME NEW q \in Nat, 1 <= q
    PROVE  /\ LineStart(q) \in 1 .. q
           /\ LineStart(q) = 1 \/ input[LineStart(q) - 1] = NL
           /\ \A n \in LineStart(q) .. q - 1 : input[n] # NL
<1> DEFINE T == {j \in 1 .. q : NewlinesIn(j .. q - 1) = {}}
<1>1. q \in T
  <2>1. q .. q - 1 = {}
    OBVIOUS
  <2> QED BY <2>1 DEF NewlinesIn
<1>2. PICK x \in T : \A y \in T : x <= y
  <2>1. T \in SUBSET Nat /\ T # {}
    BY <1>1
  <2> HIDE DEF T
  <2> QED BY <2>1, LeastNat
<1>3. x \in 1 .. q /\ NewlinesIn(x .. q - 1) = {}
  OBVIOUS
<1>4. x = 1 \/ input[x - 1] = NL
  <2> SUFFICES ASSUME x # 1, input[x - 1] # NL PROVE FALSE
    OBVIOUS
  <2>1. x - 1 \in 1 .. q /\ x - 1 < x
    BY <1>3
  <2>2. \A n \in x - 1 .. q - 1 : n = x - 1 \/ n \in x .. q - 1
    BY <1>3
  <2>3. NewlinesIn(x - 1 .. q - 1) = {}
    BY <1>3, <2>2 DEF NewlinesIn
  <2>4. x - 1 \in T
    BY <2>1, <2>3
  <2> QED BY <1>2, <1>3, <2>1, <2>4
<1>5. \E j \in 1 .. q : (j = 1 \/ input[j - 1] = NL) /\ NewlinesIn(j .. q - 1) = {}
  BY <1>3, <1>4
<1>6. /\ LineStart(q) \in 1 .. q /\ (LineStart(q) = 1 \/ input[LineStart(q) - 1] = NL)
      /\ NewlinesIn(LineStart(q) .. q - 1) = {}
  BY <1>5 DEF LineStart
<1> QED BY <1>6 DEF NewlinesIn

\* The line after the newlines before q is found where q's line starts, unless that
\* is behind the last character: then the first line is found.
LEMMA SourceLineIs ==
    ASSUME input \in Texts, NEW q \in 1 .. Len(input) + 1, NEW first, first = LineStart(q)
    PROVE  source_line(1 + Cardinality(Before(input, q))) =
               IF first = Len(input) + 1 THEN <<1, RunEnd(1, Chars \ {NL})>>
               ELSE <<first, RunEnd(first, Chars \ {NL})>>
<1>1. Len(input) \in Nat /\ DOMAIN input = 1 .. Len(input)
  BY LenProperties DEF Texts
<1>2. PICK L \in 1 .. q : L = first
  BY <1>1, LineStartIs
<1>3. (L = 1 \/ input[L - 1] = NL) /\ \A n \in L .. q - 1 : input[n] # NL
  <2>1. q \in Nat /\ 1 <= q
    BY <1>1
  <2>2. /\ LineStart(q) = 1 \/ input[LineStart(q) - 1] = NL
        /\ \A n \in LineStart(q) .. q - 1 : input[n] # NL
    BY <2>1, LineStartIs
  <2> QED BY <1>2, <2>2
<1>4. PICK lines \in Nat : lines = Cardinality(Before(input, q))
  <2>1. q \in Nat /\ 1 <= q /\ q <= q
    BY <1>1
  <2> QED BY <2>1, BeforeIs
<1>5. Cardinality(Before(input, L)) = lines
  <2>1. L \in Nat /\ q \in Nat /\ 1 <= L /\ L <= q
    BY <1>1, <1>2
  <2> QED BY <1>3, <1>4, <2>1, BeforeIs
<1>6. ASSUME NEW i \in 1 .. Len(input), i < L PROVE Cardinality(Before(input, i)) # lines
  <2>1. L - 1 \in i .. L - 1 /\ input[L - 1] = NL
    BY <1>1, <1>2, <1>3, <1>6
  <2>2. i \in Nat /\ L \in Nat /\ 1 <= i /\ i <= L
    BY <1>1, <1>2, <1>6
  <2>3. /\ Cardinality(Before(input, i)) < Cardinality(Before(input, L))
        /\ Cardinality(Before(input, i)) \in Nat
    BY <2>1, <2>2, BeforeIs
  <2> QED BY <1>5, <2>3
<1> DEFINE begin == {i \in DOMAIN input : Cardinality(Before(input, i)) + 1 = 1 + lines}
           start == IF begin = {} THEN 1 ELSE CHOOSE i \in begin : \A j \in begin : i <= j
<1>7. \A i \in begin : i \in 1 .. Len(input) /\ L <= i
  <2> SUFFICES ASSUME NEW i \in 1 .. Len(input), Cardinality(Before(input, i)) + 1 = 1 + lines,
                      i < L
               PROVE  FALSE
    BY <1>1, <1>2
  <2>1. Cardinality(Before(input, i)) \in Nat
    <3>1. i \in Nat /\ 1 <= i /\ i <= i
      BY <1>1
    <3> QED BY <3>1, BeforeIs
  <2>2. Cardinality(Before(input, i)) = lines
    BY <2>1
  <2> QED BY <1>6, <2>2
<1>8. start = IF L = Len(input) + 1 THEN 1 ELSE L
  <2>1. CASE L = Len(input) + 1
    <3>1. begin = {}
      BY <1>1, <1>7, <2>1
    <3> QED BY <2>1, <3>1
  <2>2. CASE L # Len(input) + 1
    <3>1. L \in begin
      BY <1>1, <1>2, <1>5, <2>2
    <3>2. L = CHOOSE i \in begin : \A j \in begin : i <= j
      <4>1. \A i, j \in begin : i <= j /\ j <= i => i = j
        BY <1>1, <1>7
      <4>2. \A i \in begin : L <= i
        BY <1>7
      <4> HIDE DEF begin
      <4>3. PICK i \in begin : i = (CHOOSE x \in begin : \A j \in begin : x <= j) /\ \A j \in begin : i <= j
        BY <3>1, <4>2
      <4> QED BY <3>1, <4>1, <4>2, <4>3
    <3> QED BY <2>2, <3>1, <3>2
  <2> QED BY <2>1, <2>2
<1>9. ~(Cardinality(Before(input, Len(input) + 1)) + 1 < 1 + lines)
  <2>1. q \in Nat /\ Len(input) + 1 \in Nat /\ 1 <= q /\ q <= Len(input) + 1
    BY <1>1
  <2>2. /\ Cardinality(Before(input, q)) <= Cardinality(Before(input, Len(input) + 1))
        /\ Cardinality(Before(input, Len(input) + 1)) \in Nat
    BY <2>1, BeforeIs
  <2> QED BY <1>4, <2>2
<1>10. source_line(1 + lines) =
          IF Cardinality(Before(input, Len(input) + 1)) + 1 < 1 + lines THEN << >>
          ELSE <<start, RunEnd(start, Chars \ {NL})>>
  BY DEF source_line, Before
<1>11. source_line(1 + lines) = <<start, RunEnd(start, Chars \ {NL})>>
  BY <1>9, <1>10
<1> HIDE DEF start
<1> QED BY <1>2, <1>4, <1>8, <1>11

\* A token's line, as it is printed, is the line it stands in, or the first one for the
\* empty line at the end, unless a string before it held newlines.
THEOREM LinesFound == Spec => []SourceLines
<1>1. IInv /\ AllSound => SourceLines
  <2> SUFFICES ASSUME IInv, AllSound, NEW k \in 1 .. Len(tokens) - 1, ~LinesAfterString(k)
               PROVE  source_line(tokens[k].line) =
                          IF EmptyLastLine(k) THEN LineAt(1) ELSE LineAt(tokens[k].start)
    BY DEF SourceLines
  <2>1. /\ tokens \in Seq(Marked) /\ input \in Texts /\ Len(input) \in Nat /\ Len(tokens) \in Nat
        /\ DOMAIN tokens = 1 .. Len(tokens) /\ tokens \in Seq(TokenSet(input))
    <3>1. /\ tokens \in Seq(Marked) /\ input \in Texts /\ Len(input) \in Nat
          /\ tokens \in Seq(TokenSet(input))
      BY TypedIs DEF IInv
    <3>2. Len(tokens) \in Nat /\ DOMAIN tokens = 1 .. Len(tokens)
      BY <3>1, LenProperties
    <3> QED BY <3>1, <3>2
  <2>2. k \in 1 .. Len(tokens) /\ k # Len(tokens)
    <3>1. Len(tokens) \in Nat
      BY <2>1
    <3> QED BY <3>1
  <2>3. k \in TextTokens
    BY <2>1, <2>2 DEF TextTokens, AllSound
  <2>4. PICK q \in 1 .. Len(input) + 1 : q = tokens[k].start
    <3>1. tokens[k] \in TokenSet(input)
      BY <2>1, <2>2, ElementOfSeq
    <3>2. 1 <= tokens[k].start
      BY <2>2, <2>1, <2>3 DEF AllSound, Sound, TextTokens
    <3>3. tokens[k].start \in 0 .. Len(input) + 1
      BY <3>1 DEF TokenSet
    <3> QED BY <2>1, <3>2, <3>3
  <2>5. tokens[k].line = 1 + Cardinality(Counted(input, tokens, k, q))
    BY <2>3, <2>4, TextTokenIs DEF Right
  <2>6. Counted(input, tokens, k, q) = Before(input, q)
    <3>1. ASSUME NEW n, input[n] = NL, n \in InStrings(tokens, k) PROVE FALSE
      <4>1. PICK j \in 1 .. k - 1 : /\ tokens[j].type = "STRING"
                                    /\ n \in tokens[j].start .. EndOf(j) - 1
        BY <3>1 DEF InStrings, EndOf
      <4>2. n \in NewlinesIn(tokens[j].start .. EndOf(j) - 1)
        BY <3>1, <4>1 DEF NewlinesIn
      <4> QED BY <4>1, <4>2 DEF LinesAfterString
    <3> QED BY <3>1 DEF Counted, Before
  <2>7. PICK L : L = LineStart(q)
    OBVIOUS
  <2>8. L \in 1 .. q /\ L \in Nat /\ L <= Len(input) + 1
    <3>1. q \in Nat /\ 1 <= q
      BY <2>1
    <3>2. L \in 1 .. q
      BY <2>7, <3>1, LineStartIs
    <3> QED BY <2>1, <3>2
  <2>9. source_line(tokens[k].line) =
            IF L = Len(input) + 1 THEN <<1, RunEnd(1, Chars \ {NL})>>
            ELSE <<L, RunEnd(L, Chars \ {NL})>>
    BY <2>1, <2>5, <2>6, <2>7, SourceLineIs
  <2>10. LineAt(q) = <<L, RunEnd(L, Chars \ {NL})>>
    BY <2>7 DEF LineAt
  <2>11. LineAt(1) = <<1, RunEnd(1, Chars \ {NL})>>
    <3>1. LineStart(1) \in 1 .. 1
      BY LineStartIs
    <3>2. LineStart(1) = 1
      BY <3>1
    <3> QED BY <3>2 DEF LineAt
  <2>12. EmptyLastLine(k) <=> L = Len(input) + 1
    <3>1. ASSUME EmptyLastLine(k) PROVE L = Len(input) + 1
      <4>1. <<L, RunEnd(L, Chars \ {NL})>> = <<Len(input) + 1, Len(input) + 1>>
        BY <2>4, <2>10, <3>1 DEF EmptyLastLine
      <4> QED BY <4>1
    <3>2. ASSUME L = Len(input) + 1 PROVE EmptyLastLine(k)
      <4>1. q = Len(input) + 1
        BY <2>1, <2>8, <3>2
      <4>2. RunEnd(L, Chars \ {NL}) \in L .. Len(input) + 1
        <5>1. L \in 1 .. Len(input) + 1
          BY <2>1, <2>8
        <5>2. Eof \notin Chars \ {NL}
          BY Classes
        <5> QED BY <2>1, <5>1, <5>2, RunEndIs
      <4>3. RunEnd(L, Chars \ {NL}) = Len(input) + 1
        BY <2>1, <3>2, <4>2
      <4> QED BY <2>4, <2>10, <3>2, <4>1, <4>3 DEF EmptyLastLine
    <3> QED BY <3>1, <3>2
  <2> QED BY <2>4, <2>9, <2>10, <2>11, <2>12
<1> QED BY <1>1, Inductive, TokensSound, PTL
=============================================================================
