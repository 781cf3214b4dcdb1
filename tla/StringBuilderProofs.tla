------------------------- MODULE StringBuilderProofs -------------------------
(***************************************************************************)
(* For every capacity, every length of what is written and every number of *)
(* calls: the string builder stays within its buffer, cuts nothing off and *)
(* leaves out nothing that would have left a byte free.                    *)
(*                                                                         *)
(* Every function of the builder comes to the same: it writes the first    *)
(* n bytes of what it was asked for. CallKeeps says of which n the         *)
(* invariant is kept; the lemmas about the functions find that n.          *)
(***************************************************************************)
EXTENDS StringBuilder, SequenceTheorems, TLAPS

\* Each byte is of a call that was made.
Numbered == \A i \in DOMAIN text : text[i][1] \in 1 .. Len(calls)

IInv == TypeOK /\ WithinBuffer /\ Numbered /\ WholePieces /\ LeftOutOnlyWhenTight

Bytes == (1 .. MaxCalls) \X (1 .. MaxLength + 1)

\* The first n bytes of call k.
Piece(k, n) == [i \in 1 .. n |-> <<k, i>>]

\* PlacesOf, of any text.
Places(s, k) == {s[i][2] : i \in {j \in DOMAIN s : s[j][1] = k}}

Tight(r) == remaining <= r.sign + r.len /\ (r.kind = "string" => remaining < r.sign + r.len)

LEMMA Bounds == /\ Capacities \subseteq Nat
                /\ MaxLength \in Nat /\ MaxCalls \in Nat /\ TempSize \in Nat
BY StringBuilderAssumption DEF StringBuilderAssumption
-----------------------------------------------------------------------------
LEMMA PieceIsText ==
    ASSUME NEW k \in 1 .. MaxCalls, NEW n \in 0 .. MaxLength + 1
    PROVE  /\ Piece(k, n) \in Seq(Bytes) /\ Len(Piece(k, n)) = n
           /\ \A i \in 1 .. n : Piece(k, n)[i] = <<k, i>>
<1>1. n \in Nat /\ Piece(k, n) \in [1 .. n -> Bytes]
  BY Bounds DEF Piece, Bytes
<1>2. Piece(k, n) \in Seq(Bytes)
  BY <1>1
<1>3. DOMAIN Piece(k, n) = 1 .. n
  BY <1>1
<1> QED BY <1>1, <1>2, <1>3 DEF Piece

\* The bytes of the earlier calls stay where they are, those of the piece follow.
LEMMA PlacesAfter ==
    ASSUME NEW s \in Seq(Bytes), NEW c \in 0 .. MaxCalls - 1, NEW n \in 0 .. MaxLength + 1,
           \A i \in DOMAIN s : s[i][1] \in 1 .. c
    PROVE  /\ s \o Piece(c + 1, n) \in Seq(Bytes)
           /\ Len(s \o Piece(c + 1, n)) = Len(s) + n
           /\ \A i \in DOMAIN (s \o Piece(c + 1, n)) :
                 (s \o Piece(c + 1, n))[i][1] \in 1 .. c + 1
           /\ \A k \in 1 .. c : Places(s \o Piece(c + 1, n), k) = Places(s, k)
           /\ Places(s \o Piece(c + 1, n), c + 1) = 1 .. n
<1>0. PICK t : t = s \o Piece(c + 1, n)
  OBVIOUS
<1>1. c \in Nat /\ c + 1 \in 1 .. MaxCalls /\ n \in Nat
  BY Bounds
<1>2. PICK p \in Seq(Bytes) : p = Piece(c + 1, n)
  BY <1>1, PieceIsText
<1>3. Len(p) = n /\ \A i \in 1 .. n : p[i] = <<c + 1, i>>
  BY <1>1, <1>2, PieceIsText
<1>4. t = s \o p
  BY <1>0, <1>2
<1>5. /\ Len(s) \in Nat /\ DOMAIN s = 1 .. Len(s)
      /\ t \in Seq(Bytes) /\ Len(t) = Len(s) + n /\ DOMAIN t = 1 .. Len(s) + n
  <2>1. s \o p \in Seq(Bytes) /\ Len(s \o p) = Len(s) + Len(p)
    BY ConcatProperties
  <2> QED BY <1>3, <1>4, <2>1, LenProperties
<1>6. \A i \in 1 .. Len(s) : t[i] = s[i]
  BY <1>3, <1>4, <1>5
<1>7. \A i \in 1 .. n : t[Len(s) + i][1] = c + 1 /\ t[Len(s) + i][2] = i
  <2> SUFFICES ASSUME NEW i \in 1 .. n
               PROVE  t[Len(s) + i][1] = c + 1 /\ t[Len(s) + i][2] = i
    OBVIOUS
  <2>1. t[Len(s) + i] = p[i]
    BY <1>1, <1>3, <1>4, <1>5
  <2> QED BY <2>1, <1>3
<1>8. \A i \in DOMAIN t : i \in 1 .. Len(s) \/ \E h \in 1 .. n : i = Len(s) + h
  <2> SUFFICES ASSUME NEW i \in DOMAIN t, i \notin 1 .. Len(s)
               PROVE  \E h \in 1 .. n : i = Len(s) + h
    OBVIOUS
  <2>1. i - Len(s) \in 1 .. n /\ i = Len(s) + (i - Len(s))
    BY <1>1, <1>5
  <2> QED BY <2>1
<1>9. \A h \in 1 .. n : Len(s) + h \in DOMAIN t
  BY <1>1, <1>5
<1>10. 1 .. Len(s) \subseteq DOMAIN t
  BY <1>1, <1>5
<1>11. \A i \in DOMAIN t : t[i][1] \in 1 .. c + 1
  <2> SUFFICES ASSUME NEW i \in DOMAIN t PROVE t[i][1] \in 1 .. c + 1
    OBVIOUS
  <2>1. CASE i \in 1 .. Len(s)
    <3>1. t[i] = s[i] /\ s[i][1] \in 1 .. c
      BY <1>5, <1>6, <2>1
    <3> QED BY <1>1, <3>1
  <2>2. CASE \E h \in 1 .. n : i = Len(s) + h
    <3>1. t[i][1] = c + 1
      BY <1>7, <2>2
    <3> QED BY <1>1, <3>1
  <2> QED BY <1>8, <2>1, <2>2
<1>12. \A i \in 1 .. Len(s) : t[i][1] # c + 1
  BY <1>1, <1>5, <1>6
<1>13. ASSUME NEW k \in 1 .. c PROVE Places(t, k) = Places(s, k)
  <2>1. k # c + 1
    BY <1>1
  <2>2. {j \in DOMAIN t : t[j][1] = k} = {j \in DOMAIN s : s[j][1] = k}
    <3>1. ASSUME NEW j \in DOMAIN t, t[j][1] = k PROVE j \in DOMAIN s /\ s[j][1] = k
      <4>1. j \in 1 .. Len(s)
        <5>1. ASSUME NEW h \in 1 .. n, j = Len(s) + h PROVE FALSE
          <6>1. t[j][1] = c + 1
            BY <1>7, <5>1
          <6> QED BY <2>1, <3>1, <6>1
        <5> QED BY <1>8, <5>1
      <4> QED BY <1>5, <1>6, <3>1, <4>1
    <3>2. ASSUME NEW j \in DOMAIN s, s[j][1] = k PROVE j \in DOMAIN t /\ t[j][1] = k
      BY <1>5, <1>6, <1>10, <3>2
    <3> QED BY <3>1, <3>2
  <2> QED BY <2>2, <1>5, <1>6 DEF Places
<1>14. Places(t, c + 1) = 1 .. n
  <2>1. ASSUME NEW x \in Places(t, c + 1) PROVE x \in 1 .. n
    <3>1. PICK i \in DOMAIN t : t[i][1] = c + 1 /\ x = t[i][2]
      BY <2>1 DEF Places
    <3>2. PICK h \in 1 .. n : i = Len(s) + h
      BY <1>8, <1>12, <3>1
    <3>3. t[i][2] = h
      BY <1>7, <3>2
    <3> QED BY <3>1, <3>3
  <2>2. ASSUME NEW h \in 1 .. n PROVE h \in Places(t, c + 1)
    <3>1. /\ Len(s) + h \in DOMAIN t
          /\ t[Len(s) + h][1] = c + 1 /\ t[Len(s) + h][2] = h
      BY <1>7, <1>9
    <3> QED BY <3>1 DEF Places
  <2> QED BY <2>1, <2>2
<1> QED BY <1>0, <1>5, <1>11, <1>13, <1>14
-----------------------------------------------------------------------------
LEMMA InitIInv == Init => IInv
<1> SUFFICES ASSUME Init PROVE IInv
  OBVIOUS
<1>1. capacity \in Nat /\ text = << >> /\ calls = << >> /\ fault = "none"
  BY Bounds DEF Init
<1>2. TypeOK
  BY <1>1, EmptySeq DEF Init, TypeOK
<1>3. WithinBuffer /\ Numbered
  BY <1>1 DEF WithinBuffer, Numbered
<1>4. WholePieces /\ LeftOutOnlyWhenTight
  BY <1>1 DEF WholePieces, LeftOutOnlyWhenTight
<1> QED BY <1>2, <1>3, <1>4 DEF IInv

\* What is asked for is never longer than the longest text, or a sign more.
LEMMA RequestIs ==
    ASSUME NEW r \in Requests
    PROVE  /\ r.kind \in {"string", "char", "zero", "int", "u64"}
           /\ r.sign \in {0, 1} /\ r.len \in Nat /\ r.sign + r.len \in 0 .. MaxLength + 1
           /\ r.kind \in {"string", "char", "zero", "u64"} => r.sign = 0
           /\ r.kind \in {"char", "zero"} => r.len = 1
BY Bounds DEF Requests

\* A call that writes n bytes keeps the invariant when they fit, and are all it
\* was asked for, or it had to leave something out and wrote the sign or nothing.
LEMMA CallKeeps ==
    ASSUME IInv, NEW r \in Requests, Asked(r), NEW n \in 0 .. r.sign + r.len,
           text' = text \o Piece(Len(calls) + 1, n),
           n <= remaining,
           n \in {0, r.sign, r.sign + r.len},
           fault' \in {"none", "null", "stack"}, fault' = "null" => capacity = 0,
           n = r.sign + r.len \/ Tight(r) \/ fault' # "none"
    PROVE  IInv'
<1>1. /\ r.kind \in {"string", "char", "zero", "int", "u64"} /\ r.sign \in {0, 1}
      /\ r.len \in Nat /\ r.sign + r.len \in 0 .. MaxLength + 1
  BY RequestIs
<1>2. /\ capacity' = capacity /\ capacity \in Nat /\ capacity \in Capacities /\ fault = "none"
      /\ text \in Seq(Bytes) /\ Len(text) \in Nat /\ Len(text) <= capacity
      /\ calls \in Seq([want : 0 .. MaxLength + 1, sign : {0, 1}, room : Nat,
                        kind : {"string", "char", "zero", "int", "u64"}])
      /\ Len(calls) \in 0 .. MaxCalls - 1 /\ Len(calls) \in Nat
  BY Bounds, LenProperties DEF IInv, TypeOK, WithinBuffer, Asked, Bytes
<1>3. n \in 0 .. MaxLength + 1 /\ n \in Nat /\ remaining \in Nat
  BY <1>1, <1>2, Bounds DEF remaining
<1>4. PICK call : call = [want |-> r.sign + r.len, sign |-> r.sign, kind |-> r.kind,
                          room |-> remaining]
  OBVIOUS
<1>5. /\ calls' = Append(calls, call)
      /\ call \in [want : 0 .. MaxLength + 1, sign : {0, 1}, room : Nat,
                   kind : {"string", "char", "zero", "int", "u64"}]
      /\ call.want = r.sign + r.len /\ call.sign = r.sign /\ call.kind = r.kind
      /\ call.room = remaining
  BY <1>1, <1>3, <1>4 DEF Asked
<1>6. /\ calls' \in Seq([want : 0 .. MaxLength + 1, sign : {0, 1}, room : Nat,
                         kind : {"string", "char", "zero", "int", "u64"}])
      /\ Len(calls') = Len(calls) + 1 /\ DOMAIN calls' = 1 .. Len(calls) + 1
      /\ calls'[Len(calls) + 1] = call
      /\ \A k \in 1 .. Len(calls) : calls'[k] = calls[k]
  BY <1>2, <1>5, AppendProperties
<1>7. /\ text' \in Seq(Bytes) /\ Len(text') = Len(text) + n
      /\ \A i \in DOMAIN text' : text'[i][1] \in 1 .. Len(calls) + 1
      /\ \A k \in 1 .. Len(calls) : Places(text', k) = Places(text, k)
      /\ Places(text', Len(calls) + 1) = 1 .. n
  <2>1. PICK s \in Seq(Bytes) : s = text
    BY <1>2
  <2>2. PICK c \in 0 .. MaxCalls - 1 : c = Len(calls)
    BY <1>2
  <2>3. text' = s \o Piece(c + 1, n)
    BY <2>1, <2>2
  <2>4. \A i \in DOMAIN s : s[i][1] \in 1 .. c
    BY <2>1, <2>2 DEF IInv, Numbered
  <2>5. /\ text' \in Seq(Bytes) /\ Len(text') = Len(s) + n
        /\ \A i \in DOMAIN text' : text'[i][1] \in 1 .. c + 1
        /\ \A k \in 1 .. c : Places(text', k) = Places(s, k)
        /\ Places(text', c + 1) = 1 .. n
    <3>1. PICK t : t = s \o Piece(c + 1, n)
      OBVIOUS
    <3>2. /\ t \in Seq(Bytes) /\ Len(t) = Len(s) + n
          /\ \A i \in DOMAIN t : t[i][1] \in 1 .. c + 1
          /\ \A k \in 1 .. c : Places(t, k) = Places(s, k)
          /\ Places(t, c + 1) = 1 .. n
      BY <1>3, <2>4, <3>1, PlacesAfter
    <3>3. t = text'
      BY <2>3, <3>1
    <3> QED BY <3>2, <3>3
  <2> QED BY <2>1, <2>2, <2>5
<1>8. TypeOK'
  BY <1>2, <1>6, <1>7 DEF TypeOK, Bytes
<1>9. WithinBuffer'
  BY <1>2, <1>3, <1>7 DEF WithinBuffer, remaining
<1>10. Numbered'
  BY <1>6, <1>7 DEF Numbered
<1>11. WholePieces'
  <2> SUFFICES ASSUME NEW k \in 1 .. Len(calls) + 1
               PROVE  Places(text', k) \in {{}, 1 .. calls'[k].want, 1 .. calls'[k].sign}
    BY <1>6 DEF WholePieces, PlacesOf, Places
  <2>1. CASE k = Len(calls) + 1
    <3>1. n = 0 => 1 .. n = {}
      OBVIOUS
    <3> QED BY <1>5, <1>6, <1>7, <2>1, <3>1
  <2>2. CASE k \in 1 .. Len(calls)
    BY <1>2, <1>6, <1>7, <2>2, LenProperties DEF IInv, WholePieces, PlacesOf, Places
  <2> QED BY <1>2, <2>1, <2>2
<1>12. LeftOutOnlyWhenTight'
  <2> SUFFICES ASSUME NEW k \in 1 .. Len(calls) + 1
               PROVE  \/ Places(text', k) = 1 .. calls'[k].want
                      \/ /\ calls'[k].room <= calls'[k].want
                         /\ calls'[k].kind = "string" => calls'[k].room < calls'[k].want
                      \/ fault' # "none" /\ k = Len(calls')
    BY <1>6 DEF LeftOutOnlyWhenTight, PlacesOf, Places
  <2>1. CASE k = Len(calls) + 1
    BY <1>5, <1>6, <1>7, <2>1 DEF Tight
  <2>2. CASE k \in 1 .. Len(calls)
    BY <1>2, <1>6, <1>7, <2>2, LenProperties DEF IInv, LeftOutOnlyWhenTight, PlacesOf, Places
  <2> QED BY <1>2, <2>1, <2>2
<1> QED BY <1>8, <1>9, <1>10, <1>11, <1>12 DEF IInv
-----------------------------------------------------------------------------
\* Nothing is written: of every call the first 0 bytes.
LEMMA LeaveIsEmpty ==
    ASSUME IInv, NEW k \in 1 .. MaxCalls
    PROVE  text = text \o Piece(k, 0)
<1>1. text \in Seq(Bytes)
  BY DEF IInv, TypeOK, Bytes
<1>2. Piece(k, 0) = << >>
  <2>1. Piece(k, 0) \in Seq(Bytes) /\ Len(Piece(k, 0)) = 0
    BY Bounds, PieceIsText
  <2> QED BY <2>1, EmptySeq
<1> QED BY <1>1, <1>2, ConcatEmptySeq

\* What the calls have in common: the room is a number, the text grows by a piece
\* of this call.
LEMMA CallIs ==
    ASSUME IInv, NEW r \in Requests, Asked(r)
    PROVE  /\ remaining \in Nat /\ remaining = capacity - Len(text)
           /\ capacity \in Nat /\ Len(text) \in Nat /\ fault = "none"
           /\ text = text \o Piece(Len(calls) + 1, 0)
           /\ \A n : Write(n) => text' = text \o Piece(Len(calls) + 1, n) /\ fault' = fault
<1>1. /\ capacity \in Nat /\ Len(text) \in Nat /\ Len(text) <= capacity /\ fault = "none"
      /\ Len(calls) + 1 \in 1 .. MaxCalls
  BY Bounds, LenProperties DEF IInv, TypeOK, WithinBuffer, Asked
<1>2. \A n : Write(n) => text' = text \o Piece(Len(calls) + 1, n) /\ fault' = fault
  BY DEF Write, Piece
<1>3. text = text \o Piece(Len(calls) + 1, 0)
  BY <1>1, LeaveIsEmpty
<1> QED BY <1>1, <1>2, <1>3 DEF remaining

\* A string that is too long is left out.
LEMMA BuildStringStep == ASSUME IInv, NEW r \in Requests, BuildString(r) PROVE IInv'
<1>1. Asked(r) /\ r.kind = "string" /\ r.sign = 0 /\ r.len \in Nat
  BY RequestIs DEF BuildString
<1>2. remaining \in Nat /\ fault = "none"
  BY <1>1, CallIs
<1>3. CASE r.len > remaining
  <2>1. text' = text \o Piece(Len(calls) + 1, 0) /\ fault' = "none"
    BY <1>1, <1>2, <1>3, CallIs DEF BuildString, Leave
  <2>2. Tight(r)
    BY <1>1, <1>2, <1>3 DEF Tight
  <2> QED BY <1>1, <1>2, <2>1, <2>2, CallKeeps
<1>4. CASE ~(r.len > remaining)
  <2>1. text' = text \o Piece(Len(calls) + 1, r.len) /\ fault' = "none"
    BY <1>1, <1>2, <1>4, CallIs DEF BuildString, Leave
  <2>2. r.len <= remaining /\ r.len \in 0 .. r.sign + r.len /\ r.len = r.sign + r.len
    BY <1>1, <1>2, <1>4
  <2> QED BY <2>1, <2>2, <1>1, CallKeeps
<1> QED BY <1>3, <1>4

\* A character is left out when it would fill the buffer.
LEMMA BuildCharStep == ASSUME IInv, NEW r \in Requests, BuildChar(r) PROVE IInv'
<1>1. Asked(r) /\ r.kind = "char" /\ r.sign = 0 /\ r.len = 1
  BY RequestIs DEF BuildChar
<1>2. /\ remaining \in Nat /\ remaining = capacity - Len(text)
      /\ capacity \in Nat /\ Len(text) \in Nat /\ fault = "none"
  BY <1>1, CallIs
<1>3. CASE capacity = 0
  <2>1. fault' = "null" /\ text' = text
    BY <1>3 DEF BuildChar
  <2>2. text' = text \o Piece(Len(calls) + 1, 0)
    BY <1>1, <2>1, CallIs
  <2> QED BY <1>1, <1>2, <1>3, <2>1, <2>2, CallKeeps
<1>4. CASE capacity > 0 /\ Len(text) >= capacity - 1
  <2>1. text' = text \o Piece(Len(calls) + 1, 0) /\ fault' = "none"
    BY <1>1, <1>2, <1>4, CallIs DEF BuildChar, Leave
  <2>2. Tight(r)
    BY <1>1, <1>2, <1>4 DEF Tight
  <2> QED BY <1>1, <1>2, <2>1, <2>2, CallKeeps
<1>5. CASE capacity > 0 /\ ~(Len(text) >= capacity - 1)
  <2>1. text' = text \o Piece(Len(calls) + 1, 1) /\ fault' = "none"
    BY <1>1, <1>2, <1>5, CallIs DEF BuildChar, Leave
  <2>2. 1 <= remaining /\ 1 \in 0 .. r.sign + r.len /\ 1 = r.sign + r.len
    BY <1>1, <1>2, <1>5
  <2> QED BY <2>1, <2>2, <1>1, CallKeeps
<1> QED BY <1>2, <1>3, <1>4, <1>5

LEMMA BuildZeroStep == ASSUME IInv, NEW r \in Requests, BuildZero(r) PROVE IInv'
<1>1. Asked(r) /\ r.kind = "zero" /\ r.sign = 0 /\ r.len = 1
  BY RequestIs DEF BuildZero
<1>2. remaining \in Nat /\ fault = "none"
  BY <1>1, CallIs
<1>3. CASE remaining > 0
  <2>1. text' = text \o Piece(Len(calls) + 1, 1) /\ fault' = "none"
    BY <1>1, <1>2, <1>3, CallIs DEF BuildZero, Leave
  <2>2. 1 <= remaining /\ 1 \in 0 .. r.sign + r.len /\ 1 = r.sign + r.len
    BY <1>1, <1>2, <1>3
  <2> QED BY <2>1, <2>2, <1>1, CallKeeps
<1>4. CASE ~(remaining > 0)
  <2>1. text' = text \o Piece(Len(calls) + 1, 0) /\ fault' = "none"
    BY <1>1, <1>2, <1>4, CallIs DEF BuildZero, Leave
  <2>2. Tight(r)
    BY <1>1, <1>2, <1>4 DEF Tight
  <2> QED BY <1>1, <1>2, <2>1, <2>2, CallKeeps
<1> QED BY <1>3, <1>4

\* The sign is written when there is room for a digit too, and the digits when
\* they leave a byte free.
LEMMA BuildNumberStep == ASSUME IInv, NEW r \in Requests, BuildNumber(r) PROVE IInv'
<1>1. Asked(r) /\ r.kind \in {"int", "u64"} /\ r.sign \in {0, 1} /\ r.len \in Nat
  BY RequestIs DEF BuildNumber
<1>2. remaining \in Nat /\ fault = "none"
  BY <1>1, CallIs
<1>3. CASE r.sign = 1 /\ remaining <= 1
  <2>1. text' = text \o Piece(Len(calls) + 1, 0) /\ fault' = "none"
    BY <1>1, <1>2, <1>3, CallIs DEF BuildNumber, Leave
  <2>2. Tight(r)
    BY <1>1, <1>2, <1>3 DEF Tight
  <2> QED BY <1>1, <1>2, <2>1, <2>2, CallKeeps
<1>4. CASE ~(r.sign = 1 /\ remaining <= 1) /\ r.len > TempSize
  <2>1. fault' = "stack" /\ text' = text
    BY <1>4 DEF BuildNumber
  <2>2. text' = text \o Piece(Len(calls) + 1, 0)
    BY <1>1, <2>1, CallIs
  <2> QED BY <1>1, <1>2, <2>1, <2>2, CallKeeps
<1>5. CASE /\ ~(r.sign = 1 /\ remaining <= 1) /\ ~(r.len > TempSize)
           /\ r.len >= remaining - r.sign
  <2>1. text' = text \o Piece(Len(calls) + 1, r.sign) /\ fault' = "none"
    BY <1>1, <1>2, <1>5, CallIs DEF BuildNumber, Leave
  <2>2. Tight(r) /\ r.sign <= remaining /\ r.sign \in 0 .. r.sign + r.len
    BY <1>1, <1>2, <1>5 DEF Tight
  <2> QED BY <2>1, <2>2, <1>1, CallKeeps
<1>6. CASE /\ ~(r.sign = 1 /\ remaining <= 1) /\ ~(r.len > TempSize)
           /\ ~(r.len >= remaining - r.sign)
  <2>1. text' = text \o Piece(Len(calls) + 1, r.sign + r.len) /\ fault' = "none"
    BY <1>1, <1>2, <1>6, CallIs DEF BuildNumber, Leave
  <2>2. r.sign + r.len <= remaining /\ r.sign + r.len \in 0 .. r.sign + r.len
    BY <1>1, <1>2, <1>6
  <2> QED BY <2>1, <2>2, <1>1, CallKeeps
<1> QED BY <1>3, <1>4, <1>5, <1>6
-----------------------------------------------------------------------------
LEMMA StutterStep == IInv /\ UNCHANGED vars => IInv'
<1> SUFFICES ASSUME IInv, UNCHANGED vars PROVE IInv'
  OBVIOUS
<1>1. capacity' = capacity /\ text' = text /\ calls' = calls /\ fault' = fault
  BY DEF vars
<1>2. \A k : PlacesOf(k)' = PlacesOf(k)
  BY <1>1 DEF PlacesOf
<1>3. TypeOK' /\ WithinBuffer' /\ Numbered'
  BY <1>1 DEF IInv, TypeOK, WithinBuffer, Numbered
<1>4. WholePieces'
  BY <1>1, <1>2 DEF IInv, WholePieces
<1>5. LeftOutOnlyWhenTight'
  BY <1>1, <1>2 DEF IInv, LeftOutOnlyWhenTight
<1> QED BY <1>3, <1>4, <1>5 DEF IInv

\* The invariant the theorems below follow from.
THEOREM Inductive == Spec => []IInv
<1>1. IInv /\ [Next]_vars => IInv'
  BY BuildStringStep, BuildCharStep, BuildZeroStep, BuildNumberStep, StutterStep DEF Next
<1> QED BY InitIInv, <1>1, PTL DEF Spec

\* The bytes of the text name calls that were made and places within the longest
\* string or signed number.
THEOREM TypeCorrect == Spec => []TypeOK
<1>1. IInv => TypeOK
  BY DEF IInv
<1> QED BY Inductive, <1>1, PTL

\* src/string.c: of any capacity, and whatever is built, no byte is written
\* outside the buffer; the null pointer is written through only by a builder
\* that got no memory.
THEOREM StaysWithinBuffer == Spec => []WithinBuffer
<1>1. IInv => WithinBuffer
  BY DEF IInv
<1> QED BY Inductive, <1>1, PTL

\* src/string.c: what is written is never cut off, except that the sign of a
\* number may stand alone.
THEOREM NothingCutOff == Spec => []WholePieces
<1>1. IInv => WholePieces
  BY DEF IInv
<1> QED BY Inductive, <1>1, PTL

\* src/string.c: what would leave a byte of the buffer free is never left out,
\* nor is a string that fits exactly.
THEOREM LeavesOutOnlyWhenTight == Spec => []LeftOutOnlyWhenTight
<1>1. IInv => LeftOutOnlyWhenTight
  BY DEF IInv
<1> QED BY Inductive, <1>1, PTL
=============================================================================
