---------------------------- MODULE StringBuilder ----------------------------
(***************************************************************************)
(* The string builder of src/string.c, which the debug output is made      *)
(* with: a buffer of fixed capacity and a length. Every function leaves    *)
(* out what it finds does not fit, each one in a way of its own, and none  *)
(* tells its caller.                                                       *)
(*                                                                         *)
(* A byte of the text is known by the call that wrote it and its place in  *)
(* what that call was to write. A definition whose comment begins with     *)
(* "Fault" is the code with a plausible bug.                               *)
(***************************************************************************)
EXTENDS Integers, Sequences

CONSTANTS Capacities,    \* the sizes of the buffer; 0: there was no memory for it
          MaxLength,     \* the longest string, or number in digits
          MaxCalls,      \* bound on the calls
          TempSize       \* the digits sb_build_u64 has room for

ASSUME StringBuilderAssumption ==
    /\ Capacities \subseteq Nat
    /\ {MaxLength, MaxCalls, TempSize} \subseteq Nat

VARIABLES capacity,      \* sb->capacity
          text,          \* sb->buffer: bytes <<call, place>>
          calls,         \* history: what was to be written, and the room there was
          fault          \* "none", "null" (written through) or "stack" (behind temp)

vars == <<capacity, text, calls, fault>>

\* sb_remaining
remaining == capacity - Len(text)

\* What a call is to write: a string, a character, the number 0, or another int
\* or uint64_t of so many digits; an int has too few digits for temp to overflow.
Requests ==
         [kind : {"string"}, sign : {0}, len : 0 .. MaxLength]
    \cup [kind : {"char", "zero"}, sign : {0}, len : {1}]
    \cup [kind : {"int"}, sign : {0, 1}, len : {n \in 1 .. MaxLength : n <= TempSize}]
    \cup [kind : {"u64"}, sign : {0}, len : 1 .. MaxLength]

\* The first n bytes of the present call are written.
Write(n) ==
    /\ text' = text \o [i \in 1 .. n |-> <<Len(calls) + 1, i>>]
    /\ UNCHANGED fault

Leave == UNCHANGED <<text, fault>>

Asked(r) ==
    /\ fault = "none" /\ Len(calls) < MaxCalls
    /\ calls' = Append(calls, [want |-> r.sign + r.len, sign |-> r.sign, kind |-> r.kind,
                               room |-> remaining])
    /\ UNCHANGED capacity
-----------------------------------------------------------------------------
\* sb_create_temp
Init == capacity \in Capacities /\ text = << >> /\ calls = << >> /\ fault = "none"

\* Fault: what does not fit is cut off.
BuildStringCut(r) ==
    /\ r.kind = "string" /\ Asked(r)
    /\ Write(IF r.len > remaining THEN remaining ELSE r.len)

BuildString(r) ==
    /\ r.kind = "string" /\ Asked(r)
    /\ IF r.len > remaining THEN Leave ELSE Write(r.len)

\* Fault: the last byte is not looked at.
BuildCharLate(r) ==
    /\ r.kind = "char" /\ Asked(r)
    /\ IF Len(text) > capacity THEN Leave ELSE Write(1)

\* Of a builder without memory, capacity - 1 is the greatest size_t.
BuildChar(r) ==
    /\ r.kind = "char" /\ Asked(r)
    /\ CASE capacity = 0 -> fault' = "null" /\ UNCHANGED text
         [] capacity > 0 /\ Len(text) >= capacity - 1 -> Leave
         [] OTHER -> Write(1)

BuildZero(r) ==
    /\ r.kind = "zero" /\ Asked(r)
    /\ IF remaining > 0 THEN Write(1) ELSE Leave

\* Fault: room for a sign is wanted of every number.
BuildNumberShy(r) ==
    /\ r.kind \in {"int", "u64"} /\ Asked(r)
    /\ IF r.len > TempSize THEN fault' = "stack" /\ UNCHANGED text
       ELSE IF r.len + 1 >= remaining THEN Leave ELSE Write(r.sign + r.len)

\* sb_build_int and sb_build_u64. The sign is written before the digits are
\* counted, and stays when they do not fit.
BuildNumber(r) ==
    /\ r.kind \in {"int", "u64"} /\ Asked(r)
    /\ IF r.sign = 1 /\ remaining <= 1 THEN Leave
       ELSE IF r.len > TempSize THEN fault' = "stack" /\ UNCHANGED text
       ELSE IF r.len >= remaining - r.sign THEN Write(r.sign) ELSE Write(r.sign + r.len)

Next == \E r \in Requests : BuildString(r) \/ BuildChar(r) \/ BuildZero(r) \/ BuildNumber(r)

Spec == Init /\ [][Next]_vars
-----------------------------------------------------------------------------
TypeOK ==
    /\ capacity \in Capacities
    /\ text \in Seq((1 .. MaxCalls) \X (1 .. MaxLength + 1))
    /\ calls \in Seq([want : 0 .. MaxLength + 1, sign : {0, 1}, room : Nat,
                      kind : {"string", "char", "zero", "int", "u64"}])
    /\ fault \in {"none", "null", "stack"}

\* Whatever is built, in whatever order, no byte is written outside the buffer,
\* but through the null pointer of a builder that got no memory.
WithinBuffer == Len(text) <= capacity /\ (fault = "null" => capacity = 0)

PlacesOf(k) == {text[i][2] : i \in {j \in DOMAIN text : text[j][1] = k}}

\* Nothing is cut off: a string, character or number is in the text with all its
\* bytes or with none, except that the sign of a number may stand alone.
WholePieces ==
    \A k \in DOMAIN calls :
        PlacesOf(k) \in {{}, 1 .. calls[k].want, 1 .. calls[k].sign}

\* At most one byte of the buffer is wasted: what would leave another byte free
\* is never left out, and a string may fill the buffer to the end.
LeftOutOnlyWhenTight ==
    \A k \in DOMAIN calls :
        LET c == calls[k]
        IN  \/ PlacesOf(k) = 1 .. c.want
            \/ c.room <= c.want /\ (c.kind = "string" => c.room < c.want)
            \/ fault # "none" /\ k = Len(calls)
=============================================================================
