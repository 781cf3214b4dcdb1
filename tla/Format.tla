-------------------------------- MODULE Format --------------------------------
(***************************************************************************)
(* vsnprintf of src/print.c, which raise_error and the generator's trace   *)
(* print through: it walks the format byte by byte, takes an argument for  *)
(* each of %s, %zu and %d, and stops writing when one byte is left.        *)
(*                                                                         *)
(* A call is a sequence of directives: the format is their spelling, the   *)
(* arguments are what they ask for. The loop knows nothing of directives;  *)
(* it sees characters. A byte it writes is known by the round of the loop  *)
(* that wrote it, counted from 1, and its place there. A definition whose  *)
(* comment begins with "Fault" is the code with a plausible bug.           *)
(***************************************************************************)
EXTENDS Naturals, Sequences, SequencesExt

CONSTANTS Chars,         \* the characters of a format
          Calls,         \* sequences of directives
          BufSizes       \* bufsz

Nul == "nul"

\* What a call is made of: characters, %%, a % that means nothing, and directives
\* that find an argument of the type they ask for (a call that has another one is
\* undefined). Each prints len bytes; only the number 0, whose len is 0, prints one.
Directives ==
    [spelling : {<<c>> : c \in Chars \ {"%"}} \cup {<<"%", "%">>}, arg : {"none"}, len : {1}]
        \cup [spelling : {<<"%", c>> : c \in Chars \ {"%", "s", "d"}}, arg : {"none"}, len : {0}]
        \cup [spelling : {<<"%", "s">>}, arg : {"pointer"}, len : Nat]
        \cup [spelling : {<<"%", "z", "u">>}, arg : {"size_t"}, len : Nat]
        \cup [spelling : {<<"%", "d">>}, arg : {"int"}, len : Nat]

ASSUME FormatAssumption ==
    /\ {"%", "s", "z", "u", "d"} \subseteq Chars /\ Nul \notin Chars
    /\ Calls \subseteq Seq(Directives)
    /\ \A c \in Calls : \A i \in 1 .. Len(c) - 1 :     \* that is spelled %zu
          ~(c[i].spelling = <<"%", "z">> /\ c[i + 1].spelling = <<"u">>)
    /\ BufSizes \subseteq Nat

VARIABLES call,          \* history: the directives of the call
          format,        \* their spellings
          at,            \* the place reached in format, counted from 1
          taken,         \* vlist: the directive whose argument was taken last
          bufsz,
          rounds,        \* how many rounds of the loop are over
          copied,        \* bytes of a %s copied so far
          out,           \* start .. buffer: bytes <<round, place>>
          pc             \* "walk", "copy" (a %s), or how it ended

vars == <<call, format, at, taken, bufsz, rounds, copied, out, pc>>
input == <<call, format, bufsz>>

Char(i) == IF i <= Len(format) THEN format[i] ELSE Nul

\* Nothing left of the buffer but, at most, the place of NUL.
Full == bufsz - Len(out) <= 1

\* At a directive that is spelled so.
AtDirective(c) == pc = "walk" /\ Char(at) = "%" /\ Char(at + 1) = c

\* The directives whose arguments are left, and the first of them.
Left == {i \in taken + 1 .. Len(call) : call[i].arg # "none"}
Argument == call[Min(Left)]

\* va_arg(vlist, type): undefined unless the next argument is of that type.
Takes(type) == Left # {} /\ Argument.arg = type
TakeIt == taken' = Min(Left)

\* A round that writes n bytes.
Put(n) ==
    /\ out' = out \o [i \in 1 .. n |-> <<rounds + 1, i>>]
    /\ rounds' = rounds + 1

\* A round that writes none.
LeaveOut == rounds' = rounds + 1 /\ UNCHANGED out
-----------------------------------------------------------------------------
Init ==
    /\ call \in Calls /\ bufsz \in BufSizes
    /\ format = FlattenSeq([i \in DOMAIN call |-> call[i].spelling])
    /\ at = 1 /\ taken = 0 /\ rounds = 0 /\ copied = 0 /\ out = << >> /\ pc = "walk"

\* Fault: one byte more than NUL is kept free.
PlainShy ==
    /\ pc = "walk" /\ Char(at) \notin {"%", Nul} /\ bufsz - Len(out) > 2
    /\ Put(1) /\ at' = at + 1
    /\ UNCHANGED <<input, taken, copied, pc>>

\* Any other character. In a full buffer the loop neither writes nor goes on.
Plain ==
    /\ pc = "walk" /\ Char(at) \notin {"%", Nul} /\ ~Full
    /\ Put(1) /\ at' = at + 1
    /\ UNCHANGED <<input, taken, copied, pc>>

\* Fault: the second % is not skipped.
PercentOnce ==
    /\ AtDirective("%")
    /\ IF Full THEN LeaveOut ELSE Put(1)
    /\ at' = at + 1
    /\ UNCHANGED <<input, taken, copied, pc>>

\* In a full buffer the second % is not skipped, and begins a directive.
Percent ==
    /\ AtDirective("%")
    /\ IF Full THEN at' = at + 1 /\ LeaveOut ELSE at' = at + 2 /\ Put(1)
    /\ UNCHANGED <<input, taken, copied, pc>>

String ==
    /\ AtDirective("s") /\ Takes("pointer")
    /\ pc' = "copy" /\ copied' = 0
    /\ UNCHANGED <<input, at, taken, rounds, out>>

\* In a full buffer this loop, too, neither writes nor goes on.
StringByte ==
    /\ pc = "copy" /\ copied < Argument.len /\ ~Full
    /\ out' = Append(out, <<rounds + 1, copied + 1>>) /\ copied' = copied + 1
    /\ UNCHANGED <<input, at, taken, rounds, pc>>

StringEnds ==
    /\ pc = "copy" /\ copied = Argument.len
    /\ at' = at + 2 /\ TakeIt /\ LeaveOut /\ pc' = "walk"
    /\ UNCHANGED <<input, copied>>

\* Fault: as for a character, one byte is enough.
NumberAsChar(type, length) ==
    /\ Takes(type)
    /\ LET digits == Argument.len
       IN  IF Full THEN LeaveOut ELSE Put(IF digits = 0 THEN 1 ELSE digits)
    /\ at' = at + length /\ TakeIt
    /\ UNCHANGED <<input, copied, pc>>

\* Fault: three bytes are kept free.
NumberShy(type, length) ==
    /\ Takes(type)
    /\ LET digits == Argument.len
       IN  IF bufsz - Len(out) <= digits + 2 THEN LeaveOut ELSE Put(IF digits = 0 THEN 1 ELSE digits)
    /\ at' = at + length /\ TakeIt
    /\ UNCHANGED <<input, copied, pc>>

\* A number of so many digits, its sign among them, or of none: 0. It is written
\* whole or left out, and it is left out when it would fit exactly.
Number(type, length) ==
    /\ Takes(type)
    /\ LET digits == Argument.len
       IN  IF digits = 0 THEN IF Full THEN LeaveOut ELSE Put(1)
           ELSE IF bufsz - Len(out) > digits + 1 THEN Put(digits) ELSE LeaveOut
    /\ at' = at + length /\ TakeIt
    /\ UNCHANGED <<input, copied, pc>>

SizeNumber == AtDirective("z") /\ Char(at + 2) = "u" /\ Number("size_t", 3)

IntNumber == AtDirective("d") /\ Number("int", 2)

BadArgument ==
    /\ \/ AtDirective("s") /\ ~Takes("pointer")
       \/ AtDirective("z") /\ Char(at + 2) = "u" /\ ~Takes("size_t")
       \/ AtDirective("d") /\ ~Takes("int")
    /\ pc' = "bad argument"
    /\ UNCHANGED <<input, at, taken, rounds, copied, out>>

\* Any other character behind % is skipped, be it the NUL of the format.
Unhandled ==
    /\ pc = "walk" /\ Char(at) = "%" /\ Char(at + 1) \notin {"%", "s", "d"}
    /\ ~(Char(at + 1) = "z" /\ Char(at + 2) = "u")
    /\ at' = at + 2 /\ LeaveOut
    /\ pc' = IF Char(at + 1) = Nul THEN "overrun" ELSE "walk"
    /\ UNCHANGED <<input, taken, copied>>

\* NUL is put behind the output.
Return ==
    /\ pc = "walk" /\ Char(at) = Nul
    /\ pc' = "done"
    /\ UNCHANGED <<input, at, taken, rounds, copied, out>>

Next == \/ Plain \/ Percent \/ String \/ StringByte \/ StringEnds \/ SizeNumber \/ IntNumber
        \/ BadArgument \/ Unhandled \/ Return

\* One thread: it takes its next step. A loop that goes round in a full buffer
\* changes nothing: it is a behavior that takes no step any more.
Spec == Init /\ [][Next]_vars /\ WF_vars(Next)
-----------------------------------------------------------------------------
\* The output that the directives of a call stand for: each is one round.
IsNumber(d) == d.arg \in {"size_t", "int"}
Width(d) == IF IsNumber(d) /\ d.len = 0 THEN 1 ELSE d.len
Rendered == FlattenSeq([k \in DOMAIN call |-> [i \in 1 .. Width(call[k]) |-> <<k, i>>]])

\* It fits the buffer with its NUL, and with a byte to spare if it ends with a
\* number other than 0.
Fits ==
    LET last == IF Rendered = << >> THEN 0 ELSE Rendered[Len(Rendered)][1]
        spare == IF last # 0 /\ IsNumber(call[last]) /\ call[last].len > 0 THEN 1 ELSE 0
    IN  Len(Rendered) + 1 + spare <= bufsz

\* No byte is written at or behind the last place of the buffer, which is left to
\* the NUL, whatever is printed.
WithinBuffer == Len(out) < bufsz \/ out = << >>

PlacesOf(k) == {out[i][2] : i \in {j \in DOMAIN out : out[j][1] = k}}

\* What fits the buffer is printed whole and in order; of anything else, no
\* number is cut off.
RenderedWhole ==
    /\ pc = "done" /\ Fits => out = Rendered
    /\ \A k \in DOMAIN call : IsNumber(call[k]) => PlacesOf(k) \in {{}, 1 .. Width(call[k])}

\* As long as there is room in the buffer, each directive takes an argument of
\* its own type and the format is not read behind its end.
OwnArguments == pc \in {"bad argument", "overrun"} => Full

\* A call whose output fits returns.
Returns == Fits ~> pc = "done"
=============================================================================
