------------------------------- MODULE MCFormat -------------------------------
(* Small instances of Format: every call of up to three directives, letters   *)
(* that are directives behind a % among them, and buffers around their size.  *)
EXTENDS Format

Directive(spelling, arg, len) == [spelling |-> spelling, arg |-> arg, len |-> len]

Text == {Directive(<<c>>, "none", 1) : c \in {"a", "s", "d", "u"}}
            \cup {Directive(<<"%", "%">>, "none", 1), Directive(<<"%", "u">>, "none", 0),
                  Directive(<<"%", "z">>, "none", 0)}
Conversions == {Directive(<<"%", "s">>, "pointer", n) : n \in {0, 1, 2}}
            \cup {Directive(<<"%", "z", "u">>, "size_t", n) : n \in {0, 1, 2}}
            \cup {Directive(<<"%", "d">>, "int", n) : n \in {0, 2}}

MCChars == {"a", "s", "d", "u", "z", "%"}
MCCalls == {c \in UNION {[1 .. n -> Text \cup Conversions] : n \in 0 .. 3} :
                \A i \in 1 .. Len(c) - 1 :
                    ~(c[i].spelling = <<"%", "z">> /\ c[i + 1].spelling = <<"u">>)}
MCBufSizes == 0 .. 7
===============================================================================
