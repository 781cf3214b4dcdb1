-------------------------------- MODULE Numbers --------------------------------
(***************************************************************************)
(* string_to_int64 of src/string.c, with which parse_number (src/parser.c) *)
(* converts a number token. It checks each digit before it adds it, so     *)
(* that no intermediate result leaves int64_t, where overflow is           *)
(* undefined.                                                              *)
(***************************************************************************)
EXTENDS Integers, Sequences

CONSTANTS IntMax,        \* INT64_MAX
          DigitValue     \* digits and hexadecimal letters -> their value

ASSUME NumbersAssumption ==
    /\ IntMax \in Nat /\ IntMax >= 15
    /\ DigitValue \in [DOMAIN DigitValue -> 0 .. 15]

Refused == -1

DigitsOf(base) == {c \in DOMAIN DigitValue : DigitValue[c] < base}

\* Fault: the digit is not taken into account.
AddDigitRoughly(result, base, c) ==
    IF result = Refused \/ c \notin DigitsOf(base) THEN Refused
    ELSE IF result > IntMax \div base THEN Refused
    ELSE result * base + DigitValue[c]

\* One round of the loop; a number that was refused stays so.
AddDigit(result, base, c) ==
    IF result = Refused \/ c \notin DigitsOf(base) THEN Refused
    ELSE IF result > (IntMax - DigitValue[c]) \div base THEN Refused
    ELSE result * base + DigitValue[c]

\* The loop over the characters of s behind the first n.
Accumulate(s, n, base) ==
    LET result[i \in n .. Len(s)] ==
            IF i = n THEN 0 ELSE AddDigit(result[i - 1], base, s[i])
    IN  result[Len(s)]

IsHexNumber(s) == Len(s) > 2 /\ s[1] = "0" /\ s[2] \in {"x", "X"}

\* <<*out>>, or << >> for false. (The sign it accepts in front of decimal digits
\* is left out: no token begins with one.)
string_to_int64(s) ==
    LET value == CASE s = << >> -> Refused
                   [] s # << >> /\ IsHexNumber(s) -> Accumulate(s, 2, 16)
                   [] OTHER -> Accumulate(s, 0, 10)
    IN  IF value = Refused THEN << >> ELSE <<value>>
===============================================================================
