------------------------------ MODULE Strtoul ------------------------------
(***************************************************************************)
(* strtoul() of libc/string.h: reads a number with an optional sign and    *)
(* prefix, one digit per step.  val is an int, which the processor computes*)
(* modulo its range, and is sign-extended to the unsigned long returned.   *)
(***************************************************************************)
EXTENDS Numerals, SequencesExt, FiniteSetsExt

CONSTANTS
  MaxLen,   \* bound of the model: length of the text
  Bases,    \* values of the argument base
  IntMod,   \* the range of an int
  ULong     \* the range of unsigned long

\* The characters of the texts; those that are digits have their value, which
\* for small and capital letters is the same: x stands for both.
Characters == {"0", "1", "9", "a", "F", "x", "z", "+", "-"}
DigitValue == [c \in Characters |->
                 CASE c = "0" -> 0 [] c = "1" -> 1 [] c = "9" -> 9 [] c = "a" -> 10
                   [] c = "F" -> 15 [] c = "x" -> 33 [] c = "z" -> 35 [] OTHER -> 99]

StrtoulAssumption ==
  /\ MaxLen \in Nat /\ Bases \subseteq {0} \cup 2 .. 36
  /\ IntMod \in Nat \ {0} /\ IntMod % 2 = 0 /\ ULong \in Nat /\ ULong >= IntMod

VARIABLES
  text, base, pos,  \* the string, the argument base, nptr (1 is its begin)
  val,              \* the bits of val, as a number
  sign,             \* as in the code
  endptr,           \* *endptr as a position, 0 if it is not written
  pc,               \* "sign", "prefix", "digits", "done"
  far,              \* history: the farthest position that was read
  arg               \* history: base as it was given

vars == <<text, base, pos, val, sign, endptr, pc, far, arg>>

Init ==
  /\ text \in UNION {[1 .. k -> Characters] : k \in 0 .. MaxLen}
  /\ base \in Bases /\ arg = base
  /\ pos = 1 /\ val = 0 /\ sign = 1 /\ endptr = 0 /\ pc = "sign" /\ far = 0

At(i) == IF i <= Len(text) THEN text[i] ELSE "NUL"
Reads(i) == far' = Max({far, i})

Sign ==
  /\ pc = "sign" /\ Reads(pos)
  /\ pos' = IF At(pos) \in {"+", "-"} THEN pos + 1 ELSE pos
  /\ sign' = IF At(pos) = "-" THEN -1 ELSE 1
  /\ pc' = "prefix"
  /\ UNCHANGED <<text, base, val, endptr, arg>>

\* Base 0: the text says whether it is octal, decimal or hexadecimal.
BaseOfText ==
  /\ pc = "prefix" /\ base = 0
  /\ IF At(pos) # "0" THEN pos' = pos /\ base' = 10 /\ Reads(pos)
     ELSE IF At(pos + 1) = "x" THEN pos' = pos + 2 /\ base' = 16 /\ Reads(pos + 1)
     ELSE pos' = pos + 1 /\ base' = 8 /\ Reads(pos + 1)
  /\ pc' = "digits"
  /\ UNCHANGED <<text, val, sign, endptr, arg>>

\* A given base of 16: any character before an x is taken for the prefix.
GivenBase ==
  /\ pc = "prefix" /\ base # 0
  /\ IF base = 16 /\ At(pos) # "NUL" /\ At(pos + 1) = "x"
     THEN pos' = pos + 2 ELSE UNCHANGED pos
  /\ IF base # 16 THEN UNCHANGED far
     ELSE IF At(pos) = "NUL" THEN Reads(pos) ELSE Reads(pos + 1)
  /\ pc' = "digits"
  /\ UNCHANGED <<text, base, val, sign, endptr, arg>>

IsDigitOf(c, b) == c # "NUL" /\ DigitValue[c] < b

\* Mutant: the digits are added before val is multiplied.
Digit_SwappedOrder ==
  /\ pc = "digits" /\ IsDigitOf(At(pos), base) /\ Reads(pos)
  /\ val' = ((val + DigitValue[At(pos)]) * base) % IntMod
  /\ pos' = pos + 1
  /\ UNCHANGED <<text, base, sign, endptr, pc, arg>>

Digit ==
  /\ pc = "digits" /\ IsDigitOf(At(pos), base) /\ Reads(pos)
  /\ val' = (val * base + DigitValue[At(pos)]) % IntMod
  /\ pos' = pos + 1
  /\ UNCHANGED <<text, base, sign, endptr, pc, arg>>

\* val is multiplied before the character is looked at.
NoDigit ==
  /\ pc = "digits" /\ At(pos) # "NUL" /\ ~IsDigitOf(At(pos), base) /\ Reads(pos)
  /\ val' = (val * base) % IntMod
  /\ endptr' = pos /\ pc' = "done"
  /\ UNCHANGED <<text, base, pos, sign, arg>>

\* The end of the text: *endptr is not written.
EndOfText ==
  /\ pc = "digits" /\ At(pos) = "NUL" /\ Reads(pos)
  /\ pc' = "done"
  /\ UNCHANGED <<text, base, pos, val, sign, endptr, arg>>

Next == Sign \/ BaseOfText \/ GivenBase \/ Digit \/ NoDigit \/ EndOfText

Spec == Init /\ [][Next]_vars

\* The bits of an int as an unsigned long.
SignExtended(bits) == IF bits < IntMod \div 2 THEN bits ELSE bits + (ULong - IntMod)

Returned == SignExtended((val * sign) % IntMod)

-----------------------------------------------------------------------------
\* The type invariant.
TypeOK ==
  /\ pos \in 1 .. MaxLen + 1 /\ val \in 0 .. IntMod - 1 /\ sign \in {-1, 1}
  /\ base \in Bases \cup {8, 10, 16} /\ endptr \in 0 .. MaxLen
  /\ pc \in {"sign", "prefix", "digits", "done"}

\* No look ahead goes beyond the '\0', whatever the text is.
ReadsStayInTheText == far <= Len(text) + 1

\* A reference for what is left after a sign: a number of the given base.  Base 0
\* and base 16 have the prefix 0x, base 16 any other character for the 0, too.
Body == IF Len(text) > 0 /\ text[1] \in {"+", "-"} THEN SubSeq(text, 2, Len(text)) ELSE text
HasPrefix ==
  \/ arg = 0 /\ IsPrefix(<<"0", "x">>, Body)
  \/ arg = 16 /\ Len(Body) > 1 /\ Body[2] = "x"
Digits == IF HasPrefix THEN SubSeq(Body, 3, Len(Body)) ELSE Body
BaseMeant ==
  IF arg # 0 THEN arg
  ELSE IF HasPrefix THEN 16
  ELSE IF IsPrefix(<<"0">>, Body) THEN 8 ELSE 10
Worths == [i \in DOMAIN Digits |-> DigitValue[Digits[i]]]

\* The first k characters are the digits of the number, and what they are worth,
\* with the sign.
EndsAfter(k) ==
  /\ \A i \in 1 .. k : Worths[i] < BaseMeant
  /\ k < Len(Worths) => Worths[k + 1] >= BaseMeant
Number(k) ==
  (IF text # <<>> /\ text[1] = "-" THEN -1 ELSE 1) * ValueOf(SubSeq(Worths, 1, k), BaseMeant)

\* A text that is a number which an int can hold is converted to it, with any
\* sign, prefix and base; a negative one wraps around.
IntsAreConverted ==
  pc = "done" /\ EndsAfter(Len(Worths)) =>
    LET number == Number(Len(Worths))
    IN  number < IntMod \div 2 /\ -number <= IntMod \div 2 => Returned = number % ULong

\* Any other number loses what an int cannot hold, and its sign is taken from
\* what is left.  Text behind the digits multiplies the number by the base once
\* more.  *endptr is then the first character that is no digit, but it is not
\* written if the text ends with the number: a caller who wants to know where the
\* number ended has to set it before the call.
NumberEndsAtEndptr ==
  pc = "done" =>
    \A k \in 0 .. Len(Worths) : EndsAfter(k) =>
      IF k = Len(Worths) THEN endptr = 0 /\ Returned = SignExtended(Number(k) % IntMod)
      ELSE /\ endptr = Len(text) - Len(Worths) + k + 1
           /\ Returned = SignExtended((Number(k) * BaseMeant) % IntMod)
=============================================================================
