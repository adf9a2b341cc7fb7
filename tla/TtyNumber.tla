------------------------------ MODULE TtyNumber ------------------------------
(***************************************************************************)
(* How Cvprintf_sub() of rlib/tty.cc, and PrintInt() of rlib/tty.h, print  *)
(* a number: the digits are counted by division, then for each of them the *)
(* power of the base is computed anew and divided by.  All variables are   *)
(* unsigned and wrap around at 2^Width.                                    *)
(***************************************************************************)
EXTENDS Numerals

CONSTANTS
  Width,  \* the bits of the type, 32 or 64
  Bases   \* 10 and 16

NumMod == RaisedTo(2, Width)

TtyNumberAssumption ==
  Width \in Nat \ {0} /\ 10 \in Bases /\ Bases \subseteq 2 .. NumMod - 1

VARIABLES
  signed, num,  \* the argument, and whether its type has a sign
  base,
  pc,           \* "count", "power", "digit", "end"
  rest,         \* _num
  i,            \* the number that is counted, then the power
  digit,        \* the exponent of the first digit
  j, k,         \* the loops over the digits, and to the power
  out           \* the digits that were written
vars == <<signed, num, base, pc, rest, i, digit, j, k, out>>

Values(s) == IF s THEN -(NumMod \div 2) .. NumMod \div 2 - 1 ELSE 0 .. NumMod - 1

\* Mutant: taken as a signed number, whose half is the largest.
Magnitude_Signed(n) == IF n < 0 THEN (-n) % (NumMod \div 2) ELSE n

\* (num < 0) ? -num : num, which wraps for the smallest number.
Magnitude(n) == IF n < 0 THEN (-n) % NumMod ELSE n

\* The sign is printed first and is not part of out: a '-' if num < 0.
Init ==
  /\ signed \in BOOLEAN /\ num \in Values(signed)
  /\ base \in IF signed THEN {10} ELSE Bases  \* %x, %X, %p have no sign
  /\ rest = Magnitude(num) /\ i = Magnitude(num)
  /\ pc = "count" /\ digit = 0 /\ j = 0 /\ k = 0 /\ out = <<>>

HasMoreDigits(n) == n >= base

Count ==
  /\ pc = "count"
  /\ IF HasMoreDigits(i)
     THEN i' = i \div base /\ digit' = digit + 1 /\ UNCHANGED <<pc, j, k>>
     ELSE pc' = "power" /\ i' = 1 /\ j' = digit /\ k' = 0 /\ UNCHANGED digit
  /\ UNCHANGED <<signed, num, base, rest, out>>

MorePower == k < j

Power ==
  /\ pc = "power" /\ MorePower
  /\ i' = (i * base) % NumMod
  /\ k' = k + 1
  /\ UNCHANGED <<signed, num, base, pc, rest, digit, j, out>>

PowerEnds ==
  /\ pc = "power" /\ ~MorePower
  /\ pc' = "digit"
  /\ UNCHANGED <<signed, num, base, rest, i, digit, j, k, out>>

\* The digit of this power is written and taken off.
Digit ==
  /\ pc = "digit"
  /\ i # 0
  /\ LET l == rest \div i
     IN  out' = Append(out, l) /\ rest' = (rest - l * i) % NumMod
  /\ IF j = 0
     THEN pc' = "end" /\ UNCHANGED <<i, j, k>>
     ELSE pc' = "power" /\ i' = 1 /\ j' = j - 1 /\ k' = 0
  /\ UNCHANGED <<signed, num, base, digit>>

Next == Count \/ Power \/ PowerEnds \/ Digit

Spec == Init /\ [][Next]_vars

-----------------------------------------------------------------------------
\* The type invariant; every digit is one, and is written as one character.
TypeOK ==
  /\ signed \in BOOLEAN /\ num \in Values(signed) /\ base \in Bases
  /\ pc \in {"count", "power", "digit", "end"}
  /\ rest \in 0 .. NumMod - 1 /\ i \in 0 .. NumMod - 1
  /\ digit \in 0 .. Width /\ j \in 0 .. digit /\ k \in 0 .. digit
  /\ out \in Seq(0 .. base - 1)

\* The power never wraps around, up to the largest number of the type: the
\* division is always by base^j, never by 0.
PowerIsExact ==
  /\ pc = "power" => i = RaisedTo(base, k)
  /\ pc = "digit" => i = RaisedTo(base, j)

\* The digits that were written and the rest always make up the number.
DigitsAndRest ==
  pc \in {"power", "digit"} =>
    /\ ValueOf(out, base) * RaisedTo(base, j + 1) + rest = Magnitude(num)
    /\ rest < RaisedTo(base, j + 1)

\* In the end the digits are those of the number, without a leading zero; that
\* includes 0 and the smallest number, whose magnitude wraps.
PrintsTheNumber ==
  pc = "end" => /\ ValueOf(out, base) = IF num < 0 THEN -num ELSE num
                /\ out[1] = 0 => num = 0
=============================================================================
