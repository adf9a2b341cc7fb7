------------------------------ MODULE Numerals ------------------------------
(***************************************************************************)
(* What digits stand for: the reference for the conversions between        *)
(* numbers and texts.  The recursive functions can be reasoned about.      *)
(***************************************************************************)
EXTENDS Integers, Sequences

\* b to the power of k.
RaisedTo(b, k) ==
  LET power[n \in Nat] == IF n = 0 THEN 1 ELSE power[n - 1] * b
  IN  power[k]

\* The sum of the digits s, each times the power of b that its place stands for.
ValueOf(s, b) ==
  LET sum[n \in 0 .. Len(s)] ==
        IF n = 0 THEN 0 ELSE sum[n - 1] + s[Len(s) + 1 - n] * RaisedTo(b, n - 1)
  IN  sum[Len(s)]
=============================================================================
