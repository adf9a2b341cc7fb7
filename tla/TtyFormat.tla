----------------------------- MODULE TtyFormat -----------------------------
(***************************************************************************)
(* Tty::Cvprintf_sub() of rlib/tty.cc as the machine it is: it walks       *)
(* through the format once, stage by stage of a conversion, and takes the  *)
(* arguments one after the other.  The format is built from a sequence of  *)
(* directives, whose meaning is what the code promises of them: a flag and *)
(* a width are accepted and have no effect, an accuracy only has one on a  *)
(* string, and "%%" prints both characters.  How a number is turned into   *)
(* digits is in TtyNumber, where the characters go in TtyString.           *)
(***************************************************************************)
EXTENDS Numerals, SequencesExt, FiniteSetsExt

CONSTANTS
  Simple,         \* the conversions of one argument: some of c u d p X x
  LongLong,       \* those that may follow ll: some of d u x
  Unknown,        \* characters that are no conversion, nor l, s, a digit, ...
  Flags,          \* some of + - #
  Numbers,        \* sequences of digits, for the width and the accuracy
  MaxDirectives,  \* bound of the model: the directives of a format
  Lengths         \* bound of the model: the lengths of the string arguments

\* The digits of the model, with their values.
Digit == [c \in {"0", "1", "2"} |-> CASE c = "0" -> 0 [] c = "1" -> 1 [] c = "2" -> 2]

IsDigit(c) == c \in DOMAIN Digit

TtyFormatAssumption ==
  /\ Simple \subseteq {"c", "u", "d", "p", "X", "x"}
  /\ LongLong \subseteq {"d", "u", "x"} /\ Flags \subseteq {"+", "-", "#"}
  /\ Numbers \subseteq Seq(DOMAIN Digit)
  /\ \A c \in Unknown :
       c \notin {"NUL", "%", "+", "-", "#", ".", "s", "l",
                "c", "u", "d", "p", "X", "x"} \cup DOMAIN Digit
  /\ MaxDirectives \in Nat /\ Lengths \subseteq Nat

VARIABLES
  asked,   \* the directives
  length,  \* of each argument that is a string
  pc,      \* where the program is in the loop
  fmt,     \* how far the pointer fmt is in the format
  acc,     \* accuracy
  args,    \* how many arguments were taken
  s,       \* how far the pointer s is in a string argument
  out      \* what was written: characters, and arguments that were converted

vars == <<asked, length, pc, fmt, acc, args, s, out>>

-----------------------------------------------------------------------------
(* Directives: a character that stands for itself, or a conversion; the    *)
(* last one may be cut off, before the conversion's letter or behind an l. *)
Dots == {<<>>} \cup {<<".">> \o n : n \in Numbers}

Opening(flag, width, dot) == <<"%">> \o flag \o width \o dot

Openings ==
  {Opening(f, w, d) : f \in {<<>>} \cup {<<c>> : c \in Flags}, w \in Numbers, d \in Dots}

Letters ==
  {<<c>> : c \in Simple \cup {"s", "%"} \cup Unknown}
    \cup {<<"l", c>> : c \in Unknown}
    \cup {<<"l", "l", c>> : c \in LongLong \cup Unknown}

Directives ==
  {[prefix |-> <<>>, letter |-> <<c>>] : c \in Unknown}
    \cup [prefix : Openings, letter : Letters]

OnlyLong == {<<"l">>, <<"l", "l">>}

CutOff == [prefix : Openings, letter : {<<>>} \cup OnlyLong]

format == FlattenSeq([n \in DOMAIN asked |-> asked[n].prefix \o asked[n].letter])

\* *fmt, with fmt as a parameter.
At(n) == IF n <= Len(format) THEN format[n] ELSE "NUL"

Init ==
  /\ \E n \in 0 .. MaxDirectives :
       asked \in [1 .. n -> Directives] \cup
                 {Append(a, d) : a \in [1 .. n - 1 -> Directives],
                                 d \in IF n = 0 THEN {} ELSE CutOff}
  /\ length \in Lengths
  /\ pc = "text" /\ fmt = 1 /\ acc = 0 /\ args = 0 /\ s = 1 /\ out = <<>>

-----------------------------------------------------------------------------
Text ==
  /\ pc = "text" /\ At(fmt) \notin {"%", "NUL"}
  /\ out' = Append(out, <<At(fmt)>>) /\ fmt' = fmt + 1
  /\ UNCHANGED <<asked, length, pc, acc, args, s>>

End ==
  /\ pc = "text" /\ At(fmt) = "NUL" /\ pc' = "end"
  /\ UNCHANGED <<asked, length, fmt, acc, args, s, out>>

Flag ==
  /\ pc = "text" /\ At(fmt) = "%"
  /\ pc' = "width"
  /\ fmt' = IF At(fmt + 1) \in Flags THEN fmt + 2 ELSE fmt + 1
  /\ UNCHANGED <<asked, length, acc, args, s, out>>

\* Mutant: the accuracy of the conversion before is kept.
NewAccuracy_Kept == acc

NewAccuracy == 0

WidthAndDot ==
  /\ pc = "width"
  /\ IF IsDigit(At(fmt))
     THEN fmt' = fmt + 1 /\ UNCHANGED <<pc, acc>>
     ELSE /\ fmt' = IF At(fmt) = "." THEN fmt + 1 ELSE fmt
          /\ pc' = "accuracy" /\ acc' = NewAccuracy
  /\ UNCHANGED <<asked, length, args, s, out>>

Accuracy ==
  /\ pc = "accuracy"
  /\ IF IsDigit(At(fmt))
     THEN fmt' = fmt + 1 /\ acc' = acc * 10 + Digit[At(fmt)] /\ UNCHANGED pc
     ELSE pc' = "conversion" /\ UNCHANGED <<fmt, acc>>
  /\ UNCHANGED <<asked, length, args, s, out>>

\* va_arg().
TakesNext == args + 1

\* An argument is taken and written as the conversion says.
Convert(w) == args' = TakesNext /\ out' = Append(out, Append(w, TakesNext))

Characters(w) == [n \in DOMAIN w |-> <<w[n]>>]

\* After what is no conversion: the % and the characters after it are written.
Keep(w) == out' = out \o Characters(w) /\ UNCHANGED args

Conversion ==
  /\ pc = "conversion"
  /\ LET c == At(fmt)
     IN  \/ c = "NUL" /\ pc' = "end" /\ UNCHANGED <<fmt, args, s, out>>
         \/ c = "s" /\ pc' = (IF acc = 0 THEN "string" ELSE "cut") /\ s' = 1
                    /\ args' = TakesNext /\ UNCHANGED <<fmt, out>>
         \/ c = "l" /\ pc' = "long" /\ fmt' = fmt + 1 /\ UNCHANGED <<args, s, out>>
         \/ /\ c \notin {"NUL", "s", "l"}
            /\ pc' = "text" /\ fmt' = fmt + 1 /\ UNCHANGED s
            /\ IF c \in Simple THEN Convert(<<c>>) ELSE Keep(<<"%", c>>)
  /\ UNCHANGED <<asked, length, acc>>

\* Behind an l the '\0' is printed like any character and stepped over; what
\* comes next is whatever lies behind the format, which is not modelled.
AfterLong == IF At(fmt) = "NUL" THEN "beyond" ELSE "text"

Long ==
  /\ pc = "long" /\ fmt' = fmt + 1
  /\ IF At(fmt) = "l" THEN pc' = "longlong" /\ UNCHANGED <<args, out>>
                      ELSE pc' = AfterLong /\ Keep(<<"%", "l", At(fmt)>>)
  /\ UNCHANGED <<asked, length, acc, s>>

LongLongConversion ==
  /\ pc = "longlong" /\ fmt' = fmt + 1 /\ pc' = AfterLong
  /\ IF At(fmt) \in LongLong THEN Convert(<<"ll", At(fmt)>>)
                             ELSE Keep(<<"%", "l", "l", At(fmt)>>)
  /\ UNCHANGED <<asked, length, acc, s>>

StringEnds == (pc = "cut" /\ acc = 0) \/ s > length

\* One character of the argument of %s, in one of its two loops.
String ==
  /\ pc \in {"string", "cut"}
  /\ IF StringEnds
     THEN pc' = "text" /\ fmt' = fmt + 1 /\ UNCHANGED <<acc, s, out>>
     ELSE /\ out' = Append(out, <<"s", args, s>>) /\ s' = s + 1
          /\ acc' = IF pc = "cut" THEN acc - 1 ELSE acc
          /\ UNCHANGED <<pc, fmt>>
  /\ UNCHANGED <<asked, length, args>>

Next == \/ Text \/ End \/ Flag \/ WidthAndDot \/ Accuracy
        \/ Conversion \/ Long \/ LongLongConversion \/ String

Spec == Init /\ [][Next]_vars

-----------------------------------------------------------------------------
\* The accuracy that the digits after the dot of a prefix stand for.
AccuracyOf(prefix) ==
  LET dots == {n \in DOMAIN prefix : prefix[n] = "."}
  IN  IF dots = {} THEN 0
      ELSE ValueOf([n \in 1 .. Len(prefix) - Max(dots) |-> Digit[prefix[Max(dots) + n]]], 10)

TakesArgument(d) ==
  d.prefix # <<>> /\ d.letter \in {<<c>> : c \in Simple \cup {"s"}}
                             \cup {<<"l", "l", c>> : c \in LongLong}

\* What the directive d means when the arguments before it are n.
Meaning(d, n) ==
  IF d.prefix = <<>> THEN Characters(d.letter)
  ELSE IF d.letter = <<>> THEN <<>>
  ELSE IF d.letter \in OnlyLong THEN Characters(<<"%">> \o Append(d.letter, "NUL"))
  ELSE IF ~TakesArgument(d) THEN Characters(<<"%">> \o d.letter)
  ELSE IF Len(d.letter) = 3 THEN <<<<"ll", d.letter[3], n + 1>>>>
  ELSE IF d.letter # <<"s">> THEN <<<<d.letter[1], n + 1>>>>
  ELSE LET a == AccuracyOf(d.prefix)
       IN  [m \in 1 .. IF a = 0 THEN length ELSE Min({a, length}) |-> <<"s", n + 1, m>>]

ArgumentsBefore(n) == Cardinality({m \in 1 .. n - 1 : TakesArgument(asked[m])})

\* What is printed is what the directives mean, one after the other: no state
\* of one conversion, its accuracy or its flag, is left for the next, each
\* takes its own argument, and what is no conversion is printed as it stands,
\* with the '\0' where the format ends behind an l.
PrintsWhatWasAsked ==
  pc \in {"end", "beyond"} =>
    out = FlattenSeq([n \in DOMAIN asked |-> Meaning(asked[n], ArgumentsBefore(n))])

EndsBehindLong == asked # <<>> /\ asked[Len(asked)].letter \in OnlyLong

\* No string argument is read beyond its '\0', whatever the accuracy is.  The
\* format is read beyond its own exactly when it ends behind %l or %ll, wherever
\* else it is cut off.
ReadsInBounds ==
  /\ pc \in {"string", "cut"} => s <= length + 1
  /\ pc # "beyond" => fmt <= Len(format) + 1
  /\ pc = "end" => ~EndsBehindLong
  /\ pc = "beyond" => EndsBehindLong /\ fmt = Len(format) + 2

\* The type invariant.
TypeOK ==
  /\ pc \in {"text", "width", "accuracy", "conversion", "long", "longlong",
             "string", "cut", "end", "beyond"}
  /\ fmt \in Nat \ {0} /\ acc \in Nat /\ s \in Nat \ {0}
  /\ args \in 0 .. Len(asked)

=============================================================================
