---------------------------- MODULE MCSequential ----------------------------
(***************************************************************************)
(* The code that runs on one thread at a time, for TLC: Timer, the strings,*)
(* formats and numbers of Tty, Function, and string.h of the kernel's C    *)
(* library.  A behaviour is a run of one of them, on an input; both are    *)
(* chosen in the initial state.  All but Timer, which waits meanwhile, use *)
(* the variables v1 .. v10 for their own, those they do not need are 0.    *)
(***************************************************************************)
EXTENDS Timer

CONSTANTS
  length, MaxText, Chars,                          \* TtyString
  Size, Bytes, ByteMod,                            \* LibString
  Originals, Bases, Callees, Addresses, MaxDepth,  \* Function
  Nullptr, NoFunction, Dummy, Nowhere,
  Width, NumberBases,                              \* TtyNumber
  MaxLen, TextBases, IntMod, ULong,                \* Strtoul
  Simple, LongLong, Unknown, Flags, Numbers,       \* TtyFormat
  MaxDirectives, Lengths

VARIABLES
  what,  \* what is looked at
  v1, v2, v3, v4, v5, v6, v7, v8, v9, v10

\* A time in the past, none, and waits up to 14 windows.
SomeWaits == {-1, 0, 1, 5, 18}

\* No width or accuracy, one of a digit and one of two.
SomeNumbers == {<<>>, <<"2">>, <<"1", "0">>}

S == INSTANCE TtyString WITH
       type <- v1, chain <- v2, text <- v3, pc <- v4, at <- v5, i <- v6,
       out <- v7, garbage <- v8

\* All numbers, with and without a sign.
N == INSTANCE TtyNumber WITH
       Bases <- NumberBases,
       signed <- v1, num <- v2, base <- v3, pc <- v4, rest <- v5, i <- v6,
       digit <- v7, j <- v8, k <- v9, out <- v10

F == INSTANCE TtyFormat WITH
       asked <- v1, length <- v2, pc <- v3, fmt <- v4, acc <- v5, args <- v6,
       s <- v7, out <- v8

L == INSTANCE LibString WITH
       mem <- v1, call <- v2, pc <- v3, p <- v4, q <- v5, n <- v6, ret <- v7

U == INSTANCE Strtoul WITH
       Bases <- TextBases,
       text <- v1, base <- v2, pos <- v3, val <- v4, sign <- v5, endptr <- v6,
       pc <- v7, far <- v8, arg <- v9

C == INSTANCE Function WITH
       heap <- v1, obj <- v2, calls <- v3, bad <- v4, meant <- v5

ASSUME SequentialAssumption ==
  /\ S!TtyStringAssumption /\ N!TtyNumberAssumption /\ F!TtyFormatAssumption
  /\ L!LibStringAssumption /\ U!StrtoulAssumption /\ C!FunctionAssumption

general == <<v1, v2, v3, v4, v5, v6, v7, v8, v9, v10>>

InitAny ==
  \/ what = "timer" /\ Init /\ v1 = 0 /\ v2 = 0 /\ v3 = 0 /\ v4 = 0 /\ v5 = 0
     /\ v6 = 0 /\ v7 = 0 /\ v8 = 0 /\ v9 = 0 /\ v10 = 0
  \/ /\ Init /\ period = 1 /\ cnt = 0
     /\ \/ what = "string" /\ S!Init /\ v9 = 0 /\ v10 = 0
        \/ what = "number" /\ N!Init
        \/ what = "format" /\ F!Init /\ v9 = 0 /\ v10 = 0
        \/ what = "string.h" /\ L!Init /\ v8 = 0 /\ v9 = 0 /\ v10 = 0
        \/ what = "strtoul" /\ U!Init /\ v10 = 0
        \/ what = "function" /\ C!Init /\ v6 = 0 /\ v7 = 0 /\ v8 = 0 /\ v9 = 0 /\ v10 = 0

NextAny ==
  /\ UNCHANGED what
  /\ \/ what = "timer" /\ Next /\ UNCHANGED general
     \/ /\ UNCHANGED vars
        /\ \/ what = "string" /\ S!Next /\ UNCHANGED <<v9, v10>>
           \/ what = "number" /\ N!Next
           \/ what = "format" /\ F!Next /\ UNCHANGED <<v9, v10>>
           \/ what = "string.h" /\ L!Next /\ UNCHANGED <<v8, v9, v10>>
           \/ what = "strtoul" /\ U!Next /\ UNCHANGED v10
           \/ what = "function" /\ C!Next /\ UNCHANGED <<v6, v7, v8, v9, v10>>

SpecAny == InitAny /\ [][NextAny]_<<what, vars, general>>

-----------------------------------------------------------------------------
\* A String prints what was written into it, also where the end of the text
\* and of its array coincide, and reads nothing that was never written.
StringPrintsTheText ==
  what = "string" => S!TypeOK /\ S!PrintsTheText /\ S!ReadsOnlyWhatWasWritten

\* A number is printed with its digits, 0 and the smallest one, too; the power
\* the digits are divided by never wraps around.
NumberIsPrinted ==
  what = "number" => /\ N!TypeOK /\ N!PowerIsExact
                     /\ N!DigitsAndRest /\ N!PrintsTheNumber

\* A format prints what its directives ask for, each with its own argument and
\* accuracy; no string argument is read beyond its end, and the format only if
\* it ends behind %l or %ll.
FormatIsFollowed ==
  what = "format" => F!TypeOK /\ F!PrintsWhatWasAsked /\ F!ReadsInBounds

\* strcpy(), memcpy() and the others read and write what they should, only
\* that, and compare in the right order; strncmp() reads behind the ends of
\* strings that are equal and end before n, and is exact with all others.
StringFunctionsAreExact ==
  what = "string.h" => /\ L!TypeOK /\ L!StringsAreReadToTheirEnd
                       /\ L!OnlyTheDestinationIsWritten /\ L!CopiesAreExact
                       /\ L!ComparisonsAreOrders /\ L!StrncmpUnlessEndTogether

\* strtoul() converts a number that an int can hold, in any base, stops reading
\* where the text ends, and tells where the number does unless that is there; what
\* it makes of larger numbers and of text behind the digits is wrong, but known.
NumbersAreConverted ==
  what = "strtoul" => /\ U!TypeOK /\ U!ReadsStayInTheText
                      /\ U!IntsAreConverted /\ U!NumberEndsAtEndptr

\* A function object calls what was last given to it, shares nothing with its
\* copies, and is alive while it is called, whatever the function called does
\* to it.
LiveFunctionsAreCalled ==
  what = "function" => /\ C!TypeOK /\ C!EachObjectHasOneOwner
                       /\ C!CopiesAreIndependent /\ C!OnlyLiveFunctionsAreCalled
=============================================================================
