------------------------------ MODULE TtyString ------------------------------
(***************************************************************************)
(* String of rlib/tty.{h,cc}: the characters that Cvprintf_sub() writes    *)
(* are kept in arrays of a fixed length.  A string of the heap (kQueue)    *)
(* goes on in a new one, linked by next; one on the stack (kSingle) drops  *)
(* the rest.  Exit() ends it with a '\0', for which there may be no room;  *)
(* PrintString() walks through the chain, Delete() frees it.               *)
(***************************************************************************)
EXTENDS Naturals, Sequences

CONSTANTS
  length,   \* String::length
  MaxText,  \* bound of the model: the characters that are written
  Chars     \* the characters, among them NUL

NUL == 0

TtyStringAssumption ==
  length \in Nat \ {0} /\ MaxText \in Nat /\ NUL \in Chars

VARIABLES
  type,    \* kSingle or kQueue
  chain,   \* what is written in the array of each String of the chain
  text,    \* history: all characters that were written
  pc,      \* "write", "print", "delete"
  at, i,   \* PrintString(): the String it is in, and the index in its array
  out,     \* the characters that were printed
  garbage  \* an element of an array was read that was never written

vars == <<type, chain, text, pc, at, i, out, garbage>>

Init ==
  /\ type \in {"kSingle", "kQueue"}
  /\ chain = <<<<>>>>
  /\ text = <<>> /\ pc = "write" /\ at = 1 /\ i = 0 /\ out = <<>>
  /\ garbage = FALSE

IsFull(s) == Len(s) = length

\* String::Write(), with its recursion to the end of the chain.
Put(c) ==
  LET n == Len(chain)
  IN  chain' = IF ~IsFull(chain[n]) THEN [chain EXCEPT ![n] = Append(@, c)]
               ELSE IF type = "kQueue" THEN Append(chain, <<c>>) ELSE chain

Write ==
  /\ pc = "write" /\ Len(text) < MaxText
  /\ \E c \in Chars : Put(c) /\ text' = Append(text, c)
  /\ UNCHANGED <<type, pc, at, i, out, garbage>>

End == Put(NUL)

Exit ==
  /\ pc = "write" /\ pc' = "print"
  /\ End
  /\ UNCHANGED <<type, text, at, i, out, garbage>>

\* Mutant: '\0' is printed as any other character.
Ends_Never(c) == FALSE

Ends(c) == c = NUL

PrintChar ==
  /\ pc = "print" /\ i < length
  /\ IF i >= Len(chain[at])
     THEN garbage' = TRUE /\ pc' = "delete" /\ UNCHANGED <<i, out>>
     ELSE /\ UNCHANGED garbage
          /\ IF Ends(chain[at][i + 1])
             THEN pc' = "delete" /\ UNCHANGED <<i, out>>
             ELSE /\ out' = Append(out, chain[at][i + 1])
                  /\ i' = i + 1
                  /\ UNCHANGED pc
  /\ UNCHANGED <<type, chain, text, at>>

PrintNext ==
  /\ pc = "print" /\ i = length
  /\ IF at < Len(chain)
     THEN at' = at + 1 /\ i' = 0 /\ UNCHANGED pc
     ELSE pc' = "delete" /\ UNCHANGED <<at, i>>
  /\ UNCHANGED <<type, chain, text, out, garbage>>

\* Delete() of a string of the heap frees the end of the chain first.
Delete ==
  /\ pc = "delete" /\ type = "kQueue" /\ chain # <<>>
  /\ chain' = SubSeq(chain, 1, Len(chain) - 1)
  /\ UNCHANGED <<type, text, pc, at, i, out, garbage>>

Next == Write \/ Exit \/ PrintChar \/ PrintNext \/ Delete

Spec == Init /\ [][Next]_vars

-----------------------------------------------------------------------------
\* The type invariant.
TypeOK ==
  /\ type \in {"kSingle", "kQueue"}
  /\ chain \in Seq(Seq(Chars)) /\ text \in Seq(Chars) /\ out \in Seq(Chars \ {NUL})
  /\ \A n \in DOMAIN chain : Len(chain[n]) \in 1 .. length \/ chain = <<<<>>>>
  /\ pc \in {"write", "print", "delete"}
  /\ at \in Nat \ {0} /\ i \in 0 .. length
  /\ garbage \in BOOLEAN

\* The characters before the first NUL.
UpToNul(s) ==
  LET ends == {n \in DOMAIN s : s[n] = NUL}
  IN  IF ends = {} THEN s
      ELSE SubSeq(s, 1, (CHOOSE n \in ends : \A m \in ends : n <= m) - 1)

\* What is printed is what was written, also where the end of the text and of
\* an array coincide; a string on the stack is cut off at its length.
PrintsTheText ==
  pc = "delete" =>
    out = UpToNul(IF type = "kSingle" /\ Len(text) > length
                  THEN SubSeq(text, 1, length) ELSE text)

\* PrintString() reads only what was written: the '\0', or the length where
\* there was no room for it, stops it in time.
ReadsOnlyWhatWasWritten == ~garbage
=============================================================================
