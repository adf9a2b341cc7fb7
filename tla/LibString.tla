----------------------------- MODULE LibString -----------------------------
(***************************************************************************)
(* The functions on strings and bytes of libc/string.h, which the kernel   *)
(* has instead of a C library: one call on a memory of a few bytes, one    *)
(* step per iteration of its loop.  Pointers are indices of the memory.    *)
(***************************************************************************)
EXTENDS Integers, FiniteSetsExt

CONSTANTS
  Size,     \* bytes of memory
  Bytes,    \* the bytes it is made of, 0 among them
  ByteMod   \* the range of a byte; a char is signed

LibStringAssumption ==
  /\ Size \in Nat \ {0} /\ ByteMod \in Nat /\ ByteMod % 2 = 0
  /\ 0 \in Bytes /\ Bytes \subseteq 0 .. ByteMod - 1

VARIABLES
  mem,      \* the memory
  call,     \* history: the function, its arguments and the memory at its call
  pc,       \* the loop that is executed, "idle", "done", "beyond" the memory
  p, q, n,  \* s1 and s2 (or the byte of memset), and what is left of n
  ret       \* what is returned by a function that does not return a pointer

vars == <<mem, call, pc, p, q, n, ret>>

Addr == 0 .. Size - 1

\* The end of the string at a, if it has one.
Nuls(m, a) == {i \in a .. Size - 1 : m[i] = 0}
IsString(m, a) == Nuls(m, a) # {}
EndOf(m, a) == Min(Nuls(m, a))
LenOf(m, a) == EndOf(m, a) - a

Signed(c) == IF c < ByteMod \div 2 THEN c ELSE c - ByteMod
Unsigned(c) == c

Span(a, len) == a .. a + len - 1

\* What the functions ask of their callers: strings that end, room for the
\* result, and no overlap, but for memcpy() to a lower address.  Of a text that
\* strncmp() is given, either the end or the first k bytes are there.
Legal(m, f, a, b, k) ==
  CASE f = "strlen"  -> IsString(m, a)
    [] f = "strcmp"  -> IsString(m, a) /\ IsString(m, b)
    [] f = "strncmp" -> (IsString(m, a) \/ a + k <= Size) /\ (IsString(m, b) \/ b + k <= Size)
    [] f = "memcmp"  -> a + k <= Size /\ b + k <= Size
    [] f = "memset"  -> a + k <= Size
    [] f = "memcpy"  -> a + k <= Size /\ b + k <= Size /\ (a <= b \/ b + k <= a)
    [] f = "strncpy" -> /\ a + k <= Size /\ IsString(m, b)
                        /\ Span(a, k) \cap b .. EndOf(m, b) = {}
    [] f = "strcpy"  -> /\ IsString(m, b) /\ a + LenOf(m, b) < Size
                        /\ Span(a, LenOf(m, b) + 1) \cap b .. EndOf(m, b) = {}
    [] f = "strcat"  -> /\ IsString(m, a) /\ IsString(m, b)
                        /\ EndOf(m, a) + LenOf(m, b) < Size
                        /\ a .. EndOf(m, a) + LenOf(m, b) \cap b .. EndOf(m, b) = {}

Counted == {"strncmp", "memcmp", "memset", "memcpy", "strncpy"}
Functions == Counted \cup {"strlen", "strcmp", "strcpy", "strcat"}

Init ==
  /\ mem \in [Addr -> Bytes] /\ pc = "idle"
  /\ call = [f |-> "none", a |-> 0, b |-> 0, n |-> 0, mem |-> mem]
  /\ p = 0 /\ q = 0 /\ n = 0 /\ ret = 0

\* bcmp() is memcmp(); bzero() is memset() with 0.
Call(f, a, b, k) ==
  /\ pc = "idle"
  /\ f \notin Counted => k = 0
  /\ f = "strlen" => b = 0
  /\ IF f = "memset" THEN b \in Bytes ELSE b \in Addr
  /\ Legal(mem, f, a, b, k)
  /\ call' = [f |-> f, a |-> a, b |-> b, n |-> k, mem |-> mem]
  /\ pc' = f /\ p' = a /\ q' = b /\ n' = k
  /\ UNCHANGED <<mem, ret>>

Return(v) == pc' = "done" /\ ret' = v /\ UNCHANGED <<mem, p, q, n>>
Stay == UNCHANGED <<pc, ret>>
Write(a, v) == mem' = [mem EXCEPT ![a] = v]

Strlen ==
  /\ pc = "strlen"
  /\ IF mem[p] # 0 THEN p' = p + 1 /\ n' = n + 1 /\ Stay /\ UNCHANGED <<mem, q>>
     ELSE Return(n)

Strcmp ==
  /\ pc = "strcmp"
  /\ IF mem[p] # 0 /\ mem[p] = mem[q]
     THEN p' = p + 1 /\ q' = q + 1 /\ Stay /\ UNCHANGED <<mem, n>>
     ELSE Return(Signed(mem[p]) - Signed(mem[q]))

\* strncmp() and memcmp() differ in the sign of a char: neither looks for '\0'.
Difference(f, x, y) ==
  IF f = "memcmp" THEN Unsigned(x) - Unsigned(y) ELSE Signed(x) - Signed(y)

CompareCounted(f) ==
  /\ pc = f
  /\ IF n = 0 THEN Return(0)
     ELSE IF mem[p] # mem[q] THEN Return(Difference(f, mem[p], mem[q]))
     ELSE p' = p + 1 /\ q' = q + 1 /\ n' = n - 1 /\ Stay /\ UNCHANGED mem

LeavesMemory == n > 0 /\ Size \in {p, q}

Strncmp == ~LeavesMemory /\ CompareCounted("strncmp")

\* What is read behind the memory, and whether it can be, is not known.
StrncmpBeyond ==
  /\ pc = "strncmp" /\ LeavesMemory
  /\ pc' = "beyond"
  /\ UNCHANGED <<mem, p, q, n, ret>>

Memcmp == CompareCounted("memcmp")

Strncpy ==
  /\ pc = "strncpy"
  /\ IF n = 0 THEN Return(0)
     ELSE /\ Write(p, mem[q]) /\ p' = p + 1 /\ n' = n - 1
          /\ q' = IF mem[q] = 0 THEN q ELSE q + 1
          /\ Stay

\* The bytes up to the '\0', and then the '\0'.
CopyString(loop) ==
  /\ pc = loop
  /\ Write(p, mem[q])
  /\ IF mem[q] = 0 THEN pc' = "done" /\ UNCHANGED <<p, q>>
     ELSE p' = p + 1 /\ q' = q + 1 /\ UNCHANGED pc
  /\ UNCHANGED <<n, ret>>

Strcpy == CopyString("strcpy")

StrcatCopy == CopyString("strcat_copy")

StrcatFindEnd ==
  /\ pc = "strcat"
  /\ IF mem[p] # 0 THEN p' = p + 1 /\ UNCHANGED pc
     ELSE pc' = "strcat_copy" /\ UNCHANGED p
  /\ UNCHANGED <<mem, q, n, ret>>

\* Mutant: the last byte comes first.
Memcpy_Backwards ==
  /\ pc = "memcpy"
  /\ IF n = 0 THEN Return(0)
     ELSE Write(p + n - 1, mem[q + n - 1]) /\ n' = n - 1 /\ Stay /\ UNCHANGED <<p, q>>

Memcpy ==
  /\ pc = "memcpy"
  /\ IF n = 0 THEN Return(0)
     ELSE Write(p, mem[q]) /\ p' = p + 1 /\ q' = q + 1 /\ n' = n - 1 /\ Stay

Memset ==
  /\ pc = "memset"
  /\ IF n = 0 THEN Return(0)
     ELSE Write(p, q) /\ p' = p + 1 /\ n' = n - 1 /\ Stay /\ UNCHANGED q

Next ==
  \/ \E f \in Functions, a \in Addr, b \in Addr \cup Bytes, k \in 0 .. Size : Call(f, a, b, k)
  \/ /\ \/ Strlen \/ Strcmp \/ Strncmp \/ StrncmpBeyond \/ Memcmp \/ Strncpy
        \/ Strcpy \/ StrcatFindEnd \/ StrcatCopy \/ Memcpy \/ Memset
     /\ UNCHANGED call

Spec == Init /\ [][Next]_vars

-----------------------------------------------------------------------------
\* The type invariant: the pointers are at most one byte beyond the memory.
TypeOK ==
  /\ mem \in [Addr -> Bytes] /\ p \in 0 .. Size /\ q \in 0 .. Size \cup Bytes
  /\ n \in 0 .. Size /\ ret \in -ByteMod .. ByteMod + Size
  /\ pc \in Functions \cup {"idle", "strcat_copy", "done", "beyond"}

\* Nothing is read behind the '\0' of a string, but by strncmp(): who stands at
\* a pointer and is not done is within the strings as they were given.
StringsAreReadToTheirEnd ==
  /\ pc \in {"strlen", "strcmp", "strcat"} => p <= EndOf(call.mem, call.a)
  /\ pc \in {"strcmp", "strcpy", "strcat_copy", "strncpy"} => q <= EndOf(call.mem, call.b)

\* What a call may write.
Destination ==
  LET a == call.a  b == call.b  m == call.mem
  IN CASE call.f \in {"memset", "memcpy", "strncpy"} -> Span(a, call.n)
       [] call.f = "strcpy" -> Span(a, LenOf(m, b) + 1)
       [] call.f = "strcat" -> Span(EndOf(m, a), LenOf(m, b) + 1)
       [] OTHER -> {}

\* No byte is written but those that are the result, at any time of the call.
OnlyTheDestinationIsWritten ==
  \A i \in Addr : mem[i] # call.mem[i] => i \in Destination

\* The result of a copy is the source as it was at the call: strncpy() fills up
\* with '\0', memcpy() may overwrite its source, strcat() joins the strings.
CopiesAreExact ==
  pc = "done" =>
    LET a == call.a  b == call.b  m == call.mem
    IN CASE call.f = "memset"  -> \A i \in Span(0, call.n) : mem[a + i] = b
         [] call.f = "memcpy"  -> \A i \in Span(0, call.n) : mem[a + i] = m[b + i]
         [] call.f = "strncpy" -> \A i \in Span(0, call.n) :
                                    mem[a + i] = IF i < LenOf(m, b) THEN m[b + i] ELSE 0
         [] call.f = "strcpy"  -> \A i \in 0 .. LenOf(m, b) : mem[a + i] = m[b + i]
         [] call.f = "strcat"  -> \A i \in 0 .. LenOf(m, b) : mem[EndOf(m, a) + i] = m[b + i]
         [] OTHER -> TRUE

\* The order of the first k bytes at a and b: the first difference decides.
Less(m, a, b, k, Value(_)) ==
  \E i \in Span(0, k) : /\ Value(m[a + i]) < Value(m[b + i])
                        /\ \A j \in Span(0, i) : m[a + j] = m[b + j]

\* The comparisons are the lexicographic orders: of strings with signed chars
\* (and not with unsigned ones, as in C), of bytes without; strlen() is the
\* distance of the '\0'.
ComparisonsAreOrders ==
  pc = "done" =>
    LET a == call.a  b == call.b  m == call.mem
        Orders(k, Value(_)) == /\ ret < 0 <=> Less(m, a, b, k, Value)
                               /\ ret > 0 <=> Less(m, b, a, k, Value)
    IN CASE call.f = "memcmp"  -> Orders(call.n, Unsigned)
         [] call.f = "strcmp"  -> Orders(Min({LenOf(m, a), LenOf(m, b)}) + 1, Signed)
         [] call.f = "strlen"  -> ret = LenOf(m, a)
         [] OTHER -> TRUE

\* The order of what strncmp() is to compare: at most k chars, and none behind
\* a '\0'.
LessUpToEnd(m, a, b, k) ==
  \E i \in Span(0, k) : /\ a + i < Size /\ b + i < Size
                        /\ \A j \in Span(0, i) : m[a + j] = m[b + j] /\ m[a + j] # 0
                        /\ Signed(m[a + i]) < Signed(m[b + i])

\* Both are the same string, and it ends before the last of k chars.
EndTogether(m, a, b, k) ==
  \E i \in Span(0, k - 1) : /\ a + i < Size /\ b + i < Size
                            /\ \A j \in Span(0, i + 1) : m[a + j] = m[b + j]
                            /\ m[a + i] = 0

Behind(m, a, to) == \E i \in a .. to - 1 : m[i] = 0

\* strncmp(), which does not look for a '\0', compares up to it all the same,
\* unless the strings are equal and end before n: then, and only then, it goes
\* on behind their ends, maybe out of memory, and its result means nothing.
StrncmpUnlessEndTogether ==
  call.f = "strncmp" =>
    LET a == call.a  b == call.b  m == call.mem
        endTogether == EndTogether(m, a, b, call.n)
    IN /\ pc = "done" /\ ~endTogether => /\ ret < 0 <=> LessUpToEnd(m, a, b, call.n)
                                         /\ ret > 0 <=> LessUpToEnd(m, b, a, call.n)
       /\ pc = "strncmp" /\ n > 0 /\ ~endTogether => ~Behind(m, a, p) /\ ~Behind(m, b, q)
       /\ pc \in {"done", "beyond"} /\ endTogether => Behind(m, a, p) /\ Behind(m, b, q)
       /\ pc = "beyond" => endTogether
=============================================================================
