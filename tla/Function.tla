------------------------------ MODULE Function ------------------------------
(***************************************************************************)
(* rlib/function.h: Function (and ClassFunction) owns an object that holds *)
(* a pointer to a function and its argument; FunctionBase, the member of   *)
(* the classes that call back, owns a duplicate of such an object, or      *)
(* points to its own dummy.  A function that is called may do anything     *)
(* with all of them, also copy to the FunctionBase it is called through.   *)
(* One thread: nothing here is locked (function.h:149 asks whether Copy()  *)
(* should be), so the callers must be.                                     *)
(***************************************************************************)
EXTENDS Naturals, SequencesExt

CONSTANTS
  Originals,  \* the Function objects
  Bases,      \* the FunctionBase objects
  Callees,    \* pairs of a function and its argument
  Addresses,  \* of the memory that virtmem_ctrl has
  Nullptr,    \* _func of an object that was not initialized or was cleared
  NoFunction, \* the content of a FunctionBaseObj, which has no _func
  Dummy,      \* the address of the dummy of a FunctionBase
  Nowhere,    \* where a Function or FunctionBase is that does not exist
  MaxDepth    \* bound of the model: calls within calls

FunctionAssumption ==
  /\ Originals \cap Bases = {} /\ MaxDepth \in Nat
  /\ {Nullptr, NoFunction} \cap Callees = {} /\ Nullptr # NoFunction
  /\ {Dummy, Nowhere} \cap Addresses = {} /\ Dummy # Nowhere
  /\ Cardinality(Addresses) >= Cardinality(Originals \cup Bases)

VARIABLES
  heap,   \* the objects: an address, and _func and _arg of the object there
  obj,    \* _obj of each Function and FunctionBase
  calls,  \* the calls of Execute() under way, the innermost last
  bad,    \* history: freed memory was read or a null pointer was called
  meant   \* history: what was last given to each of them

vars == <<heap, obj, calls, bad, meant>>

Generic == Originals \cup Bases
Free == Addresses \ DOMAIN heap
Exists(g) == obj[g] # Nowhere

\* What is at an address; the dummy is never changed.
Content(a) == IF a = Dummy THEN NoFunction ELSE heap[a]

Init ==
  /\ heap = [a \in {} |-> Nullptr]
  /\ obj = [g \in Generic |-> Nowhere]
  /\ calls = <<>> /\ bad = FALSE
  /\ meant = [g \in Generic |-> Nullptr]

\* The program goes on when no call is under way, or within the function called.
Running == \A n \in DOMAIN calls : n = Len(calls) => calls[n].pc = "callee"

With(a, v) == [x \in DOMAIN heap \cup {a} |-> IF x = a THEN v ELSE heap[x]]
Without(h, a) == Restrict(h, DOMAIN h \ {a})

NewFunction(f) ==
  /\ Running /\ ~Exists(f)
  /\ \E a \in Free : heap' = With(a, Nullptr) /\ obj' = [obj EXCEPT ![f] = a]
  /\ meant' = [meant EXCEPT ![f] = Nullptr]
  /\ UNCHANGED <<calls, bad>>

NewBase(b) ==
  /\ Running /\ ~Exists(b)
  /\ obj' = [obj EXCEPT ![b] = Dummy]
  /\ meant' = [meant EXCEPT ![b] = NoFunction]
  /\ UNCHANGED <<heap, calls, bad>>

\* ~Function(), ~FunctionBase().
Delete(g) ==
  /\ Running /\ Exists(g)
  /\ heap' = Without(heap, obj[g])
  /\ obj' = [obj EXCEPT ![g] = Nowhere]
  /\ UNCHANGED <<calls, bad, meant>>

\* Function::Init().
InitFunction(f, c) ==
  /\ Running /\ Exists(f)
  /\ heap' = [heap EXCEPT ![obj[f]] = c]
  /\ meant' = [meant EXCEPT ![f] = c]
  /\ UNCHANGED <<obj, calls, bad>>

\* Clear() is virtual: that of FunctionBaseObj does nothing.
Clear(g) ==
  /\ Running /\ Exists(g)
  /\ IF Content(obj[g]) = NoFunction THEN UNCHANGED <<heap, meant>>
     ELSE /\ heap' = [heap EXCEPT ![obj[g]] = Nullptr]
          /\ meant' = [meant EXCEPT ![g] = Nullptr]
  /\ UNCHANGED <<obj, calls, bad>>

\* What is left after the old object is deleted, if it is not the dummy.
Released(b) == Without(heap, obj[b])

\* GetObj()->Duplicate(), when the allocation returns a.
Duplicate(h, g, a) ==
  [address |-> a, heap |-> [x \in DOMAIN h \cup {a} |->
                             IF x = a THEN Content(obj[g]) ELSE h[x]]]

\* FunctionBase::Copy(), never of the FunctionBase itself.
Copy(b, g) ==
  /\ Running /\ Exists(b) /\ Exists(g) /\ b # g
  /\ \E a \in Addresses \ DOMAIN Released(b) :
       LET d == Duplicate(Released(b), g, a)
       IN  heap' = d.heap /\ obj' = [obj EXCEPT ![b] = d.address]
  /\ meant' = [meant EXCEPT ![b] = meant[g]]
  /\ UNCHANGED <<calls, bad>>

-----------------------------------------------------------------------------
Top == calls[Len(calls)]
TopAt(pc) == calls' = [calls EXCEPT ![Len(calls)].pc = pc]

\* Execute() of a GenericFunction: GetObj().
Execute(g) ==
  /\ Running /\ Exists(g) /\ Len(calls) < MaxDepth
  /\ calls' = Append(calls, [object |-> obj[g], pc |-> "can"])
  /\ UNCHANGED <<heap, obj, bad, meant>>

Live(a) == a = Dummy \/ a \in DOMAIN heap

MayCall(v) == v \in Callees

\* CanExecute(), and Execute() of the FunctionBaseObj returns if it says no.
CanExecute ==
  /\ calls # <<>> /\ Top.pc = "can"
  /\ IF Live(Top.object)
     THEN /\ UNCHANGED bad
          /\ IF MayCall(Content(Top.object)) THEN TopAt("sub")
             ELSE calls' = Front(calls)
     ELSE bad' = TRUE /\ calls' = Front(calls)
  /\ UNCHANGED <<heap, obj, meant>>

\* ExecuteSub() reads _func and _arg and calls; nothing is read afterwards.
ExecuteSub ==
  /\ calls # <<>> /\ Top.pc = "sub"
  /\ bad' = (bad \/ ~Live(Top.object) \/ Content(Top.object) \notin Callees)
  /\ TopAt("callee")
  /\ UNCHANGED <<heap, obj, meant>>

\* Mutant: Execute() looks at its object again after the call.
Return_LooksAgain ==
  /\ calls # <<>> /\ Top.pc = "callee"
  /\ bad' = (bad \/ ~Live(Top.object))
  /\ calls' = Front(calls)
  /\ UNCHANGED <<heap, obj, meant>>

Return ==
  /\ calls # <<>> /\ Top.pc = "callee"
  /\ calls' = Front(calls)
  /\ UNCHANGED <<heap, obj, bad, meant>>

Next ==
  \/ \E f \in Originals : NewFunction(f) \/ \E c \in Callees : InitFunction(f, c)
  \/ \E b \in Bases : NewBase(b) \/ \E g \in Generic : Copy(b, g)
  \/ \E g \in Generic : Delete(g) \/ Clear(g) \/ Execute(g)
  \/ CanExecute \/ ExecuteSub \/ Return

Spec == Init /\ [][Next]_vars

-----------------------------------------------------------------------------
\* The type invariant.
TypeOK ==
  /\ DOMAIN heap \subseteq Addresses
  /\ \A a \in DOMAIN heap : heap[a] \in Callees \cup {Nullptr, NoFunction}
  /\ obj \in [Generic -> Addresses \cup {Dummy, Nowhere}]
  /\ calls \in Seq([object : Addresses \cup {Dummy}, pc : {"can", "sub", "callee"}])
  /\ Len(calls) <= MaxDepth /\ bad \in BOOLEAN
  /\ meant \in [Generic -> Callees \cup {Nullptr, NoFunction}]

\* Every object has one owner: none is leaked by Copy(), and none is shared,
\* to be deleted twice.
EachObjectHasOneOwner ==
  /\ \A a \in DOMAIN heap : \E g \in Generic : obj[g] = a
  /\ \A g, h \in Generic : obj[g] = obj[h] /\ obj[g] \in Addresses => g = h
  /\ \A g \in Generic : Exists(g) => Live(obj[g])

\* What a Function or a FunctionBase would call is what was last given to it:
\* a new Init(), a Clear() or the end of the original does not reach the copy.
CopiesAreIndependent ==
  \A g \in Generic : Exists(g) => Content(obj[g]) = meant[g]

\* A call never reads an object that was deleted, nor calls a null pointer,
\* also when the function called replaces, clears or deletes what it was called
\* through.
OnlyLiveFunctionsAreCalled == ~bad
=============================================================================
