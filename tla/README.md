# Raph_Library in TLA+

Raph_Library is the library shared by the Raphine kernel and by programs that
run it on POSIX threads: locks, per-CPU task queues, delayed tasks, buffers
that wake a task up, polling, a UDP/TCP packet socket and a terminal. It has no
tests. What makes it hard is that almost every object is shared: by the CPUs
that execute `TaskCtrl::Run()`, by other threads, by interrupt handlers and by
the task handlers themselves, and that much is read before a lock is taken or
used after it was released.

This directory holds TLA+ modules translated from that code, TLC runs that
check them on small instances, and proofs, checked by TLAPS, of the most
important properties for all instances. `PROJECT.json` maps every definition to
the lines it models, lists the runs, the mutants that show that each property
can fail, the theorems, the findings and the hazards.

## 1. The system

| component | state | operations | used by |
|---|---|---|---|
| `SpinLock`, `Locker` (`spinlock.{h,cc}`) | `_flag` (its parity: held or not), `_id` (the holder) | `Lock`, `Trylock`, `Unlock`, `IsLocked` | everything below |
| `IntSpinLock`, kernel build | the same, `_did_stop_interrupt` | the same, with `cli`/`sti` | `TaskCtrl`, `CountableTask`, `Callout`, `Tty` |
| `TaskCtrl`, `Task` (`task.{h,cc}`) | per CPU two linked lists with guards, `state`, the callout list; per task `_next`, `_prev`, `_cpuid`, `_status` | `Setup`, `Register`, `Remove`, `Run` | all that follow |
| `CountableTask` (`task.{h,cc}`) | `_cnt`, `_cpuid`, a task | `SetFunc`, `Inc`, `HandleSub` | clients, interrupt handlers |
| `Callout`, `LckCallout` (`task.{h,cc}`) | `_state`, `_time`, `_next`, a task | `SetHandler`, `Cancel`, `HandleSub` | clients, `Run` |
| `Functional` (`functional.{h,cc}`) | `_func`, `_state`, a task | `SetFunction`, `WakeupFunction`, `Handle` | `FunctionalQueue`, `FunctionalRingBuffer` |
| `Queue` (`queue.{h,cc}`) | linked containers, `_last` | `Push`, `Pop`, `IsEmpty` | `Tty` through `FunctionalQueue` |
| `RingBuffer` (`buf.h`) | array, `_head`, `_tail` | `Push`, `Pop`, `IsFull`, `IsEmpty` | `PoolingSocket` |
| `ObjectList` (`list.h`) | linked containers, `_last` | `PushBack`, `GetBegin`, `GetNext`, `IsEmpty` | kernel |
| `Polling`, `PollingFunc` (`polling.h`) | `_state`, `_cpuid`, a task | `RegisterPolling`, `RemovePolling`, `HandleSub` | `PoolingSocket` |
| `PoolingSocket` (`net/psocket.{h,cc}`) | four ring buffers of packets, tables of TCP and UDP clients, time to live | `Open`, `Close`, `Poll`, `RegisterUdpAddress`, `TransmitPacket`, `ReceivePacket`, ... | applications |
| `Tty` (`tty.{h,cc}`) | a `FunctionalQueue` of `String` chains, `_lock` | `Cprintf`, `CprintfRaw`, `DoString`, `Handle`, formatting | everything that prints |
| `Timer`, `PosixTimer` | `_cnt_clk_period` | `GetCntAfterPeriod`, `IsGreater`, `IsTimePassed` | `Callout`, `Run` |
| `PthreadCtrl`, `CpuCtrl` (`thread.{h,cc}`, `cpu.h`) | `_thread_ids` | `Setup`, `GetId`, `IsValidId` | locks, `Run` |
| `Function` family (`function.h`) | a callable object | `Init`, `Copy`, `Execute`, `CanExecute` | all handlers |
| `libc/` | none | `strlen` ... `strtoul` | the kernel, `Tty` |
| `VirtmemCtrl`, `ErrorContainer`, `raph.h`, `libglobal`, `DebugSpinLock` | none worth a model | | |

How they interact: a client or an interrupt handler calls `Inc`, `Push`,
`SetHandler` or `RegisterPolling` on any thread. These change the object's own
state under its own lock (or, for `Polling`, under none) and call
`TaskCtrl::Register`, which appends the object's task to the queue of one CPU
under that queue's lock. That CPU, in `Run()`, takes the task out, calls its
handler **without** the lock, and looks at the task's status again afterwards.
The handler changes the object's state and may register its task again. The
correctness of every component above `TaskCtrl` is therefore an agreement
between two pieces of state that are never changed together: its own state
("is there work, am I registered?") and the task's place in the queue.

What is hard, and what makes each component correct:

* **SpinLock** - interleavings of plain reads, a compare-and-swap and a
  non-atomic `_flag++`; a counter that wraps; `_id`, which is always a little
  late. Correct: mutual exclusion, parity is held, the self-deadlock assertion
  is neither spurious nor incomplete, the lock never gets stuck.
* **TaskCtrl** - `Register`, `Remove` and `Run` in any order on two lists per
  CPU; a task that is registered while it runs; `_cpuid` read before the lock.
  Correct: the lists stay well formed, a task is queued once and executed by one
  CPU at a time, in order of registration, and eventually.
* **CountableTask** - `Inc` while the task waits, runs or has just run.
  Correct: as many executions as calls of `Inc`.
* **Callout** - three locks in two orders, `_state` changed without them, time
  that wraps. Correct: executed once, not before its time, never after
  `Cancel`; no deadlock.
* **Functional** - the wakeup that is skipped because the handler is believed to
  be running. Correct: no push is left unserved.
* **Queue, RingBuffer** - work outside the lock; wrap-around. Correct: a
  first-in first-out queue, answers that were true at some moment of the call,
  memory with one owner.
* **Polling** - unlocked check-then-act. Correct: runs on one CPU while
  registered, stops when removed, and a later registration is not forgotten.
* **PoolingSocket** - a pool of packets that circulates through four buffers;
  full tables; errors of `write`. Correct: no packet is lost or owned twice.
* **Tty** - two ways to print, chains of strings. Correct: every string is
  printed once and freed once, in order.
* **IntSpinLock** - handlers that interrupt at any place; a field of the lock that
  is written without it. Correct: who holds the lock is not interrupted, no handler
  waits for its own CPU, interrupts come back.
* **Run() of the kernel build** - a CPU halts while others register tasks.
  Correct: no task and no callout sleeps with it for ever.
* **Timer** - counts that wrap. Correct: no wait ends early, every wait ends.
* **Function** - objects that own other objects, used by the functions that are
  called through them. Correct: no leak, no double deletion, no stale call.
* **ObjectList** - readers without the lock. Correct: a reader sees a beginning
  of the list and misses nothing that was there.
* **Formatting, libc** - loops over characters, lengths and digits. Correct: the
  reference result, nothing read or written beyond its end.
* **PthreadCtrl** - thread numbers read while they are written. Correct: two
  threads that run tasks never have the same number.

## 2. The modules

| module | models | builds on |
|---|---|---|
| `SpinLock` | `SpinLock` access by access | |
| `TaskFifo` | what `TaskCtrl` promises: one first-in first-out queue per CPU (abstract) | |
| `TaskCtrl` | `TaskCtrl` and `Task`, pointer by pointer | implements `TaskFifo` |
| `Pending` | what `CountableTask` promises (abstract) | |
| `CountableTask` | `CountableTask` | uses `TaskFifo`, implements `Pending` |
| `Functional` | `Functional` with the buffer of its two subclasses | uses `TaskFifo` |
| `BoundedFifo` | what the buffers promise (abstract) | |
| `RingBuffer` | `RingBuffer`, index by index | implements `BoundedFifo` |
| `Queue` | `Queue`, pointer by pointer, with its memory | implements `BoundedFifo` |
| `Callout` | `Callout`, `LckCallout`, the callout list and the part of `Run()` that looks at it | uses `TaskFifo` |
| `Polling` | `Polling`, `PollingFunc` | uses `TaskFifo` |
| `PoolingSocket` | `PoolingSocket`, call by call of `Poll()` | the ring buffers are bounded sequences (`RingBuffer`) |
| `Tty` | the way of a string through `Tty`: queue, task, lock | composed with `Functional` |
| `TtyString` | `Tty::String`, array by array | |
| `TtyNumber` | how a number becomes digits | |
| `TtyFormat` | `Cvprintf_sub()`, stage by stage of a conversion | |
| `IntSpinLock` | `IntSpinLock` of the kernel build, nested, with the interrupts of each CPU | |
| `KernelSleep` | timer, `hlt` and inter-processor interrupts in `Run()` | |
| `Timer` | `Timer`, `PosixTimer` | |
| `Function` | `Function`, `ClassFunction`, `FunctionBase` with their memory | |
| `PthreadCtrl` | `PthreadCtrl` | |
| `ObjectList` | `ObjectList` and its readers | |
| `LibString`, `Strtoul` | `libc/string.h` | |
| `TaskClasses` | `CountableTask`, `Polling` and `Callout` next to each other, one of them at a time | takes in the three |
| `Output` | `Functional` and `Tty` next to each other | takes in the two |
| `LinkedList` | what a chain of links holds, what a sequence holds | used by the mappings and the proofs |
| `MCSpinLock`, `MCProgress`, `MCTaskCtrl`, `MCPoolingSocket`, `MCTasks`, `MCFunctional`, `MCShared`, `MCSequential`, `MCCallout` | instances for TLC, several components at a time, and the refinement mappings | |
| `SpinLockProofs`, `TaskCtrlProofs`, `TaskClassProofs`, `FunctionalProofs`, `SharedProofs`, `PoolingSocketProofs`, `SequentialProofs` | the theorems about `SpinLock`, `TaskCtrl`, `TaskClasses`, `Output`, `MCShared`, `PoolingSocket` and `MCSequential`, and their proofs | |
| `Numerals` | what digits are worth | the reference of `TtyNumber`, `TtyFormat` and `Strtoul` |
| `ListLemmas` | lemmas about chains of links and about queues | used by five of the above |

The stack is checked layer by layer. `SpinLock` is held by one thread at a time, which
is why a section under a lock is one action in every other module. `TaskCtrl`
implements `TaskFifo`, which is why `CountableTask` and `Functional` use the
actions of `TaskFifo` (through `INSTANCE`) for the queue; `Callout` and `Polling`
do the same, and `Tty` in turn uses the actions of `Functional`. What the code does
*outside* of a lock is never merged with a section: it is an action of its own.

How the state of the modules corresponds to the code:

* **SpinLock**: `flag` is `_flag` modulo `FlagMod`, `id` is `_id`, `reg` is the
  local copy `flag` (and the temporary of `_flag++`), `pc` the next access. `how`
  is the only variable that is not in the code: it says how the client got the
  lock. `FlagMod` stands for 2^32; the proofs hold for every even value.
* **TaskCtrl**: `next`, `prev`, `status`, `cpuid` are the fields of `Task`;
  `top`, `bottom`, `topSub`, `bottomSub`, `state` those of `TaskStruct`. `pc` and
  `cur` are the position of `Run()` and its local `t`; `rmTask`, `rmCpu` are the
  argument of `Remove()` and its copy of `_cpuid`. `panic` is a failed `kassert`.
  `Run()` is eight actions, cut where it takes or leaves a lock: `RunEnter`,
  `RunWake`, `RunCallout`, `RunPop`, `RunExecute`, `RunFinish`, `RunCheck`,
  `RunSleep`. The callout part is abstracted to its effect here: it may register
  one task; whether callouts are pending is a free choice in `RunSleep`. The
  microseconds that `Run()` sleeps in the user build have no model; `hlt`, the
  timer and the interrupts of the kernel build are in `KernelSleep`.
  `Home` is the set of CPUs on which the users of a task register it.
* **CountableTask**: `cnt`, `cpuid`, and `hpc`, the position in `HandleSub()`.
* **Functional**: `fstate` is `_state`, `func` is `_func.CanExecute()`, `buf` the
  content of the queue or ring buffer, `ppc`/`target` the position of a client
  in `Push()` and `hpc` the position of `Handle()`. The user's function takes at
  least one item if there is one, or more (`HandleFuncPops`), as the handler of
  `Tty` does; other threads may take items too (`Pop`).
* **RingBuffer**: `buffer`, `head`, `tail`; `answer` is what the last call of
  each thread returned, so that a wrong return value is a wrong state.
* **Queue**: `data`, `next` are the fields of the containers, `last` is `_last`,
  `held` the local `c`, `free` the memory that is not allocated. Freed memory is
  overwritten with `Unset`: a read after free would show.

* **Callout**: `_state`, `_next` and the guard of each CPU's list are as in the
  code; the lock of a callout is explicit because it is held across sections under
  `dlock`. A time is the ticks left until it has passed. `SetHandler()`,
  `Cancel()`, `HandleSub()` and `Run()` are cut where they take a lock or fail to
  (`Trylock`); `fault` is a null pointer that was followed. Any thread may call
  `Cancel()` at any time and `SetHandler()` whenever `task.h:150` allows it: the
  callout was executed or cancelled since it was last set (`armed`), also by its own
  function. `crossed` is a history: a `Cancel()` came between two steps of
  `HandleSub()`, which takes no lock, or found the state that `HandleSub()` had written
  over that of a callout its function had set again.
* **Polling**: `_state` is as in the code and every read and write of it a step,
  because no lock protects it.
* **PoolingSocket**: the four buffers are sequences of packets, the tables are
  functions of the slot. `Poll()` is one step per call on a buffer or a socket;
  what a system call answers is a choice. `hand` is the packet `Poll()` works on,
  `mine` those an application has.
* **Tty**: the strings are the items of `Functional`; `printed` says how far a
  thread is in `PrintString()`, `out` which string each printed character is of. Which of the two ways
  `DoString()` takes depends on whether CPU 1 has started (`tty.h:260`).
* **TtyString, TtyNumber, TtyFormat**: `PrintString`, the division loops and the
  walk through the format are loops, one step per iteration; elements that were
  never written hold a mark that must not be printed.
* **IntSpinLock**: `intr` is the interrupt flag of a CPU, `level` how many handlers
  are on top of its program; a context is a pair of CPU and level, and only the
  top one of a CPU takes steps. A lock with a greater number is taken inside of one
  with a smaller, as `Inc()` takes the lock of the task queue and `SetHandler()` takes
  `dlock`. `did` is `_did_stop_interrupt`, `by` the CPU that wrote it, and `misled`
  the contexts that enabled their interrupts because of the value of another CPU while
  they held an outer lock: histories both.
* **KernelSleep**: one CPU; `pc` is its place in the loop, `tasks` how many tasks
  its lists hold, `ipi` an interrupt that was sent and not taken yet.
* **Timer**: `cnt` is the counter modulo `Mod`, `time` the deadline in `BusyUwait()`;
  `asked`, `elapsed` and `early` only remember.
* **Function**: `heap` holds an object with a function and its argument at some addresses; originals
  own one, a `FunctionBase` owns one or points to its dummy; the calls in progress
  are a stack, so that a function may change what it was called through.
* **PthreadCtrl**: `_thread_ids` element by element, with anything but the id of a
  thread where nothing was written.
* **ObjectList**: `next` and `_last` as in the code, one step per access; the lock is
  abstract, its releases order the writes.
* **LibString, Strtoul**: pointers are indices of a small memory or of the text, one
  step per iteration of a loop. `strncmp()` goes on behind the ends of its strings, and
  stops at the label `beyond` where it leaves the memory; so does `TtyFormat` where the
  format is left. `val` of `strtoul()` is kept as the bits of an `int` (`IntMod`), which
  the multiplication reduces and the `return` extends with their sign.

`kassert` throws in the user build and halts the kernel; in the modules it is a
state that the thread never leaves (`lk_failed`, `failed`) or `panic`.

## 3. The runs

**How they are built.** Some runs check one component; others check several that
have to do with each other or are checked in the same way. Such an `MC` module
takes the components in by `INSTANCE`, with variables of their own, and adds a
variable `what` that the initial state chooses: only the component of that name
takes steps, the others rest in their initial state. The state space is the sum of
those of the components, not their product, and nothing is lost, because they share
no state. The fairness of each component is guarded by `what`, since one that rests
owes nothing. A property of such a module is about one or two components and holds
trivially in the behaviours of the others. An invariant includes the type invariant
of its component.

| run | what it asks | instance |
|---|---|---|
| `Progress` | `SpinLock`: mutual exclusion, both directions of the assertion, the lock keeps being handed out. `TaskCtrl`: fair refinement of `TaskFifo`. `KernelSleep`: nothing is left to a CPU that halts | 3 threads, counter modulo 4, reentrant clients; 1 CPU, 3 tasks; 2 tasks at a time |
| `TaskCtrl` | assertions, well-formed lists, refinement of `TaskFifo` | 2 CPUs, 3 tasks (2 + 1), 2 threads in `Remove` |
| `Tasks` | `CountableTask`: counter and task agree, fair refinement of `Pending`. `Polling`: queued while on, polled while on, gone when off. `Callout`, until a `Cancel()` crosses `HandleSub()`: in one place, never early, on demand only, every call returns, executed | 3 tasks on 2 CPUs, at most 3 pending; 2 pollings, 2 threads; 2 callouts (one `LckCallout`), used by another thread, by tasks of their CPU and by their own functions |
| `Functional` | state and task agree, no lost wakeup; strings are printed whole, in order, in full, and deleted afterwards (`Tty`) | 2 objects on 1 CPU, 2 pushing threads, buffers of 1; 2 threads, 3 strings of 2 characters |
| `Shared` | refinements of `BoundedFifo` by `RingBuffer` and `Queue`, one owner per container; what readers of `ObjectList` see and do not miss; every CPU has its number; each `IntSpinLock` is held once, with interrupts off while it is held by `Lock` unless the holder was misled | 2 threads, 4 slots, 2 items; 3 threads, 3 containers; 2 writers, 2 readers, 3 containers; 3 CPUs; 2 CPUs, 2 nested locks, handlers on one CPU, counter modulo 2, `Trylock` too |
| `PoolingSocket` | packets are in one place each and none for receiving is lost; tables and watched sockets agree, addresses stay, nothing is taken away from an application; with more packets also: transmitted packets are taken | 1 TCP and 2 UDP slots, 3 hosts, rings of 2, `Close`/`Open`; 1 TCP and 1 UDP slot, 1 host, rings of 3, `RegisterUdpAddress` |
| `Sequential` | waits end, not early; a `String` prints its text; numbers, formats; string functions; `strtoul`; function objects | counter modulo 64, 5 waits, 2 periods; all texts of up to 7 characters in arrays of 3; all numbers of 8 bits, bases 10 and 16; all formats of 2 directives, the last one cut off anywhere; all memories of 5 bytes of 3 values; all texts of up to 4 of 9 characters, base 0, 8, 10, 16, 36, `int` of 8 and `unsigned long` of 16 bits; 1 `Function`, 2 `FunctionBase`, calls 2 deep |
| `SpinLockFirstUse` | *violated*: the assertion of `Lock()` on a lock that was never taken | 2 threads, `_id` = 0 |
| `TaskCtrlMigrate` | *violated*: a task that changes its CPU | 2 CPUs, 1 task, 1 thread in `Remove` |
| `CalloutEmptyList` | *violated*: the first callout of a CPU | 1 CPU, 1 callout, 1 thread |
| `CalloutCancelled` | *violated*: a callout that is cancelled and set again while `HandleSub()` is on its way | 1 CPU, 1 callout, 1 thread |
| `NestedLocks` | *violated*: an `IntSpinLock` inside of another one, which two CPUs want | 2 CPUs, 2 locks, handlers on one CPU |

**What they show.** The lock is right in every interleaving, with an assertion
that stops exactly the threads that lock twice after `Lock()` - once it has been
used. The two lists per CPU are one queue: tasks run in order of registration
although `Run()` and `Register()` work on different lists, and one that registers
itself for ever does not keep the others waiting. `_state` of `Functional` and
`_cnt` of `CountableTask` agree with the task's place in the queue at every moment
that matters, which is why a skipped registration loses nothing. Work on
containers outside of the lock is safe because a container has one owner at any
time. As long as no `Cancel()` crosses `HandleSub()`, a callout is never lost or linked
twice; two locks taken in both orders do not deadlock because one side only tries, a polling that stays on is polled for
ever although nothing protects its state, strings are printed whole and in order,
packets for receiving are conserved through every answer of the system calls.

**The violations** are disagreements between what a comment or an assertion in
the repository says and what the code does; `PROJECT.json` quotes each line.

* `SpinLockFirstUse`: `_id` is not initialised, so a correct thread whose number
  happens to be there is stopped at the first contention.
* `TaskCtrlMigrate`: `Remove()` reads `_cpuid` before the lock, so a task whose
  users register it on different CPUs can be unlinked from the wrong lists.
* `CalloutEmptyList`: the search in the callout list tests for its end the wrong
  way round, so an empty list is followed through a null pointer.
* `CalloutCancelled`: between its test of the time and its registration `HandleSub()`
  holds no lock. A thread that cancels the callout and sets it again meanwhile, as the
  comment allows, links it into the list; `HandleSub()` then puts it into the task queue
  as well. The same gap lets a callout be executed before its new time (set again
  between the test and the call) or after `Cancel()`.
* `NestedLocks`: `_did_stop_interrupt` is written before the lock is taken. A CPU that
  waits for the inner lock tells its holder to enable the interrupts, which still holds
  the outer one; a handler that wants this one is then stopped by the assertion.

**Where the properties end.** Some are stated of less than one might expect,
because the code does not do more; the notes of the hazards name the lines.

* `NoNullPointerIsFollowed` fails on the first callout, so the run `Tasks` lets that
  read return a value (`NullReads`), as where address 0 is mapped, and goes on. The
  same inverted test puts every later callout in front: an old one is reached for
  sure only once the others are quiet (`ExecutedOnceOthersAreQuiet`).
* `HandleSub()` does not take the callout's lock. What is said of callouts holds until a
  `Cancel()` crosses it (`crossed`): it returns while `HandleSub()` is between its test
  and what follows from it, `HandleSub()` registers the task before a `Cancel()` that has
  let it go writes the state, or the callout was set again by its own function, whose
  state `HandleSub()` then overwrites with `kStopped` (`task.cc:356`), so that this
  `Cancel()` leaves it in the list. In the run `Tasks` the callouts stop there
  (`PastCrossing`); `CalloutCancelled` goes on. A callout that is set again by its own
  function, or after a `Cancel()` that has not crossed, is among what is checked.
* `RegisterPolling()` on another thread, between the test of `HandleSub()` and its
  `RemovePolling()`, is lost; `PollingFollowsItsState` speaks of a state that stays.
* Numbers of network clients are used again; `AddressesStay` says that a number means
  one host until it is cleared, not that a sender knows when it was, and it is stated
  where nobody registers addresses by hand.
* `Close()` and `Open()` are called when no packet is in use: older packets would not
  fit into the buffers that `Open()` has filled again.
* `write()` writes something each time (`WriteResults`): the loop of `Poll()` does not
  end at an answer of 0, and an error moves its offset backwards. `accept()` answers no
  0, and `Close()` and `Open()` are one step: no `Poll()` comes in between.
* Interrupts are off while a lock is held by `Lock()`, unless another CPU has written
  `_did_stop_interrupt` of an inner lock (`InterruptsOffUnlessMisled`); whether they
  come back after the last one depends on the same field, and `Trylock()` does not turn
  them off.
* `strncmp()` does not look for the end of a string: it is an order of strings unless both
  end together before `n`, and reads beyond the memory in that case only
  (`StrncmpUnlessEndTogether`). It and `strcmp()` take a character for signed, as the
  machines the library is built for do, where C asks for unsigned.
* `strtoul()` is right for numbers that an `int` holds, with nothing behind them
  (`IntsAreConverted`). Larger ones lose what an `int` cannot hold and are sign-extended,
  text behind the digits multiplies the number by the base, and `*endptr` is not written
  at the end of the text; `NumberEndsAtEndptr` says exactly so.
* Flags and widths of a format are skipped: `FormatIsFollowed` says that they are and that
  they do no harm to what follows, not that they are obeyed. A format that ends behind
  `%l` or `%ll` is read beyond its end; the model stops there, and shows that no other
  place does so.
* Waits do not go beyond the end of the counter (`MayWrap`).
* After `Trylock()`, which does not record its caller, a thread that calls `Lock()`
  spins for ever; `RelockIsCaught` speaks of `Lock()` only, and `LockIsHandedOut`
  of behaviours in which this does not go on for ever (`Reenters`).

**Bounds.** `FlagMod` = 4: the counter wraps after two critical sections, so
that three threads meet stale copies with an equal value; a larger width only
delays this. Three tasks on two CPUs: a list can be empty, have one task (first
and last) and two (first and last differ); with two removing threads both ends
are removed while `Run()` and `Register()` work on them. `MaxCnt` = 3: the
handler runs with one and with several pending increments. `Capacity` = 1: a buffer
is full after one push, and the wakeup of the pushes that find it full is at stake.
`S` = 4 is small enough to fill and to wrap several times; three containers let every
thread hold one, the list be empty, of one, of two or three nodes, and freed
ones be reused at once. The containers and `MaxCnt` bound only the models: the
code allocates and counts without limit.

Callouts: with a delay in the past and one beyond the interval of `Run()` a callout
is due at once, soon, or not yet; two of them make a list with an order. Sockets: one
slot of a kind is full at once, the second makes a choice; packets of two elements
are written in parts; three hosts want two slots. `TtyNumber` is exhaustive in
8 bits: the code is the same for 32 and 64, and only the number of digits of the
largest power relative to the range changes. `TtyString`: an array of 3 is filled,
filled exactly and followed by two more. `MaxDepth` = 1 and `Handled`: one CPU with a
handler, and another one that writes into its locks, are what it takes to mislead a
holder; more only repeats the same pair (the proofs have any depth, number of locks and
width of the counter). `IntMod` = 256: texts of four characters are numbers below and
above half of the range and beyond it, so that the sign and the loss both show; base 36
has every letter as a digit. `Mod` = 64: a window is 4 counts, so waits of less, of several and of
almost all windows occur. Memories of 5 bytes hold two strings of one character
and an overlap in both directions.

**Fairness.** `TaskCtrl`, `CountableTask`, `Functional`: weak fairness of
`Run(c)` (or of the handler's steps) for every CPU: each CPU has a thread that
never leaves `Run()`, the user build sleeps at most 10 us, and handlers are
assumed to return. `Functional` also assumes that a `Push()` that has begun
ends. No fairness for `Register`, `Inc`, `Push` and other choices of clients.
`Callout` and `Tty`: strong fairness of the steps of calls and of CPUs, since these
wait for locks that are free again and again (`SpinLock` alone does not promise it
to a particular thread: the properties that use it say what holds if nobody is
unlucky for ever), and of time. `Polling`: weak fairness of calls, strong fairness of
the tasks of a CPU that may also call on its own. `PoolingSocket`: weak fairness
of `Poll()`, which is a polling that stays on. `KernelSleep`: the CPU goes on, a timer
that was started sends interrupts, and a pending interrupt is taken.
`SpinLock`: weak fairness of the steps of a thread inside the lock's code
and of its release. The lock itself is not fair, and no property says that a
particular thread gets it. `Shared`, the tables of `PoolingSocket` and `Sequential` are
checked without fairness, and have no liveness properties.

`CHECK_DEADLOCK FALSE` stands in `Progress` and `SpinLockFirstUse`, whose threads may
all end in a failed assertion, and in `Sequential`, whose calls end.

## 4. The proofs

TLC checks the instances above; the theorems hold for all values of the
constants. What they assume is named, and nothing else is assumed:

* the assumptions on constants in the modules (`...Assumption`), which TLC
  evaluates in every run (a module that takes others in by `INSTANCE` assumes
  theirs): null pointers and guards are none of the objects, threads are neither
  CPUs nor objects, the tasks, containers and strings of a program are finitely
  many, sizes and widths are what the code has (a ring of at least two slots, an
  even number of values of a counter);
* `DistinctIds`, `IdIsNobodys` (`SpinLockProofs`): threads have different numbers
  and `_id` starts with no thread's number. `SpinLockFirstUse` shows that the
  second is needed;
* `Affinity` (`TaskCtrlProofs`): a task is registered on one CPU only.
  `TaskCtrlMigrate` shows that it is needed;
* `~MayWrap` (`NeverEarlyHolds`): no wait goes over the end of the counter.

Each argument has the same form: an inductive invariant, which TLC has checked on
the instance first, one lemma for each kind of step that keeps it, and the
property as a consequence.

**SpinLockProofs.** `MutualExclusion` is not inductive: it does not exclude two
holders of an even counter. `LockInv` adds that the parity is odd exactly when
somebody holds the lock, that the holder is unique, and that a thread about to
write in `Unlock()` has the current value. From it: `OneHolder`,
`ParityCorrect`, `UnlockLosesNothing`. `IdInv` adds what `_id` may contain at
each label: never the number of a thread that does not hold the lock by
`Lock()`. From it: `AssertionsAreSound`, `AssertionsAreComplete`.
The wrap-around needs one lemma, `SuccFlipsParity`: modulo an even number the successor changes
parity.

**ListLemmas** has no theorem of its own. Its lemmas are about what the components
share: the chain of links behind a guard and the sequence of what is on it
(`LinkedList`: what it is after an append, an unlinking, a removal at the front),
queues in which everything waits once, and sequences seen as sets. `Chain` follows the
links with a recursive function; that this is the sequence the invariants speak of is
shown by looking at the last place at which it would not be.

**TaskCtrlProofs.** The central invariant, `QueuesWellFormed`, says that a
function `in` exists that gives every task the guard of its list (or `Null`),
such that both directions of the links agree, stay within a list and end where
`bottom` and `bottomSub` say. Stating it with this function, not with a
sequence, makes it provable without induction: an operation changes `in` at one
task, and three lemmas (append, unlink, swap) show that the changed function is
a witness again. `TaskCtrlInv` adds that a task in hand is on its home CPU, that
`Remove()`'s copy of `_cpuid` is right (`CpuIsHome`), and what `state` is at each
label. Theorems: `KassertsHold`, `ListsAreWellFormed`, `NeverTwiceAtOnce`,
`StateIsRight`; `TypeCorrect` needs no hypothesis. `TaskCtrlRefinement`: the list
that `Run()` works on followed by the other one, read along `_next`, is the queue
of `TaskFifo`. `FifoInv` joins that sequence to the witness `in` above; then an
append, an unlinking and the swap of the lists each are one operation of the
abstract queue or none.

**TaskClassProofs.** A lemma, `EachOnItsOwn`, shows that a behaviour of `TaskClasses` is one of
each class, so that each can be proved alone.
*CountableTask*: `CountIsTheTask` with the types and the facts on the queue is
inductive (`Inv`). `CounterIsRight` follows; `NeverTooOften` is the safety part of
the refinement of `Pending`. *Polling*: `PollInv` is what the run checks with the
facts on the queue. *Callout*: `RegisteredIsInOnePlace` counts places and is far from
inductive. `CalloutInv` says that a function `spot` exists that puts every callout at
one place - nowhere, in the list, on the way from it to the task queue, in the task
queue, in the hand of its CPU, in a call that has not linked it yet - and that every
variable agrees with it; the stale `_next` of a callout that is being moved is not
counted as a link, and the lock of the callout is what keeps `Cancel()` away from one
that is being moved. `StateInv` adds what `_state` tells about the place while a
`Cancel()` relies on it. The invariant ends where a `Cancel()` has crossed `HandleSub()`:
`CalloutCancelled` shows that it must. Theorems: `NothingIsForgottenHolds`,
`ExecutedWhenAskedHolds`, the latter an action property: never before its time, never
twice nor after a `Cancel()`.

**FunctionalProofs.** `StateIsRight`: `_state` and the task's place agree, as for
`CountableTask`. `OutputIsInOrderHolds` is about what `Tty` prints. `OutputIsInOrder`
speaks of the output alone; what makes it inductive, `TtyInv`, is where the strings
are that are not there yet: each was made once, and a thread only has its last one
in hand; it waits in one place, the queue or a hand; what waits has not been printed,
except by who is printing it, whose characters are the end of the output. For the
order of two strings of one thread (`Ordered`): as long as the earlier one waits the
later is not printed, stands behind it in the queue, is not in the hand of
`Handle()`, and is not on the direct way either, which holds because a thread uses the
queue only once CPU 1 has started and from then on.

**SharedProofs.** *RingBuffer*: the type invariant says that the slots between the
indices hold items; it is inductive. Four lemmas say how the window of used slots
moves; with them `Refinement` maps every operation to the one of the same name of
`BoundedFifo`, for every number of slots. *Queue*: `QueueInv` says that the
containers on the chain are allocated, once each, that `_last` is the last one, and
that a container in a hand is neither on the chain nor in another hand nor free
(`HeldInv`). From it `EachContainerHasOneOwnerHolds`; `QueueRefinement` maps the chain to
the abstract queue, although containers are filled before and freed after the lock.
*PthreadCtrl*: `IdsInv` says which entries of `_thread_ids` are written;
`EachCpuHasItsNumberHolds`. *ObjectList*: `ObjectsInv` says that the list is a chain
that only grows, that what a writer has not linked yet is in no list and leads nowhere,
and that a reader has come through a beginning of the chain; from it
`ReadersSeeTheListHolds`. *IntSpinLock*: `InterruptsOffUnlessMisled` is not
inductive: it does not say who may set the interrupt flag of a CPU. `IntLockInv` adds
that a context that is between `cli` and its release, and was not misled, is what its
CPU executes (`SwappersRun`, `HoldersRun`), that handlers above one have not begun
(`AboveIsIdle`), and that an inner lock whose field this CPU wrote itself remembers
that the interrupts were off (`InnerRemembersOff`): so only the value of another CPU
can enable them too early, and it misleads. With the parity of the counters
(`IntSuccFlipsParity`), the order of nesting (`NestedInOrder`) and what `_id` may be
(`IdIsOfHolder`) follow `IntMutualExclusionHolds`, which needs nobody to be not misled,
and `InterruptsOffHolds`, for any CPUs, locks, depth of handlers and even width.
`NestedLocks` shows that the exception is needed.

**PoolingSocketProofs.** `SocketInv` says that a packet is in one place (`PacketInv`) and
that a slot of a table, the socket and what `select()` watches agree (`SlotInv`). For
the packets: a step moves one at most (`OneMoves`, `NothingMoves`), `Open()` fills the
buffers with all of a kind (`FillIs`), and as no kind has more packets than a
buffer has room, one that is put back fits (`HasRoom`): a failed `Push()`, whose
answer the code does not look at, would lose it. For the table of UDP clients, which
must not be full when `Poll()` receives: as long as nobody registers addresses by hand,
the times to live of its clients differ and
are smaller than the size of the table, so by the pigeonhole principle a slot is free
(`OneSlotIsFree`). Theorems: `PacketsAreConservedHolds`, `TablesAreRightHolds` and the
action property `NothingIsTakenAwayHolds`, for any tables, hosts and depth of the
buffers and whatever the system calls answer.

**SequentialProofs** is about what runs on one thread. *Timer*: `WaitInv` says from which
count `s` a wait began and that counter and deadline are `s + elapsed` and `s + asked`,
each reduced by the range at most once (`Wrap`), as long as the program looks in time.
With it the comparison is linear arithmetic over windows (`IsGreaterOfWait`):
`SeenToBeOverHolds`, and `NeverEarlyHolds` under the hypothesis `~MayWrap` that no wait
goes over the end of the range. Without it the theorem does not hold: a deadline just
beyond the end is taken for one that has passed. `TimerOnItsOwn` says that they hold of
what the run looks at. *Function*: that the function of a call is alive when it is
called needs, for every call in progress, to know where the object is whose function it
executes and that only the innermost one has not come to it yet (`FunctionInv`); the
calls further out are inside of a function already and look at their object no more.
Theorem: `LiveFunctionsAreCalledHolds`. *TtyString*: `StringInv` says that all arrays but
the last are full, that they hold the text one after the other (`ChainHolds`), that
nothing was dropped but what a String of the stack has no room for (`AllIsThere`), and
that what was printed is the text so far (`IsPrinted`). `PrintString()` then stops at the
`'\0'` or at the end of a full String, and in both cases has printed what it should:
`StringPrintsTheTextHolds`. *LibString*: `LibInv` says how many bytes the pointers and
the count of each loop are into their call, and that the memory is that of the call but
for the bytes written so far, which are those of the result (`Becomes`). A copy is right
although source and destination may overlap, since a call that the functions allow
reads no byte that it has written; a comparison is, since all bytes before the pointers
are equal (`FirstDifference`), which for `strncmp()` is the order of the strings unless
they end among these bytes. Theorem: `StringFunctionsAreExactHolds`. *Numerals*: powers and the
worth of digits are recursive functions, not `RECURSIVE` operators, so that a theorem can
speak of them; their equations hold only if such functions exist, which `AllExist`
shows with the least number up to which none does. `ValueOfAppend` says what one more
digit does to the worth, which is what both loops below compute. *TtyNumber*: `DigitsInv`
says that the number that is counted is the magnitude divided by a power of the base
and that the power of the first digit is not larger than the magnitude, unless both
are 0; `WrittenInv` that what was written and the rest make up the magnitude. As the
magnitude fits into the type, every power that is computed does: `NumberIsPrintedHolds`.
*Strtoul*: `TextInv` and `StageInv` say which characters the program has looked at and
where the digits begin; `ValueInv` that `val` is what the digits read so far are worth
modulo the range of an `int`, or, where one of them is none, that it is those before
times the base and `*endptr` their end: `NumbersAreConvertedHolds`, for every range of an
`int` and of `unsigned long` and any bases up to 36.
*TtyFormat*: `FormatInv` says in which directive of the format the program is, at which
of its characters, with which accuracy, and that what it has written and the arguments
it has taken are those of the directives before. The format and the expected output are
sequences put one after the other, by a recursive function of the community modules:
`FlattenIs` shows that it exists, `BeforeIs` that what is before directive `k + 1` is what
is before `k` and then `k`. Every step then stays in its directive or goes to the next
one (`SameDirective`, `NextDirective`), the digits behind the dot are one more application
of `ValueOfAppend`, and at the end the directives before are all: `FormatIsFollowedHolds`,
for any flags, digits, letters, lengths of strings and number of directives, with the
format left behind `%l` and `%ll` at its end, and nowhere else.

Only model-checked:

* every liveness property and the fair refinements, for which TLAPS has no rules
  here: `LockIsHandedOut`, `ImplementsFairTaskFifo`, `NothingIsOverslept`,
  `ImplementsFairPending`, `PollingFollowsItsState`, `EveryCallReturns`,
  `ExecutedOnceOthersAreQuiet`, `EveryPushIsServed`, `EveryStringIsPrinted` and
  the liveness part of `DeepBuffersAreServed` (`TransmittedPacketsAreTaken`).

## 5. Not modelled

* `DebugSpinLock`: a constant key and the assertions of `SpinLock`; unused.
* `VirtmemCtrl`, `UVirtmemCtrl`: an interface and a wrapper of `new[]`; the modules
  that allocate model memory themselves.
* `ErrorContainer`, `libglobal`, `raph.h`: values, pointers that are set before the
  program starts, port input and output.
* The destructor of `PthreadCtrl`: no program reaches it while its threads run.
* `ctype.h`, the headers of `libc/` that only define names, and `malloc`/`free` of
  the kernel.
* The deprecated templates `Printf_sub1`/`2`, which choose a conversion by the type
  of an argument and then call the functions that are modelled.
* `FunctionBase` on two threads, which nothing locks (`function.h:150`).

Client programming errors that the code does not handle (two calls of `SetFunc`,
a `Push` on a destroyed object, overlapping strings) are not inputs. Weak memory
is not modelled: the shared words are `volatile`, the compare-and-swap is a full
barrier, stores are seen in order on the machines the library is built for, and
the other sections are under locks.

## 6. Plan

All components with state of their own are modelled, and every safety property that a
passing run checks is proved for all values of the constants, under the assumptions of section 4.
What is left:

1. Callouts and pollings that are used on two CPUs, on top of a `TaskFifo` that has
   tasks with two homes (as far as `TaskCtrlMigrate` leaves something to hold), and
   their part of the proofs of `TaskClassProofs`.
2. `FunctionBase` with two threads, where a lock of the caller protects it.
