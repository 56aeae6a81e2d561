# Badger Kernel in TLA+

Badger Kernel is a small kernel for one Arm core: a table of threads, a
scheduler that walks it, a timer, system calls, and a minimal user library. This
directory has TLA+ modules that model its own logic, TLC configurations that
check them on small instances, and TLAPS proofs for any size. Paths such as
`src/kernel/thread.c` are those of the repository.

    tlc -config Threads_lifecycle.cfg Threads.tla      # one run
    tlapm ThreadsProofs.tla                            # one module of proofs

`PROJECT.json` lists the runs with the properties they check, the lines that
each definition translates, a plausible bug ("mutant") that each property
catches, the hazards of the code and the disagreements that were found.

## 1. Inventory

There is one core. The kernel masks exceptions while it runs, so a system call,
a timer interrupt or a thread switch request runs to its end before anything
else does. What is concurrent is user mode: the timer (one shot, armed by a
program) can put the switch between any two instructions of a thread, and a part
of the system itself runs there: `thread_start`, `thread_join`, the ELF loader,
the emulated thread local storage, the signal handler wrapper, fibers.

| part | state | operations | talks to |
|---|---|---|---|
| thread table, scheduler (`kernel/thread.c`) | `all_threads` (id, state, parent, child, permissions), `current_thread`, `next_thread`, `kernel_config` | add, restart, yield, yield to, wait, wake, cancel, set child, permissions, kernel config, `do_scheduler`, `thread_start` | everything; switches through `yield.S` |
| dispatch (`kernel/syscall.c`) | the saved context of the caller, errno around the call | stack check, the call, its result | all kernel parts |
| context switch, timer (`hw/*/yield.S`) | registers on each thread's stack, `next_thread`, the armed timer | save, load, `handle_timer`, `handle_svc`, first load, per kind of port | scheduler; C code reads and writes what is saved through `RegisterContext` |
| messages (`kernel/message.c`) | per thread: ring, two pointers, full flag | send, get | slots of the table, `init_thread` empties |
| mutex (`kernel/mutex.c`) | a thread ID in user memory | init, lock, unlock, none of which blocks | thread IDs |
| condition variable (`kernel/condition_variable.c`) | ring of thread IDs in user memory | init, signal, broadcast, wait | wakes threads and makes them wait |
| heap (`kernel/alloc.c`) | a tag (size, thread ID) per block | malloc, realloc, free, free all | thread IDs, `cleanup_thread` |
| code page, backing pages (`kernel/thread.c`) | what is in the page, who uses which page, counts | load, new thread of a program, swap at a switch, release at the end | scheduler, loader |
| ELF loader (`user/elf.c`) | what it has read of the file, the page | checks the header, copies or zeroes each section, writes each relocation, restarts as the program | code pages, files |
| signals (`kernel/signal_handling.c`) | per thread: pending bits, handler, contexts on its stack | signal, set handler, deliver, return | scheduler, thread properties |
| properties, permissions (`kernel/thread_property.cpp`) | permissions per thread | get, set | table |
| user copy (`user_thread_info`) | ID, name, configuration, errno of the current thread | refreshed at switches and after some calls | user code reads it directly |
| `thread_join` (`user/thread.c`) | none, a loop of reads and yields | join | thread states by ID |
| thread local storage (`user/emutls.c`) | index per variable, address per thread and index, storage | get address | thread ID |
| fibers (`user/fiber.c`, the end of `yield.S`) | registers in a `FiberContext` of user memory, each fiber's stack | make, swap, get, set, and what a fiber that returns goes to | nothing: the kernel does not know of them |
| output (`common/print.cpp`) | the rest of the format and of its arguments | `printf`, `sprintf`: widths, precisions, `s i u x X %` | serial port or a buffer |
| shell (`demos/shell/shell.c`) | the line, the cursor, words of the line, commands as threads | edit, split in place, builtins, programs, `run` | threads with arguments, parents and children, loader |
| files, startup, drivers | device registers, text | | not modelled or partly, see section 7 |

What is hard in it, which is what the properties are aimed at:

* A *slot* of the table is used again as soon as its thread has ended, and its
  number is the thread's identity everywhere else: in rings of condition
  variables, mutexes, tags of the heap, parents and children, joins, thread local
  storage. Nothing in the system tells two threads of one slot apart.
* Waking, cancelling and signalling act on a thread in whatever state it is.
* `thread_start` cleans up in user mode, interruptible.
* The scheduler does several things at once (state, code page, signals, errno),
  in an order that matters, for threads that have just been changed by the call
  that led to it.
* Rings, counts and tables at their limits; `realloc` over its own memory.
* The same words of a stack are pushed by assembly, read and written by C
  through a struct, popped by other assembly, and found again by the kernel at a
  fixed index, on three kinds of port that differ in all of it.
* A fiber that returns goes on with whoever waits in its context then, by an
  address on its stack.

The full list is under "hazards" in `PROJECT.json`, each at its line.

## 2. Modules

`Threads` is the base: every module about something that lives in threads
EXTENDS it, adds its own variables, and composes its actions with those of
`Threads` (a call of the component is a conjunction of the thread step and its
effect on the component). An abstract module says what a component promises, in
the reader's terms; the component is shown to implement it.

| module | models | abstract specification |
|---|---|---|
| `Threads` | table, scheduler, life cycle, permissions, timer, endings | `ThreadLifecycle` |
| `Messages` | ring per thread | `Mailboxes` |
| `Synchronisation` | one mutex and one condition variable | `WaitQueue` (condition variable) |
| `Heap` | tags, first fit, realloc with its forward memcpy, free and realloc of any address | `Allocator` |
| `HeapCleanup` | `Threads` with `Heap`: allocations of threads that end, the user mode walk | |
| `RegisterFrames` | what each port pushes, pops and moves at an entry to the kernel and on the way out, as functions from registers to words (no state) | |
| `Registers` | on `Threads`: the registers of the processor, what is on each stack, `next_thread`, new contexts, results, TPROP_REGISTERS, and the timer of each port | |
| `ThreadJoin` | on `Registers`: the loop of `thread_join` | |
| `BackingPages` | builds with `CODE_BACKING_PAGES`: swaps, counts, a program as one unit | |
| `Elf` | what `elf.c` computes from a file: bounds and places of sections, places and values of relocations | `Loadable`, `IsImageOf` (which files load, and what the page is then) |
| `CodePage` | builds with one code page only: `Threads` with the loader of `Elf`, word by word, and the program it restarts as | |
| `Signals` | pending signals and the contexts of handlers | |
| `UserThreadInfo` | `user_thread_info`, errno | |
| `EmulatedTLS` | on top of `UserThreadInfo`: `__emutls_get_address`, split at every access | |
| `Fibers` | contexts of fibers, register by register, on each port | `Coroutines`: activities that change places |
| `Printf` | the loop over a format, character by character, with every conversion | `Means`, in the same module: what an item of the format says |
| `Shell` | on `Threads`: the line editor, the split of the line, commands on its words | |
| `MCCodePage` | the files that the runs of `CodePage` load | |
| `MCUserMode` | the programs that use the user mode parts: thread local variables, the shell, fibers, one `printf` | |
| `ThreadsProofs` | invariants of `Threads`, and `Threads` implements `ThreadLifecycle`, proved | |
| `CommunicationProofs` | proofs about `Messages` and `Synchronisation`, whose rings share their lemmas | |
| `HeapProofs`, `CleanupProofs` | proofs about `Heap`, and, on top of them, about what threads that end leave: `HeapCleanup` and `BackingPages` | |
| `ContextsProofs` | proofs about `Signals` and `Registers`: what is saved on the stacks | |
| `CodePageProofs` | proofs about `CodePage` and `Elf` | |
| `UserModeProofs` | proofs about `UserThreadInfo`, `EmulatedTLS` and `Shell` | |
| `FibersProofs` | proofs about `Fibers` and `Coroutines` | |

### How the state corresponds

`id`, `state`, `parent`, `child`, `permissions`, `next_msg`, `ref_count`,
`pending_signals` and so on are the fields of the same name, as functions of the
slot (thread IDs and slots are both numbers from 0). `current` is
`current_thread` and `NULL` before the first thread is loaded. `next_thread` is
a variable only in `Registers`, where thumb's `handle_timer` can find one that
is left over; elsewhere it is set and consumed within one kernel entry, and
appears as the argument `to` of `do_scheduler`. A saved register context is
abstracted, but in `Registers`, to the place where its thread resumes: `stage` (in the worker, after
`cleanup_thread`, after the assignment of `finished`, after the last
`YIELD_ASM`), and where a module needs it a finer place (`walk`, `join`,
`loading`, `contexts`, `access`). `kernel` says whether the kernel is booting,
up, has exited with a status, or has executed what the code marks unreachable,
after which nothing can be said. `finished` is state, "`returned`" is stage.

`choose_next_thread` is defined by what it finds (the schedulable slot with the
shortest walk from the start index), not as a loop. The scheduler's consistency
check of id and position cannot fail by `TypeOK` and has no branch.

In `Heap` a pointer is the block that it leads to, counted from the start of the
heap, and an offset in it; NULL is the lowest of the addresses, which go from
below the heap to behind it. `pointer_to_tag_idx` drops the offset, and below the
heap wraps around to a number past all tags. What is in memory at such an index,
beside the tags and the heap, is any value, and what is written there is left out.

`EmulatedTLS` splits an access wherever it reads or writes what threads share. An
*update* goes from the look at a variable's index, or at the pointer into the
storage, to the last change that follows from it. `disturbed` is history: two
updates of one kind have met (`TwoUpdate`), or one belonged to a thread that was
cancelled and whose slot has a new one (`LeftUndone`).

In `Registers` a value says whose it is (`Own(t, r)`: what thread t had in
register r when it entered the kernel), so that a register that is lost,
exchanged or left over from another thread is a value of the wrong name.
`RegisterFrames` has, per kind of port and exception, the list of registers that
`SAVE_CURRENT_THREAD` pushes, the order that `load_next_thread` pops them in,
and the struct that C sees; `KernelEntry` is one entry to the kernel and the way
out of it, conjoined with the step of `Threads` that the handler makes. A fiber's
registers are named in the same way (`Stored`), the nth call of each. The text
that `Printf` works on is single characters, as the code does; the items that a
format was spelt from are a history variable that only the property reads.

A call that fails (no permission, invalid ID, full ring, no free slot) changes
nothing and is a stuttering step, except in `UserThreadInfo`, where it sets
errno.

### Constants that describe programs

The kernel does not choose what its programs do, so the configurations do:
`Calls` names the calls that the threads make, `WakesOnlyWaiting` says that
programs wake only threads that wait (what all demos do), `RemoveSets` which
permissions they remove, `Finishers` whose workers return, `Joiners`,
`Creators` and `Restarters` who joins, creates and restarts, `TimerPorts` on
which ports they arm the timer, `TLSThreads` how many slots the program with
thread local variables uses, `ProgramsLoad` whether loaded programs load
others, `LogsErrno` whether the kernel logs failed calls. A passing
run under such a restriction is a statement about those programs. What happens
to others is in section 5, with the line of the configuration to change to see
it.

## 3. Runs

| run | what it shows | instance |
|---|---|---|
| `threads_lifecycle` | one thread in state running, the processor executes live threads only, finished and cancelled threads stay so, a permission nobody holds never comes back, refinement of `ThreadLifecycle` | 3 slots, all life cycle calls, timer, stack errors |
| `threads_families` | only a family (parent and child) keeps the processor from a ready thread | 3 slots, `set_child`, ends, slots used again, any wake |
| `messages` | rings are bounded FIFO mailboxes; a new thread has no messages | 2 slots, rings of 2, timer, restarts, ends |
| `sync` | never two live holders of a mutex; the ring of the condition variable is the FIFO queue of the waiting threads | 3 slots, timer, ends |
| `heap` | tags implement disjoint regions that keep their data, whatever address is passed: to the start or into the middle of any block, behind the heap or below it | 3 blocks with data, one block of addresses below and one behind, 2 owners |
| `cleanup` | dead threads own nothing; walks interrupted anywhere take nothing in use | 3 slots, 2 of them end, 2 blocks |
| `join` | every thread resumes with each register as it left it, or as it was set; C finds the registers by their names; a timer interrupt always chooses; a join returns once its target ends | 3 slots, 3 kinds of port, timer, cancels, restarts, TPROP_REGISTERS |
| `backing` | each program runs its own code, keeps and shares its data; pages count users | 3 slots, 2 pages, 2 programs |
| `page` | programs are loaded whole, at the right place and relocated, and none over one that runs; only files that do not fit stop the kernel | 3 slots, 3 files, timer, cancels, exits |
| `signals` | a signal that is taken is the lowest pending and its handler runs, also the last one and where a handler returns; no context left over; a new thread has no signals; pending signals are taken | 2 slots, 2 signals, 4 contexts, timer |
| `user_mode` | the copy is current; errno is per thread; thread local variables do not share storage, wherever the timer interrupts, until two updates meet; the shell reads on only after its commands, and they get the words of their line; fibers are coroutines that keep their registers; `printf` writes what the format says | one program per behaviour: 2 slots with 3 variables, 2 indexes, room for 3; the shell on 3 slots, lines of 5 characters, 3 words; 2 fibers on 3 kinds of port; one item of a format with text around it |
| `page_destroyed` | refuted: after a stack error a program is loaded over one that runs (section 5) | 4 slots, 2 files |

Bounds, and why they are enough for what is asked:

* `MAX_THREADS` 2 to 4 (the code: 10 or more). Two slots give a current thread
  and one that is acted on; the third gives a bystander, the wrap of the walk with
  a gap in it, and a slot that is used again while two others refer to it. Runs
  with 2 slots are about state that each thread has for itself, or that one
  thread changes under another. What is proved holds for every number
  (section 6).
* `THREAD_MSG_QUEUE_SIZE` 2: empty, partly full and full, each at both
  positions of the ring, so that it wraps.
* `NUM_BLOCKS` 3 (the code: 64), `Sizes` 1 and 2. A realloc of two blocks
  moves over itself, and there are holes before, between and after allocations
  that a larger one does not fit in. `BLOCK_SIZE` 2 tells the start of a block
  from what is in it; one block of addresses on each side stands for all of them
  there (`HEAP_BLOCK`, `ADDRESS_BLOCKS`). `HeapCleanup` has 2 blocks, one for
  each of two owners or both for one, and both readings of a tag that changes
  between them; its programs pass only what they were given.
* `MaxContexts` 4: how many handlers, running and to come, one stack may have; it
  is a guard of `ThreadSignal` only. Nesting needs 3.
* `CODE_BACKING_PAGES` 2, one for each program. `ref_count` keeps its 8 bits
  (`% 256`).
* `CODE_PAGE_SIZE` 5 words and files of two or three sections: `fixed` has
  code, zeroed data and fixed addresses, `shared` has relocations against symbols
  of its own and of the kernel, `large` does not fit. Before each load the
  page may hold any of the others, whole or in part.
* `Ports`: raspi4 has the code of aarch64_virt, which leaves three kinds.
  `TimerPorts` leaves out arm, whose timer interrupt loses the status register
  (section 5). One thread that restarts (`Restarters`) and one that joins are
  enough for each to meet the other two in any state.
* Lines of five characters with three words hold `run` with a command of its own
  in the spelling of one letter per command; `MAX_CMD_LINE` and
  `MAX_CMD_LINE_PARTS` are reached. Two fibers and whoever made them can hand
  over to each other in every order, return into each other and be made again.
* `INT_MAX` 127 and `WORD_MAX` 65535 keep the relations between the widths of
  numbers; numbers of one to four digits, negative and zero, texts, NULL,
  conversions that do not exist, and widths and precisions that are left out,
  given, or arguments, also negative ones.
* The programs of `user_mode` do not run together: they share only the kernel.
  The variables' names are symmetric; everything else is told apart.
* `MAX_TLS_VARS` and `AllocSpace` are chosen below what the programs ask for,
  so that both ends of the storage are reached. The run goes no further than
  where `disturbed` becomes true, since nothing is claimed of what follows.

Deadlock is checked in every run; the steps after the kernel has ended are
`Halted`.

## 4. Fairness

`FairSpec` of `Threads` and `FairSignalSpec` assume that a thread that has the
processor sooner or later gives it up: it yields in its worker, or `thread_start`
goes on (weak fairness per thread of an action that only the current thread can
take). That is what the documentation calls cooperative switching, and the only
scheduling there is: the code has no periodic tick, since the timer is one shot
and armed by programs. No fairness is assumed of wakes, signals, cancels or the
timer. Each slot has its own assumption, as the action of one thread must not
count for another's.

`FairJoinSpec` assumes that a thread goes on and that its worker returns in the
end, however often it yields before: a join of a thread that never ends is not
meant to return. Both are strong fairness, because on thumb the timer stays
armed (SysTick reloads) and an interrupt may come before each step, and a worker
that restarts begins again; they are stated of what the thread does (the thread
table and the loop of the join), not of the registers.

## 5. Where the code does otherwise

One disagreement with the repository's own words is a run that TLC refutes:

* `page_destroyed`: `code_page_in_use_by` (`src/kernel/thread.c:421`) returns the
  `id` of the first thread that is in the code page. For a thread that a stack
  error destroyed that is `INVALID_THREAD`, the value for "not in use", while
  threads in later slots run from the page; the next program is loaded over
  theirs. The comment at line 453 says that the page lives as long as all threads
  created by code in it.

The others are the reasons for the restrictions of the passing runs: what those
assume of programs, and what TLC shows when a line of the configuration is
changed.

| change | violated | what happens |
|---|---|---|
| `Threads_lifecycle.cfg`: `WakesOnlyWaiting = FALSE` | `DeadStaysDead`, `NeverResumedAfterEnd` | `k_thread_wake` of a finished thread makes it schedulable, and it resumes after its `YIELD_ASM` |
| `Sync.cfg`: add `"cancel"` | `ImplementsWaitQueue` | a thread cancelled while it waits stays in the ring, and the next signal is spent on it |
| `Cleanup.cfg`: `Finishers = {0, 1, 2}` | `HeldAllocationsStay` | `k_free` leaves tid 0 in the tag; between the two reads of a walk of thread 0 another thread gets the block, and the walk takes it |
| `Join.cfg`: `Creators = {0, 1, 2}` | `JoinReturns` | the slot of the target is used again before the join looks, and the join waits for the new thread, and so on |
| `Backing.cfg`: add `"timer"` | `RunsItsOwnProgram` | a loader that is interrupted loses what it has written to its page: the code page is saved over it |
| `Backing.cfg`: `ProgramsLoad = TRUE` | `CountsItsUsers` | a loader that a program creates is counted for the program's page too, and never taken off |
| `Backing.cfg`: add `"stack_error"` and `"kernel_config"` | `CountsItsUsers` | a thread that a stack error destroys (`syscall.c:21`) is not cleaned up: it stays counted, and its page is never free again |
| `User_mode.cfg`: `LogsErrno = TRUE` | `ErrnoIsPerThread` | around a yield the logging code clears errno of one thread and gives it back to the next |
| `Join.cfg`: add `"arm"` to `TimerPorts` | `ContextsAreNamed`, `KeepsRegisters` | arm's `handle_timer` (`src/hw/arm_virt/yield.S:53`) discards the SPSR that the interrupt saved, and the thread resumes with the status of the system call mode instead; the comment there says that it wants to return to what was interrupted |
| `MCUserMode.tla`: 10000 among `MCNumbers` (or the least int) | `PrintsWhatTheFormatSays` | numbers go through a buffer sized for hexadecimal digits (17 bytes on a 64 bit port, `print.cpp:220` and `238`); one with more decimal digits is written past it |
| `EmulatedTLS.tla`: `TwoUpdate'` or `LeftUndone` taken out of `disturbed` | `VariablesAreSeparate` | two threads that get an address at the same time share it, and two variables an index; so does a new thread in the slot of one that was cancelled between the write of its address and that of `alloc_ptr`. The comment at `emutls.c:71` says that this is not interrupt safe |

What `free` and `realloc` do with a wrong pointer is in the model, and less than
the comment at `alloc.c:94` ("Can't free something outside the heap") says. Only
the end of the heap is tested. A pointer below it gives an index far past
`block_tags`; if the word there happens to be the ID of the thread, `free` and
`realloc` clear memory that is neither tags nor heap, and `realloc` gives a new
region, filled from wherever the pointer leads. `ImplementsAllocator` says of such
a call no more than that the regions stay. An address into the first block of an
allocation of one's own counts as its start: it is freed or moved, and what is
moved begins in the middle.

Some behaviour is surprising without contradicting anything that is said, and
the properties allow it: the kernel exits with status 0 when all remaining
threads wait; a mutex whose holder died belongs to the next thread of the slot;
the last writes to a program's data are lost when the thread that made them ends
(`Lost` in `BackingPages`); the thread local variables of a slot keep their
values for its next thread; a program of exactly the size of the code page,
which the linker scripts accept, is refused by the loader
(`section_end >= end_code_page`), so `Loadable` asks for one word less.

Others are outside what the models choose as inputs: a format that ends in `%` is read past its end (`print.cpp:250`), a
`.` without a number is no precision, a width does not count the sign; the shell
takes every key of one read for the first (`shell.c:232`, `255`), an escape alone
fails an assertion, more words than MAX_CMD_LINE_PARTS are stored before they
are counted (`shell.c:14`), and a program that yields would find the words of a
later line in its arguments. Handlers that start before the one below has
returned take stack without a limit (`MaxContexts` bounds it here); a signal
number over 32 is shifted out of its word (`thread_property.cpp:218`).

## 6. Proofs

TLAPS proves these for every number of slots, every program (`Calls`,
`RemoveSets`), every size of queue and heap, of fibers for any number of them,
and every interleaving. The assumptions are the named ones on the constants.
Some theorems say in addition what the programs must not do, because the code
does not withstand it; section 5 shows for each of these what happens otherwise:

* `WakesOnlyWaiting`: the programs wake only threads that wait.
* `NoneRemoved`: they may also take no permission away from a new thread.
  Components that create threads without saying more do so, and the model of
  `Threads` has these steps only if its constant allows them.
* `~LogsErrno`: failed calls are not logged.
* `0 \notin Finishers`: the thread of slot 0 does not return from its worker;
  its ID is what `k_free` leaves in the tag of a free block.
* `OnlySignalsWake`: no thread is woken or cancelled around the condition
  variable, which would leave it in the ring.
* `OnlyTheKernelLoads`: only threads of the kernel image load programs
  (`~ProgramsLoad`), there are no stack errors, no permission is taken away, and
  there are fewer than 256 threads, since a page counts its users in one byte.
  `Undisturbed` adds that no timer interrupts a loader, and `WakesOnlyWaiting`:
  a thread that was cancelled and is woken would run without its page.
* `NoTimerOnArm`: programs on arm do not use the timer.
* `WellBehaved` (`CodePageProofs`): `NoneRemoved`, `WakesOnlyWaiting`, and no
  thread is destroyed for a stack error, after which a program is loaded over one
  that runs (the run `page_destroyed`).
* `LinkedPrograms`: the sections of a file are apart, no word is relocated twice,
  and the addend is where the loader takes it from. With addends in the file
  (AArch64) the word of a RELATIVE relocation has the addend as well, which is how
  GNU ld writes it; without (Arm) the words of GLOB_DAT and REL32, to which the
  loader does not add what is there, are 0. TLC evaluates it for the files of
  `MCCodePage` (`ElfsAreLinked`).
* `DistinctNames`: the activity that makes the first fibers is none of them, and
  `Nobody` is none at all.

`FramesAssumption` in `RegisterFrames` says that what the model computes of each
port's pushes and pops fits together; it has no variable and no parameter, and
TLC evaluates it, since the folds it is computed with are out of the provers'
reach.

| theorem | property | argument |
|---|---|---|
| `TypeCorrect`, `OneRunningThread`, `ExecutesLiveThreads` (`ThreadsProofs`) | `TypeOK`, `OnlyCurrentRuns`, `CurrentIsLive` | the three are inductive only together (`SafeInv`): that the thread switched to has a valid `id` equal to its slot needs the type, that the one left is not still running needs `OnlyCurrentRuns`, and that a call acts on a live thread needs `CurrentIsLive`. `SchedulerLemma` says what `do_scheduler` guarantees from whatever table the handler left; each action that switches cites it |
| `EndIsFinal`, `DeathIsFinal` | `NeverResumedAfterEnd`, `DeadStaysDead` | `EndInv` adds that a thread whose place is the end of `thread_start` is dead (`EndedIsDead`), which is the fact that keeps `can_schedule_thread` from picking it, and that no slot is dead before the boot. Only `ThreadWake` could break it, hence `WakesOnlyWaiting` |
| `ExtinctionIsFinal` | `ExtinctPermissionsStayExtinct` | permissions come from the current thread (a slot, by `SafeInv`) or from the slot itself |
| `LifecycleRefinement` | `ImplementsLifecycle` | under `LifecycleInv` (the invariants above, and that no thread exists before the boot) each step is one of `ThreadLifecycle` or a stutter. `SchedulerRefines` is the core: any call of `do_scheduler` after a handler that changed only the current thread is one `Switch` or `Idle`, so the walk, parents, children and the timer disappear; one lemma per remaining kind of step. Under `WakesOnlyWaiting` |
| `RingsAreTyped`, `NewThreadsStartEmpty` (`CommunicationProofs`) | `RingTypeOK`, `NewThreadsHaveNoMessages` | `RingInv`: both ends inside the ring, and full only when they are equal, for any queue size |
| `RingsAreMailboxes` | `ImplementsMailboxes` | lemmas about any ring of N slots: going on at the end of one that is not full appends one element to the queue it stands for and moves no other (`EndAdvances`, `RingSend`), going on at the front takes the first away. A mailbox is the queue between the two ends; each step on a ring is one on the mailbox of that thread, all others stutter, new threads empty theirs |
| `SharedObjectsAreTyped`, `MutexExcludes` | `SyncTypeOK`, `MutualExclusion` | a thread that holds the mutex and lives is the one it names (`HoldersAreNamed`), which deaths and new threads in the slot keep |
| `RingIsWaitQueue` | `ImplementsWaitQueue` | `QueueInv`: the ring stands for exactly the threads that wait on it, each once. The thread that calls does not wait, so there is room for it (`MissesOne`, by the number of threads): the ring never overflows, although the code does not look. Under `OnlySignalsWake` |
| `HeapIsTyped`, `AllocationsNeverOverlap` (`HeapProofs`) | `HeapTypeOK`, `TagsDelimitAllocations` | inductive together: first fit finds a place whose tags are all 0, also in `k_realloc`, which looks for it after it has freed what it moves |
| `TagsAreAnAllocator` | `ImplementsAllocator` | under `HeapInv` each call is one step of the allocator, whose regions are the tags that are not 0. A pointer leads to the tag of its own block or past all of them (`IndexIs`), where `Cleared` changes nothing: the calls with wrong pointers are those that refuse, or that give a region as if there had been none. That `k_realloc` moves the data, down over itself or away, is a lemma of its own |
| `EndsTakeNothing`, `EndsLeaveNothing` (`CleanupProofs`) | `HeldAllocationsStay`, `DeadThreadsOwnNothing` | `CleanupInv`: allocations that programs were given are tagged as theirs until they begin to end; of the blocks behind a walk none is tagged as its thread's (`WalksAreRight`), which no step of another thread can break, because what it tags is its own and a walk jumps over whole allocations. Under `0 \notin Finishers` |
| `PagesCountTheirUsers` | `CountsItsUsers` | `CountInv`: each count is the number of threads with that page, which in one byte needs that there are never 256 of them; threads that have ended have no page, nor has a thread of the kernel image unless it is loading (so that a loader is never counted for the page of its creator). `CountUser` and `UncountUser` are the two facts about cardinalities; a new thread, a loader, a thread that ends each cite one. Under `OnlyTheKernelLoads` |
| `ProgramsFindTheirPage`, `ProgramsKeepTheirData` | `RunsItsOwnProgram`, `ProgramDataIsKept` | `DataInv`: threads that share a page run one program and none of them is loading (`OneProgramPerPage`, so a loader is alone with its page); the page of a program is of that program also while it runs in the code page; the data of a page are in the code page when the thread that runs uses it, in the backing page otherwise (`DataOf`). A free page is nobody's because the counts are right, so loading hurts no one. One lemma per action; the switch and the cancellation of oneself are the two that move pages. Under `Undisturbed` |
| `NeverPastTheWrapperHolds` (`ContextsProofs`) | `NeverPastTheWrapper` | `IsStack`: the worker is at the bottom of each stack and nowhere else, and only the top can be the end of a wrapper. `ScheduledKeeps`: whatever stacks a handler of the kernel leaves, the scheduler's removal and the new context keep that shape, and the thread it goes to has something that runs on top. A finished thread has its worker alone, as only a worker finishes. Under `NoneRemoved` |
| `LowestIsTaken`, `NewThreadsAreUnsignalled` | `HandlersTakeTheLowestPending`, `NewThreadsHaveNoSignals` | the first: signals are taken in one place, `check_signals`, on the stacks that the step has saved (`ScheduledTakes`), of the thread that the processor goes to. For every thread but one whose handler returns, these are the stacks of before (`ResumedOnce`: a context that has returned is removed once); a thread whose handler returns has not finished, so the scheduler finds one to run and the kernel stays up (`ReturnTakes`). The second: a slot that is free is only taken by a thread that starts in it (`OnlyStartsTake`), not by one that a wake or the scheduler brings back with its signals. Both on the invariant of the stacks, under `NoneRemoved`, the second also under `WakesOnlyWaiting` |
| `RegistersAreKept`, `ContextsKeepTheirNames` | `KeepsRegisters`, `ContextsAreNamed` | `RegistersInv`: the thread on the processor has in its registers what it left, every other one has it in a context on its own stack, under the names of the port's `RegisterContext`. For each port one lemma says that the words its exit code pops are those its entry pushed (`KernelEntry`, `Loaded`); from there on no case looks at the port. Under `NoTimerOnArm` |
| `InterruptsChoose` | `InterruptsReschedule` | `next_thread` is NULL between two entries to the kernel, since each exit consumes it: the `handle_timer` of thumb, which does not clear it, leaves the choice to the scheduler |
| `CopyIsCurrent`, `ErrnoIsItsOwn` (`UserModeProofs`) | `InfoIsCurrent`, `ErrnoIsPerThread` | the two with `SavedIsOwn`: the errno that the table keeps for a thread off the processor is its own, which the switch to it then copies. The first under `NoneRemoved`, the second also under `~LogsErrno` |
| `StorageIsSeparate` | `VariablesAreSeparate` | `TableInv`, until `disturbed`: what has been given out is counted, but for the one index and the one address that are about to be written, so that nothing is given out twice; and what each thread has read, in an update or out of it, still holds (`LocalsHold`). The last is the core: indexes and addresses once given do not change (`TableGrows`), and a step of one update changes nothing that another kind of update has read (`SparesUpdates`), so any number of threads may be interrupted within an access. Under `NoneRemoved` |
| `CommandsEndFirst` | `PromptComesLast` | `ChainInv`: the live threads are the slots from 0 up to the current one, each the parent of the next and waiting for it (at the prompt or at its end), with at most one thread above, just created and not yet run. First free slots make the chain grow upwards; when the top ends, its child slot is empty, so the scheduler's walk starts at its parent and finds that at once (`EndedGoesToParent`). Under `NoneRemoved` |
| `CommandsFindTheirWords` | `CommandsGetTheirWords` | `WordsInv`, on top of the chain: while the shell reads, what was typed is at the start of cmd_line and there are no commands; after it, the line is there with an end behind each word, and each live command has the last words of the line, with only runs before them. The shell does not read while a command lives, by the chain, so nobody writes to the line. That `split_cmd_line` finds the words is `LineSplits`: after each character the parts that have ended are the starts so far, each with its number (`FoundOK`), by the least character where that would fail. A string from the start of a part to the next end is then the word (`WordIsFound`). Under `NoneRemoved` |
| `LoaderAcceptsPrograms` (`CodePageProofs`) | `LoadableProgramsLoad` | each check of the loader that fails names a section, or a relocation, that `Loadable` excludes; that no section counts as loaded is excluded by what the loader has found so far (`LoaderOK`). Under `NoneRemoved` |
| `LoadedProgramsStay` | `ProgramsStayInThePage` | `PageInv`: who has the page is alive and at work, a loader has it alone (`LoadsAlone`), and a loader at a section or a relocation has left in the page all the sections before it (`HasSections`) with all the relocations before it applied once (`HasRelocated`). One step writes one section or one word, the others stay since sections are apart and no word is relocated twice; at the end what is in the page is the image. Whoever else has the page has inherited it from a thread that runs the same program. Under `WellBehaved` and `LinkedPrograms` |
| `NoActivityIsLost` (`FibersProofs`) | (`NoneIsLost` of the abstract module) | fibers keep the abstract invariant that each activity that is alive runs or waits in one context; an exchange and a return move two activities at once, so the proof follows both |
| `FibersAreCoroutines`, `RegistersAreKept` | `ImplementsCoroutines`, `FibersKeepRegisters` | `FibersInv`: a context holds what `make_context` put there or what its activity stored last, the processor has the same of the activity that runs, a fiber's stack belongs to it, and `CoroutinesInv` of the abstract state, because a return leads to the right activity only if each is in one place. One lemma per operation, for the link register of each port |

Every safety property of a passing run is a theorem but one. Only model-checked:
liveness (fairness and ENABLED are out of TLAPS's reach), and
`PrintsWhatTheFormatSays` of `Printf`: it is about digits, and the provers do not
know powers and remainders. No module uses a RECURSIVE operator.

## 7. Not modelled

* What a program does after TPROP_REGISTERS has given it other registers: in
  `Registers` they are told apart from its own, and it goes on as before.
* Names in ELF files and the thumb bit of addresses (`PC_ADD_MODE`). In
  `BackingPages` a program is one unit, its copy one step: what the loader does
  within it is in `CodePage` and `Elf`. That relocations are written to the code
  page, whatever the destination, matters only to position independent programs
  with backing pages, which no configuration of the repository builds.
* Files and semihosting: each call is one request, answered from outside. Their
  permission decides in `CodePage` whether a loader can read its file.
* The string functions of the C library that are loops without state, assertions
  (print and exit), the backtrace, and `TPROP_NAME`, which nothing depends on.
* Startup and device drivers, which write device registers once or per character.
* In `Shell`, reads that give several keys at once; in `Printf`, formats that are
  not ones (section 5).
* `Threads` follows the aarch64 port; what differs on arm and thumb, with thumb's
  timer, is in `Registers`.

## 8. Plan

The order was: the scheduler (everything depends on it), then what blocks and
carries data between threads (messages, mutex, condition variable), then
memory (heap, clean-up, pages), then what the scheduler does on the side
(signals, errno), then user mode (join, thread local storage), then what is
below and above all of it: the registers of each port, fibers, output, the shell.
What is left:

1. Compositions: signals with `thread_start` and the heap walk on one stack, and
   with the registers of `Registers`; backing pages with signals, since both are
   handled in `do_scheduler`; several condition variables and a mutex in the
   pattern of the demo.
2. Names, and files with positions behind TPERM_FILE.
3. Proofs: what `Printf` prints, from a theory of digits.
