---------------------------- MODULE HeapCleanup ----------------------------
(***************************************************************************)
(* The heap and the threads that end.  A thread that is cancelled has its  *)
(* allocations freed by the kernel, in the step that cancels it.  A thread *)
(* whose worker returns frees them itself: thread_start                    *)
(* (src/kernel/thread.c) runs k_free_all in user mode, where the timer can *)
(* interrupt it, and its walk over the tags is here split at every access. *)
(***************************************************************************)
EXTENDS Threads

CONSTANTS
    NUM_BLOCKS,
    Sizes,
    Finishers       \* the slots of threads whose worker returns

ASSUME BlocksAssumption == NUM_BLOCKS \in Nat \ {0} /\ Sizes \subseteq Nat \ {0}
ASSUME FinishersAssumption == Finishers \subseteq Tids

VARIABLES
    tag, tid, heap, answer,   \* as in Heap
    walk,       \* where a thread is in the k_free_all of its thread_start
    held        \* history: the allocations the programs were given

\* The programs pass only pointers to the start of a block.
H == INSTANCE Heap WITH Owners <- Tids, Values <- {0},
    BLOCK_SIZE <- 1, HEAP_BLOCK <- 1, ADDRESS_BLOCKS <- NUM_BLOCKS + 2

blocks == <<tag, tid, heap, answer>>
cleanupVars == <<vars, blocks, walk, held>>

\* About to read the tag, then the tid of a block, to clear the tag, to go on, and
\* over an allocation.
Nowhere == [at |-> 0, do |-> "work"]

CleanupInit ==
    /\ Init
    /\ H!HeapInit
    /\ walk = [t \in Tids |-> Nowhere]
    /\ held = {}

Allocation(t, p) == {a \in held : a.owner = t /\ a.at = p}
NotOwnedBy(t) == {a \in held : a.owner # t}

----------------------------------------------------------------------------
(* System calls of a thread in its worker.                                 *)

Working == kernel = "up" /\ walk[current].do = "work"

Allocate(n) ==
    /\ Working /\ Syscall("alloc")
    /\ "alloc" \in permissions[current]
    /\ H!k_malloc(current, n)
    /\ held' = IF answer'.at = H!NULL_PTR THEN held
               ELSE held \cup {[at |-> answer'.at.block, size |-> n, owner |-> current]}
    /\ UNCHANGED <<vars, walk>>

\* The programs free what they were given.
Free(p) ==
    /\ Working /\ Syscall("alloc")
    /\ "alloc" \in permissions[current]
    /\ Allocation(current, p) # {}
    /\ H!k_free(current, H!to_heap_ptr(p))
    /\ held' = held \ Allocation(current, p)
    /\ UNCHANGED <<vars, walk>>

\* set_thread_state, then cleanup_thread, then do_scheduler for the current one.
Cancel(t) ==
    /\ Working
    /\ ThreadCancel(t)
    /\ H!k_free_all(t)
    /\ held' = NotOwnedBy(t)
    /\ UNCHANGED walk

\* The thread that a step of Threads starts in slot t.
Start(t) ==
    /\ \/ t = 0 /\ Boot
       \/ Working /\ FirstFreeSlot(t) /\ \E remove \in RemoveSets : AddThread(remove)
    /\ walk' = [walk EXCEPT ![t] = Nowhere]
    /\ UNCHANGED <<blocks, held>>

\* A thread that is destroyed uses nothing any more.
Destroy ==
    /\ Working
    /\ StackError
    /\ held' = NotOwnedBy(current)
    /\ UNCHANGED <<blocks, walk>>

----------------------------------------------------------------------------
(* k_free_all in thread_start, one access to the tags at a time.           *)

At(point) == kernel = "up" /\ stage[current] = "work" /\ walk[current].do = point
Block == walk[current].at
Go(point) == walk' = [walk EXCEPT ![current].do = point]

\* Mutated: the walk starts behind the first block.
BeginWalkLate ==
    /\ At("work") /\ Syscall("return")
    /\ current \in Finishers
    /\ walk' = [walk EXCEPT ![current] = [at |-> 1, do |-> "tag"]]
    /\ held' = NotOwnedBy(current)
    /\ UNCHANGED <<vars, blocks>>

\* The worker returns: its thread uses nothing any more.
BeginWalk ==
    /\ At("work") /\ Syscall("return")
    /\ current \in Finishers
    /\ walk' = [walk EXCEPT ![current] = [at |-> 0, do |-> "tag"]]
    /\ held' = NotOwnedBy(current)
    /\ UNCHANGED <<vars, blocks>>

ReadTag ==
    /\ At("tag")
    /\ Go(IF tag[Block] # 0 THEN "tid" ELSE "next")
    /\ UNCHANGED <<vars, blocks, held>>

\* Mutated: whose block it is does not matter.
ReadTidAny ==
    /\ At("tid")
    /\ Go("clear")
    /\ UNCHANGED <<vars, blocks, held>>

ReadTid ==
    /\ At("tid")
    /\ Go(IF tid[Block] = current THEN "clear" ELSE "next")
    /\ UNCHANGED <<vars, blocks, held>>

ClearTag ==
    /\ At("clear")
    /\ tag' = [tag EXCEPT ![Block] = 0]
    /\ Go("next")
    /\ UNCHANGED <<vars, tid, heap, answer, held>>

GoOn(i) ==
    walk' = [walk EXCEPT ![current] = IF i \in H!Blocks THEN [at |-> i, do |-> "tag"]
                                                       ELSE [@ EXCEPT !.do = "done"]]

\* The tag of an allocated block is read again, or not: the compiler may keep it.
NextTag ==
    /\ At("next")
    /\ GoOn(H!next_tag(tag, Block)) \/ (tag[Block] # 0 /\ Go("over"))
    /\ UNCHANGED <<vars, blocks, held>>

JumpOver ==
    /\ At("over")
    /\ GoOn(Block + tag[Block])
    /\ UNCHANGED <<vars, blocks, held>>

EndWalk ==
    /\ At("done")
    /\ CleanupThread
    /\ UNCHANGED <<blocks, walk, held>>

----------------------------------------------------------------------------
CleanupNext ==
    \/ \E n \in Sizes : Allocate(n)
    \/ \E p \in H!Blocks : Free(p)
    \/ \E t \in Tids : Cancel(t) \/ Start(t)
    \/ Destroy
    \/ BeginWalk \/ ReadTag \/ ReadTid \/ ClearTag \/ NextTag \/ JumpOver \/ EndWalk
    \/ /\ \/ Working /\ (YieldAny \/ \E armed \in BOOLEAN : SetTimer(armed))
          \/ Working /\ \E destroy \in BOOLEAN : SetKernelConfig(destroy)
          \/ Tick \/ SetFinished \/ YieldAsm \/ Unreachable \/ Halted
       /\ UNCHANGED <<blocks, walk, held>>

CleanupSpec == CleanupInit /\ [][CleanupNext]_cleanupVars

----------------------------------------------------------------------------
(* Properties.                                                             *)

\* No thread that ends, wherever the timer interrupts its walk over the tags,
\* takes an allocation from a thread that uses it, and no block is given out
\* twice.
HeldAllocationsStay ==
    /\ \A a \in held : tag[a.at] = a.size /\ tid[a.at] = a.owner
    /\ \A a, b \in held :
          (a.at .. a.at + a.size - 1) \cap (b.at .. b.at + b.size - 1) # {} => a = b

\* A thread that has finished or was cancelled owns no allocation: neither a
\* leak nor something that the next thread with its ID could free.
DeadThreadsOwnNothing ==
    \A t \in Tids : Dead(t) => \A i \in H!Blocks : tag[i] # 0 => tid[i] # t
============================================================================
