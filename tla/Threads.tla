------------------------------ MODULE Threads ------------------------------
(***************************************************************************)
(* The thread table of Badger Kernel and its scheduler                     *)
(* (src/kernel/thread.c, with the dispatch of src/kernel/syscall.c, the    *)
(* context switch of src/hw/*/yield.S and the TPROP_CHILD and              *)
(* TPROP_PERMISSIONS properties of src/kernel/thread_property.cpp).        *)
(*                                                                         *)
(* There is one core and exceptions are masked in the kernel, so a system  *)
(* call, a timer interrupt or a thread switch request, together with the   *)
(* load_next_thread that ends it, is one step.  thread_start runs in user  *)
(* mode: what it does after the worker returns is split at every point     *)
(* where the timer can interrupt it.  A call that fails changes nothing    *)
(* here and is a stuttering step.                                          *)
(***************************************************************************)
EXTENDS Integers

CONSTANTS
    MAX_THREADS,      \* slots of all_threads
    Calls,            \* what the threads of the modelled programs do
    RemoveSets,       \* values of the remove_permissions arguments
    WakesOnlyWaiting  \* TRUE: the programs only wake a thread that is waiting

ASSUME MaxThreadsAssumption == MAX_THREADS \in Nat \ {0}

TPERM_ALL == {"create", "file", "alloc", "kconfig", "tconfig", "tconfig_other"}

ASSUME RemoveSetsAssumption == RemoveSets \subseteq SUBSET TPERM_ALL
ASSUME WakesAssumption == WakesOnlyWaiting \in BOOLEAN

Tids == 0 .. MAX_THREADS - 1
INVALID_THREAD == -1
CURRENT_THREAD == INVALID_THREAD
NULL == -1                     \* the null Thread*

ThreadStates ==
    {"init", "running", "suspended", "waiting", "finished", "cancelled"}

\* Where a thread is in thread_start: in its worker, past cleanup_thread,
\* past the assignment of finished, or past the final YIELD_ASM, where the
\* code says __builtin_unreachable.
Stages == {"work", "cleaned", "finished", "returned"}

VARIABLES
    id,           \* all_threads[t].id
    state,        \* all_threads[t].state
    parent,       \* all_threads[t].parent
    child,        \* all_threads[t].child
    permissions,  \* all_threads[t].permissions
    stage,        \* what is saved in the thread's context: its place in the code
    current,      \* current_thread
    timer,        \* the one-shot timer interrupt is armed
    destroy_on_stack_err,  \* KCFG_DESTROY_ON_STACK_ERR in kernel_config
    kernel        \* booting, up, or how it ended

family == <<parent, child>>
config == <<timer, destroy_on_stack_err>>
vars == <<id, state, parent, child, permissions, stage, current, timer,
          destroy_on_stack_err, kernel>>

TypeOK ==
    /\ id \in [Tids -> Tids \cup {INVALID_THREAD}]
    /\ \A t \in Tids : id[t] \in {t, INVALID_THREAD}
    /\ state \in [Tids -> ThreadStates]
    /\ parent \in [Tids -> Tids \cup {INVALID_THREAD}]
    /\ child \in [Tids -> Tids \cup {INVALID_THREAD}]
    /\ permissions \in [Tids -> SUBSET TPERM_ALL]
    /\ stage \in [Tids -> Stages]
    /\ current \in Tids \cup {NULL}
    /\ timer \in BOOLEAN
    /\ destroy_on_stack_err \in BOOLEAN
    /\ kernel \in {"boot", "up", "exit0", "exit1", "undefined"}
    /\ kernel = "up" => current # NULL

----------------------------------------------------------------------------
(* The scheduler.  ids and st are the id and state fields as the handler   *)
(* that calls it has left them.                                            *)

is_valid_thread(t) == t \in Tids /\ id[t] # INVALID_THREAD

\* Mutated: a finished thread counts as schedulable.
can_schedule_threadFinished(ids, st, t) ==
    /\ t \in Tids
    /\ ids[t] # INVALID_THREAD
    /\ st[t] \in {"suspended", "init", "running", "finished"}

\* Mutated: the id is not checked.
can_schedule_threadAnyId(ids, st, t) ==
    /\ t \in Tids
    /\ st[t] \in {"suspended", "init", "running"}

can_schedule_thread(ids, st, t) ==
    /\ t \in Tids
    /\ ids[t] # INVALID_THREAD
    /\ st[t] \in {"suspended", "init", "running"}

\* Mutated: the walk always starts at the first slot.
next_possible_thread_idxZero(ids, st) == 0

\* A schedulable child first, then the parent, then the next slot.
next_possible_thread_idx(ids, st) ==
    CASE current = NULL -> 0
      [] current # NULL /\ can_schedule_thread(ids, st, child[current]) ->
            child[current]
      [] /\ current # NULL
         /\ ~can_schedule_thread(ids, st, child[current])
         /\ can_schedule_thread(ids, st, parent[current]) -> parent[current]
      [] OTHER -> current + 1

\* Steps of the walk from slot "from" to slot "to", wrapping at the end.
WalkLength(from, to) == (to - from) % MAX_THREADS

\* n is the first schedulable thread of the walk.  The walk visits every
\* slot, the current thread's included, and ids[n] is never another slot.
choose_next_thread(ids, st, n) ==
    LET start == next_possible_thread_idx(ids, st)
    IN  /\ can_schedule_thread(ids, st, n)
        /\ \A m \in Tids : can_schedule_thread(ids, st, m) =>
                WalkLength(start, n) <= WalkLength(start, m)

\* Mutated: the thread that loses the processor keeps its state.
SwitchToKeepingState(st, n) ==
    /\ state' = [st EXCEPT ![n] = "running"]
    /\ current' = n
    /\ kernel' = "up"

\* do_scheduler once next_thread is n, and the load_next_thread that follows.
SwitchTo(st, n) ==
    /\ state' = [t \in Tids |->
                    IF t = n THEN "running"
                    ELSE IF t = current /\ st[t] = "running" THEN "suspended"
                    ELSE st[t]]
    /\ current' = n
    /\ kernel' = "up"

\* next_thread is "to", NULL for a thread of the scheduler's choice.
do_scheduler(ids, st, to) ==
    \/ \E n \in Tids : /\ IF to = NULL THEN choose_next_thread(ids, st, n)
                                       ELSE n = to
                       /\ SwitchTo(st, n)
    \/ /\ to = NULL
       /\ \A n \in Tids : ~can_schedule_thread(ids, st, n)
       /\ state' = st
       /\ kernel' = "exit0"
       /\ UNCHANGED current

----------------------------------------------------------------------------
(* Creating threads.                                                       *)

\* Mutated: the id given is the one of the next slot.
init_threadNextId(t, its_parent, perms) ==
    /\ id' = [id EXCEPT ![t] = t + 1]
    /\ parent' = [parent EXCEPT ![t] = its_parent]
    /\ child' = [child EXCEPT ![t] = INVALID_THREAD]
    /\ permissions' = [permissions EXCEPT ![t] = perms]
    /\ stage' = [stage EXCEPT ![t] = "work"]

init_thread(t, its_parent, perms) ==
    /\ id' = [id EXCEPT ![t] = t]
    /\ parent' = [parent EXCEPT ![t] = its_parent]
    /\ child' = [child EXCEPT ![t] = INVALID_THREAD]
    /\ permissions' = [permissions EXCEPT ![t] = perms]
    /\ stage' = [stage EXCEPT ![t] = "work"]

SlotIsFree(t) == id[t] = INVALID_THREAD \/ state[t] \in {"cancelled", "finished"}

FirstFreeSlot(t) == SlotIsFree(t) /\ \A u \in Tids : u < t => ~SlotIsFree(u)

\* init_threads: every slot invalid.  kernel_config has none of our bits.
Init ==
    /\ id = [t \in Tids |-> INVALID_THREAD]
    /\ state = [t \in Tids |-> "init"]
    /\ parent = [t \in Tids |-> INVALID_THREAD]
    /\ child = [t \in Tids |-> INVALID_THREAD]
    /\ permissions = [t \in Tids |-> {}]
    /\ stage = [t \in Tids |-> "work"]
    /\ current = NULL
    /\ timer = FALSE
    /\ destroy_on_stack_err = FALSE
    /\ kernel = "boot"

\* entry adds the setup thread and load_first_thread runs the scheduler.
Boot ==
    /\ kernel = "boot"
    /\ init_thread(0, INVALID_THREAD, TPERM_ALL)
    /\ do_scheduler(id', [state EXCEPT ![0] = "init"], NULL)
    /\ UNCHANGED config

\* The current thread executes at stage s.
AtStage(s) == kernel = "up" /\ stage[current] = s

\* The worker of the current thread makes call c.
Syscall(c) == c \in Calls /\ AtStage("work")

\* Mutated: the new thread does not inherit its creator's permissions.
AddThreadPrivileged(remove) ==
    /\ Syscall("add_thread")
    /\ "create" \in permissions[current]
    /\ \E t \in Tids :
        /\ FirstFreeSlot(t)
        /\ init_thread(t, INVALID_THREAD, TPERM_ALL \ remove)
        /\ state' = [state EXCEPT ![t] = "init"]
    /\ UNCHANGED <<current, kernel, config>>

AddThread(remove) ==
    /\ Syscall("add_thread")
    /\ "create" \in permissions[current]
    /\ \E t \in Tids :
        /\ FirstFreeSlot(t)
        /\ init_thread(t, INVALID_THREAD, permissions[current] \ remove)
        /\ state' = [state EXCEPT ![t] = "init"]
    /\ UNCHANGED <<current, kernel, config>>

\* The thread starts again in its own slot, and goes on running in state init.
Restart(remove) ==
    /\ Syscall("restart")
    /\ init_thread(current, parent[current], permissions[current] \ remove)
    /\ state' = [state EXCEPT ![current] = "init"]
    /\ UNCHANGED <<current, kernel, config>>

----------------------------------------------------------------------------
(* Giving up the processor.                                                *)

YieldAny ==
    /\ Syscall("yield")
    /\ do_scheduler(id, state, NULL)
    /\ UNCHANGED <<id, family, permissions, stage, config>>

\* Mutated: a thread that waits can be yielded to.
YieldToUnchecked(t) ==
    /\ Syscall("yield_to")
    /\ is_valid_thread(t)
    /\ do_scheduler(id, state, t)
    /\ UNCHANGED <<id, family, permissions, stage, config>>

YieldTo(t) ==
    /\ Syscall("yield_to")
    /\ can_schedule_thread(id, state, t)
    /\ do_scheduler(id, state, t)
    /\ UNCHANGED <<id, family, permissions, stage, config>>

ThreadWait ==
    /\ Syscall("wait")
    /\ do_scheduler(id, [state EXCEPT ![current] = "waiting"], NULL)
    /\ UNCHANGED <<id, family, permissions, stage, config>>

\* The timer interrupt: handle_timer stops the timer and clears next_thread.
Tick ==
    /\ timer
    /\ kernel = "up"
    /\ stage[current] # "returned"
    /\ do_scheduler(id, state, NULL)
    /\ timer' = FALSE
    /\ UNCHANGED <<id, family, permissions, stage, destroy_on_stack_err>>

SetTimer(armed) ==
    /\ Syscall("timer")
    /\ timer' = armed
    /\ UNCHANGED <<id, state, family, permissions, stage, current,
                   destroy_on_stack_err, kernel>>

----------------------------------------------------------------------------
(* Acting on other threads.                                                *)

\* set_thread_state(t, suspended), whatever the state of t.
ThreadWake(t) ==
    /\ Syscall("wake")
    /\ is_valid_thread(t)
    /\ WakesOnlyWaiting => state[t] = "waiting"
    /\ state' = [state EXCEPT ![t] = "suspended"]
    /\ UNCHANGED <<id, family, permissions, stage, current, config, kernel>>

ThreadCancel(t) ==
    /\ Syscall("cancel")
    /\ is_valid_thread(t)
    /\ LET st == [state EXCEPT ![t] = "cancelled"]
       IN  \/ t = current /\ do_scheduler(id, st, NULL)
           \/ t # current /\ state' = st /\ UNCHANGED <<current, kernel>>
    /\ UNCHANGED <<id, family, permissions, stage, config>>

\* The permission checks of set_thread_property, by the tid as it was passed.
MayConfigure(tid) ==
    \/ tid = CURRENT_THREAD /\ "tconfig" \in permissions[current]
    \/ tid # CURRENT_THREAD /\ "tconfig_other" \in permissions[current]

Target(tid) == IF tid = CURRENT_THREAD THEN current ELSE tid

SetChild(tid, c) ==
    /\ Syscall("set_child")
    /\ MayConfigure(tid)
    /\ is_valid_thread(Target(tid))
    /\ is_valid_thread(c)
    /\ child' = [child EXCEPT ![Target(tid)] = c]
    /\ parent' = [parent EXCEPT ![c] = Target(tid)]
    /\ UNCHANGED <<id, state, permissions, stage, current, config, kernel>>

SetPermissions(tid, remove) ==
    /\ Syscall("permissions")
    /\ MayConfigure(tid)
    /\ is_valid_thread(Target(tid))
    /\ permissions' = [permissions EXCEPT ![Target(tid)] = @ \ remove]
    /\ UNCHANGED <<id, state, family, stage, current, config, kernel>>

SetKernelConfig(destroy) ==
    /\ Syscall("kernel_config")
    /\ "kconfig" \in permissions[current]
    /\ destroy_on_stack_err' = destroy
    /\ UNCHANGED <<id, state, family, permissions, stage, current, timer, kernel>>

----------------------------------------------------------------------------
(* Endings.                                                                *)

\* A system call finds a canary of the current thread overwritten.  Unless
\* the kernel exits, the call is turned into a yield to any thread.
StackError ==
    /\ Syscall("stack_error")
    /\ id' = [id EXCEPT ![current] = INVALID_THREAD]
    /\ \/ /\ destroy_on_stack_err
          /\ do_scheduler(id', state, NULL)
       \/ /\ ~destroy_on_stack_err
          /\ kernel' = "exit1"
          /\ UNCHANGED <<state, current>>
    /\ UNCHANGED <<family, permissions, stage, config>>

\* thread_start, once the worker has returned.
CleanupThread ==
    /\ AtStage("work")
    /\ "return" \in Calls
    /\ stage' = [stage EXCEPT ![current] = "cleaned"]
    /\ UNCHANGED <<id, state, family, permissions, current, config, kernel>>

SetFinished ==
    /\ AtStage("cleaned")
    /\ state' = [state EXCEPT ![current] = "finished"]
    /\ stage' = [stage EXCEPT ![current] = "finished"]
    /\ UNCHANGED <<id, family, permissions, current, config, kernel>>

YieldAsm ==
    /\ AtStage("finished")
    /\ stage' = [stage EXCEPT ![current] = "returned"]
    /\ do_scheduler(id, state, NULL)
    /\ UNCHANGED <<id, family, permissions, config>>

\* The thread is resumed after YIELD_ASM: undefined behaviour, the end of
\* what can be said about this run.
Unreachable ==
    /\ AtStage("returned")
    /\ kernel' = "undefined"
    /\ UNCHANGED <<id, state, family, permissions, stage, current, config>>

Exit(status) ==
    /\ Syscall("exit")
    /\ kernel' = status
    /\ UNCHANGED <<id, state, family, permissions, stage, current, config>>

\* k_exit does not return.
Halted == kernel \in {"exit0", "exit1", "undefined"} /\ UNCHANGED vars

----------------------------------------------------------------------------
UserStep ==
    \/ \E remove \in RemoveSets : AddThread(remove) \/ Restart(remove)
    \/ YieldAny
    \/ \E t \in Tids : YieldTo(t) \/ ThreadWake(t) \/ ThreadCancel(t)
    \/ ThreadWait
    \/ \E armed \in BOOLEAN : SetTimer(armed)
    \/ \E tid \in Tids \cup {CURRENT_THREAD} :
        \/ \E c \in Tids : SetChild(tid, c)
        \/ \E remove \in RemoveSets : SetPermissions(tid, remove)
    \/ \E destroy \in BOOLEAN : SetKernelConfig(destroy)
    \/ StackError
    \/ \E status \in {"exit0", "exit1"} : Exit(status)

ThreadEnd == CleanupThread \/ SetFinished \/ YieldAsm \/ Unreachable

Next == Boot \/ UserStep \/ ThreadEnd \/ Tick \/ Halted

Spec == Init /\ [][Next]_vars

\* A thread that keeps the processor without ever calling the kernel is not
\* a program this system can schedule around: each thread sooner or later
\* yields, or goes on ending.
GivesUp(t) == current = t /\ (YieldAny \/ SetFinished \/ YieldAsm \/ Unreachable)

FairSpec == Spec /\ WF_vars(Boot) /\ \A t \in Tids : WF_vars(GivesUp(t))

----------------------------------------------------------------------------
(* Properties.                                                             *)

\* Only the current thread is in state running: do_scheduler takes the state
\* back from whoever loses the processor, however it loses it.
OnlyCurrentRuns == \A t \in Tids : state[t] = "running" => t = current

\* The processor never executes a destroyed, waiting or cancelled thread, and
\* a finished one only between its last assignment and its YIELD_ASM.
CurrentIsLive ==
    kernel = "up" =>
        /\ id[current] = current
        /\ \/ state[current] \in {"init", "running", "suspended"}
           \/ state[current] = "finished" /\ stage[current] = "finished"

\* A finished thread is never resumed after its YIELD_ASM.
NeverResumedAfterEnd == kernel # "undefined"

Dead(t) == id[t] # INVALID_THREAD /\ state[t] \in {"finished", "cancelled"}

\* Nothing but a new thread in the slot brings a dead thread back: not the
\* scheduler on its last switch, not a later wake or yield_to.
DeadStaysDead ==
    [][\A t \in Tids : Dead(t) =>
          Dead(t)' \/ (state[t]' = "init" /\ stage[t]' = "work" /\ t # current)]_vars

\* A permission no thread slot holds any more is never held again, whoever
\* creates, restarts or configures whom.
ExtinctPermissionsStayExtinct ==
    [][kernel # "boot" =>
        \A p \in TPERM_ALL : (\A t \in Tids : p \notin permissions[t])
                                => \A t \in Tids : p \notin permissions[t]']_vars

\* As long as threads yield, every schedulable thread gets the processor.  With
\* parents and children it can be passed over, but only because the scheduler
\* reached a thread with a schedulable relative.
InFamily == \/ can_schedule_thread(id, state, child[current])
            \/ can_schedule_thread(id, state, parent[current])

OnlyFamiliesStarve ==
    \A t \in Tids :
        (kernel = "up" /\ can_schedule_thread(id, state, t)) ~>
            \/ current = t
            \/ ~can_schedule_thread(id, state, t)
            \/ kernel # "up"
            \/ InFamily

\* The table walk implements the life cycle every thread is promised.
PhaseOf(t) ==
    CASE id[t] = INVALID_THREAD -> "free"
      [] id[t] # INVALID_THREAD /\ state[t] \in {"finished", "cancelled"} -> "dead"
      [] id[t] # INVALID_THREAD /\ state[t] = "waiting" -> "blocked"
      [] OTHER -> IF t = current /\ kernel = "up" THEN "running" ELSE "ready"

Lifecycle == INSTANCE ThreadLifecycle WITH
                 Slots <- Tids, NoThread <- NULL,
                 phase <- [t \in Tids |-> PhaseOf(t)],
                 cpu <- current, on <- kernel \in {"boot", "up"}

ImplementsLifecycle == Lifecycle!LifecycleSpec
============================================================================
