--------------------------- MODULE UserThreadInfo ---------------------------
(***************************************************************************)
(* The copy of the current thread's properties that user code reads:       *)
(* user_thread_info, with its errno (k_update_user_thread_info of          *)
(* src/kernel/thread.c, and what k_handle_syscall does about errno when    *)
(* KCFG_LOG_FAILED_ERRNO is set).  The name in it is left out.             *)
(***************************************************************************)
EXTENDS Threads

CONSTANTS
    Errors,       \* what calls that fail set errno to
    LogsErrno     \* KCFG_LOG_FAILED_ERRNO, which stays as it is

ASSUME ErrorsAssumption == Errors \subseteq Nat \ {0}
ASSUME LogsErrnoAssumption == LogsErrno \in BOOLEAN

VARIABLES
    err_no,             \* all_threads[t].err_no
    user_thread_info,   \* its id, config and err_no
    own                 \* history: what t and its calls last set errno to

info == <<err_no, user_thread_info, own>>
infoVars == <<vars, info>>

\* user_thread_info is in .bss.  Of its config we keep KCFG_DESTROY_ON_STACK_ERR.
InfoInit ==
    /\ Init
    /\ err_no = [t \in Tids |-> 0]
    /\ user_thread_info = [id |-> 0, config |-> FALSE, err_no |-> 0]
    /\ own = [t \in Tids |-> 0]

----------------------------------------------------------------------------
errno == user_thread_info.err_no

\* The err_no fields once the current thread's is saved, errno being e.
Saved(e) == IF current = NULL THEN err_no ELSE [err_no EXCEPT ![current] = e]

InfoOf(n, e) == [id |-> id'[n], config |-> destroy_on_stack_err', err_no |-> e]

\* Mutated: errno is loaded, but the last thread's is not saved.
k_update_user_thread_infoUnsaved(n) ==
    /\ err_no' = err_no
    /\ user_thread_info' = InfoOf(n, err_no[n])

\* Mutated: the configuration is not copied.
k_update_user_thread_infoOldConfig(n) ==
    /\ err_no' = Saved(errno)
    /\ user_thread_info' = [user_thread_info EXCEPT !.id = id'[n],
                                                    !.err_no = Saved(errno)[n]]

k_update_user_thread_info(n) ==
    /\ err_no' = Saved(errno)
    /\ user_thread_info' = InfoOf(n, Saved(errno)[n])

\* A call that goes to thread n.  With KCFG_LOG_FAILED_ERRNO errno is 0 during
\* the call, and if it is 0 after the call gets back the value of before.
k_handle_syscall(n) ==
    IF LogsErrno
    THEN /\ err_no' = Saved(0)
         /\ user_thread_info' =
                InfoOf(n, IF Saved(0)[n] = 0 THEN errno ELSE Saved(0)[n])
    ELSE k_update_user_thread_info(n)

----------------------------------------------------------------------------
(* What the steps of Threads do to the copy.                               *)

Start ==
    /\ Boot
    /\ UNCHANGED own
    /\ k_update_user_thread_info(current')

Create(t) ==
    /\ FirstFreeSlot(t)
    /\ AddThread({})
    /\ err_no' = [err_no EXCEPT ![t] = 0]
    /\ own' = [own EXCEPT ![t] = 0]
    /\ UNCHANGED user_thread_info

\* The calls that switch.  When one ends the kernel, nobody reads the copy.
SwitchingCall ==
    /\ \/ YieldAny \/ ThreadWait \/ StackError
       \/ \E t \in Tids : YieldTo(t)
       \/ current \in Tids /\ ThreadCancel(current)
    /\ UNCHANGED own
    /\ IF kernel' = "up" THEN k_handle_syscall(current')
                         ELSE UNCHANGED <<err_no, user_thread_info>>

\* The switches that are not system calls.
OtherSwitch ==
    /\ Tick \/ YieldAsm
    /\ UNCHANGED own
    /\ IF kernel' = "up" THEN k_update_user_thread_info(current')
                         ELSE UNCHANGED <<err_no, user_thread_info>>

\* The calls that update_user_thread_info is true for.  A restart clears the
\* saved errno, but this saves the one in use again.
RefreshingCall ==
    /\ \/ Restart({})
       \/ \E destroy \in BOOLEAN : SetKernelConfig(destroy)
       \/ \E tid \in Tids \cup {CURRENT_THREAD} : \E c \in Tids : SetChild(tid, c)
    /\ UNCHANGED own
    /\ k_update_user_thread_info(current)

\* A call that fails with errno e and does nothing else: k_get_msg, k_mutex,
\* k_condition_variable or k_get_thread_property with a wrong argument.
FailingCall(e) ==
    /\ AtStage("work")
    /\ user_thread_info' = [user_thread_info EXCEPT !.err_no = e]
    /\ own' = [own EXCEPT ![current] = e]
    /\ UNCHANGED <<vars, err_no>>

\* k_set_thread_property with a wrong argument or without the permission.
FailingSetProperty(e) ==
    /\ AtStage("work")
    /\ user_thread_info' = [user_thread_info EXCEPT !.err_no = e]
    /\ err_no' = [err_no EXCEPT ![current] = e]
    /\ own' = [own EXCEPT ![current] = e]
    /\ UNCHANGED vars

\* User code sets errno to 0 before a call.
ClearErrno ==
    /\ AtStage("work")
    /\ user_thread_info' = [user_thread_info EXCEPT !.err_no = 0]
    /\ own' = [own EXCEPT ![current] = 0]
    /\ UNCHANGED <<vars, err_no>>

\* Calls and steps of thread_start that neither fail nor switch.
Other ==
    /\ \/ CleanupThread \/ SetFinished
       \/ \E armed \in BOOLEAN : SetTimer(armed)
       \/ \E t \in Tids : ThreadWake(t) \/ (t # current /\ ThreadCancel(t))
       \/ Halted
    /\ UNCHANGED info

\* Everything but boot and new threads.
ThreadStep ==
    \/ SwitchingCall \/ OtherSwitch \/ RefreshingCall \/ ClearErrno \/ Other
    \/ \E e \in Errors : FailingCall(e) \/ FailingSetProperty(e)

InfoNext == Start \/ ThreadStep \/ \E t \in Tids : Create(t)

InfoSpec == InfoInit /\ [][InfoNext]_infoVars

----------------------------------------------------------------------------
(* Properties.                                                             *)

\* What user code reads of itself and of the kernel is what holds: the ID of
\* the thread that runs, and the configuration as it was last set, by any
\* thread (get_thread_id, get_kernel_config).
InfoIsCurrent ==
    kernel = "up" => /\ user_thread_info.id = current
                     /\ user_thread_info.config = destroy_on_stack_err

\* errno is per thread: a thread reads the value that it or a failed call of
\* its own left there, and nobody else's, whatever ran in between (as long as
\* KCFG_LOG_FAILED_ERRNO is not set).
ErrnoIsPerThread == kernel = "up" => errno = own[current]
============================================================================
