-------------------------- MODULE Synchronisation --------------------------
(***************************************************************************)
(* A mutex and a condition variable (src/kernel/mutex.c and                *)
(* src/kernel/condition_variable.c) shared by the threads of the table.    *)
(* Both are objects in user memory that the programs initialise before     *)
(* they use them; until then they hold anything.  A mutex is the ID of its *)
(* owner, a condition variable a ring of MAX_THREADS IDs.                  *)
(***************************************************************************)
EXTENDS Threads, Sequences

VARIABLES
    mutex,     \* the Mutex: the ID of the thread that has it
    waiting,   \* cv->waiting
    first,     \* cv->first
    last,      \* cv->last
    full,      \* cv->full
    ready,     \* the objects that are initialised
    holds      \* history: the thread's last successful mutex call was a lock

condition == <<waiting, first, last, full>>
syncVars == <<vars, mutex, condition, ready, holds>>

Ids == Tids \cup {INVALID_THREAD}

SyncTypeOK ==
    /\ mutex \in Ids
    /\ waiting \in [Tids -> Ids]
    /\ first \in Tids
    /\ last \in Tids
    /\ full \in BOOLEAN
    /\ ready \subseteq {"mutex", "cv"}
    /\ holds \in [Tids -> BOOLEAN]

SyncInit ==
    /\ Init
    /\ mutex \in Ids
    /\ waiting = [i \in Tids |-> INVALID_THREAD]
    /\ first \in Tids
    /\ last \in Tids
    /\ full \in BOOLEAN
    /\ ready = {}
    /\ holds = [t \in Tids |-> FALSE]

----------------------------------------------------------------------------
(* The mutex.  Lock and unlock do not block: they fail.                    *)

Use(object) == object \in ready

InitMutex ==
    /\ Syscall("mutex")
    /\ "mutex" \notin ready
    /\ mutex' = INVALID_THREAD
    /\ ready' = ready \cup {"mutex"}
    /\ UNCHANGED <<vars, condition, holds>>

\* Mutated: the owner is not checked.
LockMutexTaken ==
    /\ Syscall("mutex") /\ Use("mutex")
    /\ mutex' = current
    /\ holds' = [holds EXCEPT ![current] = TRUE]
    /\ UNCHANGED <<vars, condition, ready>>

LockMutex ==
    /\ Syscall("mutex") /\ Use("mutex")
    /\ mutex = INVALID_THREAD
    /\ mutex' = current
    /\ holds' = [holds EXCEPT ![current] = TRUE]
    /\ UNCHANGED <<vars, condition, ready>>

UnlockMutex ==
    /\ Syscall("mutex") /\ Use("mutex")
    /\ mutex = current
    /\ mutex' = INVALID_THREAD
    /\ holds' = [holds EXCEPT ![current] = FALSE]
    /\ UNCHANGED <<vars, condition, ready>>

----------------------------------------------------------------------------
(* The condition variable.                                                 *)

\* Mutated: the ring does not wrap.
AfterPastEnd(i) == i + 1

After(i) == (i + 1) % MAX_THREADS

InitConditionVariable ==
    /\ Syscall("cv")
    /\ "cv" \notin ready
    /\ first' = 0
    /\ last' = 0
    /\ full' = FALSE
    /\ ready' = ready \cup {"cv"}
    /\ UNCHANGED <<vars, waiting, mutex, holds>>

Empty == first = last /\ ~full

\* Mutated: the thread signalled is the one that waited last.
SignalLast ==
    /\ Syscall("cv") /\ Use("cv")
    /\ ~Empty
    /\ LET i == (last - 1) % MAX_THREADS
       IN  /\ state' = IF is_valid_thread(waiting[i])
                       THEN [state EXCEPT ![waiting[i]] = "suspended"] ELSE state
           /\ last' = i
    /\ full' = FALSE
    /\ UNCHANGED <<id, family, permissions, stage, current, config, kernel,
                   waiting, first, mutex, ready, holds>>

\* k_thread_wake of the first in the ring, whatever its state.
Signal ==
    /\ Syscall("cv") /\ Use("cv")
    /\ ~Empty
    /\ LET t == waiting[first]
       IN  state' = IF is_valid_thread(t) THEN [state EXCEPT ![t] = "suspended"]
                                          ELSE state
    /\ first' = After(first)
    /\ full' = FALSE
    /\ UNCHANGED <<id, family, permissions, stage, current, config, kernel,
                   waiting, last, mutex, ready, holds>>

\* The ring positions in use.
Used == {i \in Tids : full \/ (i - first) % MAX_THREADS < (last - first) % MAX_THREADS}

\* Signals until the ring is empty.
Broadcast ==
    /\ Syscall("cv") /\ Use("cv")
    /\ ~Empty
    /\ state' = [t \in Tids |->
                    IF \E i \in Used : waiting[i] = t /\ is_valid_thread(t)
                    THEN "suspended" ELSE state[t]]
    /\ first' = last
    /\ full' = FALSE
    /\ UNCHANGED <<id, family, permissions, stage, current, config, kernel,
                   waiting, last, mutex, ready, holds>>

\* The ring is not asked whether it is full.
Wait ==
    /\ Syscall("cv") /\ Use("cv")
    /\ waiting' = [waiting EXCEPT ![last] = current]
    /\ last' = After(last)
    /\ full' = (first = After(last))
    /\ do_scheduler(id, [state EXCEPT ![current] = "waiting"], NULL)
    /\ UNCHANGED <<id, family, permissions, stage, config,
                   first, mutex, ready, holds>>

----------------------------------------------------------------------------
\* A new thread in slot t has not locked anything.
NewThread(t) ==
    /\ FirstFreeSlot(t)
    /\ \E remove \in RemoveSets : AddThread(remove)
    /\ holds' = [holds EXCEPT ![t] = FALSE]

k_mutex == InitMutex \/ LockMutex \/ UnlockMutex

k_condition_variable == InitConditionVariable \/ Signal \/ Broadcast \/ Wait

SyncNext ==
    \/ k_mutex \/ k_condition_variable
    \/ /\ \/ \E t \in Tids : NewThread(t)
          \/ /\ \/ Boot \/ YieldAny \/ Tick \/ StackError \/ ThreadEnd \/ Halted
                \/ \E armed \in BOOLEAN : SetTimer(armed)
                \/ \E t \in Tids : ThreadWake(t) \/ ThreadCancel(t)
             /\ UNCHANGED holds
       /\ UNCHANGED <<mutex, condition, ready>>

SyncSpec == SyncInit /\ [][SyncNext]_syncVars

----------------------------------------------------------------------------
(* Properties.                                                             *)

Live(t) == is_valid_thread(t) /\ ~Dead(t)

\* Two live threads never both have the mutex, although a thread can end
\* with the mutex locked and its slot, with the ID the mutex holds, is used
\* again.
MutualExclusion ==
    \A t, u \in Tids : Live(t) /\ Live(u) /\ holds[t] /\ holds[u] => t = u

\* The threads in the ring, first to last.
RingLength == IF full THEN MAX_THREADS ELSE (last - first) % MAX_THREADS
Ring == [i \in 1 .. RingLength |-> waiting[(first + i - 1) % MAX_THREADS]]

WaitingThreads == INSTANCE WaitQueue WITH
    Threads <- Tids,
    queue <- IF "cv" \in ready THEN Ring ELSE <<>>,
    blocked <- {t \in Tids : is_valid_thread(t) /\ state[t] = "waiting"}

\* The ring implements the queue: threads are unblocked once, in the order in
\* which they waited, and the ring never loses one, also when it wraps.
ImplementsWaitQueue == WaitingThreads!WaitSpec
============================================================================
