------------------------------- MODULE Signals -------------------------------
(***************************************************************************)
(* Signals (src/kernel/signal_handling.c).  When the scheduler goes to a   *)
(* thread with a pending signal, it puts a context for the handler on the  *)
(* thread's stack, on top of the one the thread was suspended with.  The   *)
(* wrapper that calls the handler switches threads when it returns, and    *)
(* the scheduler takes its context off when it comes back to the thread.   *)
(***************************************************************************)
EXTENDS Threads, Sequences, FiniteSetsExt

CONSTANTS
    Signal,         \* the signal numbers that the programs use
    MaxContexts     \* bound: contexts on a stack, and to come on it

ASSUME SignalAssumption == Signal \subseteq 1 .. 32
ASSUME MaxContextsAssumption == MaxContexts \in Nat \ {0}

VARIABLES
    pending_signals,   \* all_threads[t].pending_signals, as a set
    signal_handler,    \* all_threads[t].signal_handler is not NULL
    contexts           \* what runs on each thread's stack, the bottom first

signals == <<pending_signals, signal_handler, contexts>>
signalVars == <<vars, signals>>

\* The code of the thread, a handler of a signal, or signal_handler_wrapper_end.
Worker == 0
WrapperEnd == -1

SignalInit ==
    /\ Init
    /\ pending_signals = [t \in Tids |-> {}]
    /\ signal_handler = [t \in Tids |-> FALSE]
    /\ contexts = [t \in Tids |-> <<Worker>>]

Running(t) == contexts[t][Len(contexts[t])]
WithoutTop(stack) == SubSeq(stack, 1, Len(stack) - 1)

----------------------------------------------------------------------------
\* Mutated: the context of a handler that has returned stays.
ResumedKept(stack) == stack

\* The stack of t once the context of a handler that has returned is removed.
Resumed(stack) == IF stack[Len(stack)] = WrapperEnd THEN WithoutTop(stack) ELSE stack

next_signal(t) == Min(pending_signals[t])

\* The current thread runs its own code, not a handler.
InWorker == kernel = "up" /\ Running(current) = Worker

Handles(t) == pending_signals[t] # {} /\ signal_handler[t]

\* Mutated: where a returned handler's context is removed, none is put.
check_signalsOneAtATime(saved, t) ==
    /\ contexts' = [saved EXCEPT ![t] = IF Handles(t) /\ Resumed(@) = @
                                        THEN Append(@, next_signal(t))
                                        ELSE Resumed(@)]
    /\ pending_signals' = [pending_signals EXCEPT ![t] =
                              IF Handles(t) THEN @ \ {next_signal(t)} ELSE {}]
    /\ UNCHANGED signal_handler

\* Without a handler all signals are dropped.
check_signals(saved, t) ==
    /\ contexts' = [saved EXCEPT ![t] = IF Handles(t) THEN Append(Resumed(@), next_signal(t))
                                                      ELSE Resumed(@)]
    /\ pending_signals' = [pending_signals EXCEPT ![t] =
                              IF Handles(t) THEN @ \ {next_signal(t)} ELSE {}]
    /\ UNCHANGED signal_handler

\* Mutated: signals are only looked at when another thread gets the processor.
ScheduledElsewhere(saved) ==
    IF kernel' = "up" /\ current' # current THEN check_signals(saved, current')
                                             ELSE UNCHANGED signals

\* A step that runs do_scheduler, when it finds the stacks as saved.
Scheduled(saved) ==
    IF kernel' = "up" THEN check_signals(saved, current') ELSE UNCHANGED signals

\* Mutated: the stack is set up again, but not what is pending.
StartSignalsPending(t) ==
    /\ contexts' = [contexts EXCEPT ![t] = <<Worker>>]
    /\ UNCHANGED <<pending_signals, signal_handler>>

\* The lines of init_thread on signals and on the stack.
StartSignals(t) ==
    /\ pending_signals' = [pending_signals EXCEPT ![t] = {}]
    /\ signal_handler' = [signal_handler EXCEPT ![t] = FALSE]
    /\ contexts' = [contexts EXCEPT ![t] = <<Worker>>]

Start(t) ==
    /\ \/ t = 0 /\ Boot
       \/ FirstFreeSlot(t) /\ AddThread({})
       \/ t = current /\ Restart({})
    /\ StartSignals(t)

----------------------------------------------------------------------------
(* System calls, of a worker or of a handler.                              *)

\* What can come on the stack of t.
Expected(t) == Len(contexts[t]) + Cardinality(pending_signals[t])

ThreadSignal(tid, s) ==
    /\ Syscall("signal")
    /\ MayConfigure(tid)
    /\ is_valid_thread(Target(tid))
    /\ Expected(Target(tid)) < MaxContexts
    /\ pending_signals' = [pending_signals EXCEPT ![Target(tid)] = @ \cup {s}]
    /\ UNCHANGED <<vars, signal_handler, contexts>>

SetSignalHandler(tid, handler) ==
    /\ Syscall("set_handler")
    /\ MayConfigure(tid)
    /\ is_valid_thread(Target(tid))
    /\ signal_handler' = [signal_handler EXCEPT ![Target(tid)] = handler]
    /\ UNCHANGED <<vars, pending_signals, contexts>>

\* signal_handler_wrapper after the handler: a thread switch, which saves the
\* context at signal_handler_wrapper_end.
HandlerReturn ==
    /\ kernel = "up"
    /\ Running(current) \in Signal
    /\ do_scheduler(id, state, NULL)
    /\ Scheduled([contexts EXCEPT ![current] = Append(WithoutTop(@), WrapperEnd)])
    /\ UNCHANGED <<id, family, permissions, stage, config>>

GiveUp ==
    /\ kernel = "up"
    /\ \/ YieldAny \/ ThreadWait \/ Tick
       \/ \E t \in Tids : YieldTo(t)
       \/ InWorker /\ YieldAsm
    /\ Scheduled(contexts)

Cancel(t) ==
    /\ ThreadCancel(t)
    /\ IF t = current THEN Scheduled(contexts) ELSE UNCHANGED signals

SignalNext ==
    \/ HandlerReturn \/ GiveUp
    \/ \E t \in Tids : Start(t) \/ Cancel(t)
    \/ \E tid \in Tids \cup {CURRENT_THREAD} :
        \/ \E s \in Signal : ThreadSignal(tid, s)
        \/ \E handler \in BOOLEAN : SetSignalHandler(tid, handler)
    \/ /\ \/ InWorker /\ (CleanupThread \/ SetFinished)
          \/ \E armed \in BOOLEAN : SetTimer(armed)
          \/ \E t \in Tids : ThreadWake(t)
          \/ Halted
       /\ UNCHANGED signals

SignalSpec == SignalInit /\ [][SignalNext]_signalVars

\* A thread that is scheduled gives the processor up again.
GivesTurnUp(t) ==
    /\ current = t
    /\ HandlerReturn \/ (YieldAny /\ Scheduled(contexts))
       \/ (InWorker /\ YieldAsm /\ Scheduled(contexts))
       \/ (InWorker /\ SetFinished /\ UNCHANGED signals)

FairSignalSpec == SignalSpec /\ \A t \in Tids : WF_signalVars(GivesTurnUp(t))

----------------------------------------------------------------------------
(* Properties.                                                             *)

\* The processor never executes what follows the wrapper of a handler that
\* has returned, and a finished thread has no handler left to return from.
NeverPastTheWrapper ==
    /\ kernel = "up" => Running(current) # WrapperEnd
    /\ \A t \in Tids : state[t] = "finished" => contexts[t] = <<Worker>>

\* What thread t goes on with after the step, but for a new handler.
GoesOn(t) == IF t = current /\ HandlerReturn THEN WithoutTop(contexts[t])
                                             ELSE Resumed(contexts[t])

TakesSignal(t) ==
    /\ signal_handler[t] /\ signal_handler'[t]
    /\ pending_signals[t] \ pending_signals'[t] # {}

\* As init_thread leaves the slot of a new thread.
IsNew(t) == pending_signals[t] = {} /\ ~signal_handler[t] /\ contexts[t] = <<Worker>>

\* A signal that is taken from a thread with a handler is the lowest that was
\* pending, the others stay pending, and its handler runs: on top of the worker,
\* of a handler that it interrupts, or in place of one that returns, also for the
\* last signal.  Without a signal taken no handler starts, and none goes but the
\* one that returns.
HandlersTakeTheLowestPending ==
    [][\A t \in Tids :
          IF TakesSignal(t)
          THEN LET lowest == Min(pending_signals[t])
               IN  /\ pending_signals'[t] = pending_signals[t] \ {lowest}
                   /\ contexts'[t] = Append(GoesOn(t), lowest)
          ELSE Resumed(contexts'[t]) = GoesOn(t) \/ IsNew(t)']_signalVars

\* A new thread gets neither the signals nor the handlers that its slot had.
NewThreadsHaveNoSignals ==
    [][\A t \in Tids : SlotIsFree(t) /\ ~SlotIsFree(t)' =>
          /\ pending_signals'[t] = {}
          /\ ~signal_handler'[t]
          /\ contexts'[t] = <<Worker>>]_signalVars

\* A signal to a thread that can run does not stay pending, unless one with a
\* lower number is pending too.
SignalsAreTaken ==
    \A t \in Tids : \A s \in Signal :
        (kernel = "up" /\ can_schedule_thread(id, state, t) /\ s \in pending_signals[t])
            ~> \/ s \notin pending_signals[t]
               \/ \E lower \in pending_signals[t] : lower < s
               \/ kernel # "up"
               \/ ~can_schedule_thread(id, state, t)
============================================================================
