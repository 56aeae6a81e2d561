----------------------------- MODULE Registers -----------------------------
(***************************************************************************)
(* What the registers of the threads hold through every entry into the     *)
(* kernel: the frames of RegisterFrames on the stacks of the threads of    *)
(* Threads, init_register_context, and what k_handle_syscall and           *)
(* TPROP_REGISTERS read and write through a RegisterContext pointer.  A    *)
(* value says whose it is.                                                 *)
(***************************************************************************)
EXTENDS Threads, RegisterFrames

CONSTANTS
    Ports,        \* the builds: aarch64 (aarch64_virt and raspi4), arm, thumb
    TimerPorts    \* those whose programs use the timer

ASSUME PortsAssumption == Ports \subseteq AllPorts /\ TimerPorts \subseteq Ports

VARIABLES
    port,         \* the build
    regs,         \* the registers of the processor
    next_thread,
    stack,        \* per thread, what the kernel pushed on its stack, lowest first
    left          \* history: how each thread last left the processor

registers == <<port, regs, next_thread, stack, left>>

IsUser(r) == r \in UserRegisters[port]
Context == RegisterContext[port]
arg0 == Field[port][0]

\* Values: what thread t had in r when it entered the kernel, what was set for
\* it, or what others wrote.
Own(t, r) == <<"own", t, r>>
Set(t, r) == <<"set", t, r>>
Zero == <<"zero">>
Kernel == <<"kernel">>
Result == <<"result">>
thread_start == <<"thread_start">>
UserMode == <<"user mode">>

\* The context of a new thread, with platform_init_register_context.
init_register_context(p) ==
    [i \in DOMAIN RegisterContext[p] |->
        CASE RegisterContext[p][i] = PC -> thread_start
          [] RegisterContext[p][i] = PSR -> UserMode
          [] OTHER -> Zero]

----------------------------------------------------------------------------
\* A thread has left its registers to the kernel ("own"), or they are those of
\* a new thread ("new", "first" when started by load_first_thread), or somebody
\* has set them ("set").  result: a call's result is on its way to arg0.
RegistersInit ==
    /\ port \in Ports
    /\ regs = [r \in AllRegisters[port] |-> Kernel]
    /\ next_thread = NULL
    /\ stack = [t \in Tids |-> init_register_context(port)]
    /\ left = [t \in Tids |-> [regs |-> "new", result |-> FALSE, depth |-> 0]]

\* Mutated: next_thread is not cleared.
LoadedKeepingNext(r, frames, load) ==
    LET frame == frames[current']
        loaded(n) == IF IsWord(n) THEN frame[n - Word(0)] ELSE r[n]
    IN  /\ regs' = [u \in DOMAIN regs |-> loaded(load.regs[u])]
        /\ stack' = [frames EXCEPT ![current'] = SubSeq(@, Len(Context) - Len(load.stack) + 1, Len(@))]
        /\ next_thread' = current'

\* The end of load_next_thread, which starts with registers r.
Loaded(r, frames, load) ==
    LET frame == frames[current']
        loaded(n) == IF IsWord(n) THEN frame[n - Word(0)] ELSE r[n]
    IN  /\ regs' = [u \in DOMAIN regs |-> loaded(load.regs[u])]
        /\ stack' = [frames EXCEPT ![current'] = SubSeq(@, Len(Context) - Len(load.stack) + 1, Len(@))]
        /\ next_thread' = NULL

\* entry, load_first_thread.
FirstLoad ==
    /\ Boot
    /\ Loaded([regs EXCEPT ![PC] = thread_start], stack, FirstRestores[port])
    /\ left' = IF port # "thumb" THEN left
               ELSE [left EXCEPT ![current'].regs = "first",
                                 ![current'].depth = Len(HardwareFrame)]
    /\ UNCHANGED port

\* What the current thread has in its registers when it enters the kernel, and
\* where SAVE_CURRENT_THREAD puts it.
Entering(r) == IF IsUser(r) THEN Own(current, r) ELSE regs[r]

SavedStack(kind) ==
    LET save == Saves[port][kind]
    IN  [i \in DOMAIN save.stack |-> Entering(save.stack[i])] \o stack[current]

\* The registers while the kernel's own code runs.
KernelRegs(kind) ==
    [r \in DOMAIN regs |->
        IF IsUser(r) THEN Kernel ELSE Entering(Saves[port][kind].regs[r])]

SetContext(t) == [i \in DOMAIN Context |-> Set(t, Context[i])]

\* Mutated: TPROP_REGISTERS only reaches the context of the caller.
ReplacedOwn(t, s, by) ==
    IF by = "new" THEN init_register_context(port)
    ELSE IF t = current THEN SetContext(t) \o SubSeq(s, Len(Context) + 1, Len(s)) ELSE s

\* The stack s of thread t once its context is replaced.  init_thread starts
\* again at the top of the stack, do_set_thread_property writes where it is.
Replaced(t, s, by) ==
    IF by = "new" THEN init_register_context(port)
    ELSE SetContext(t) \o SubSeq(s, Len(Context) + 1, Len(s))

\* Mutated: the result is written to the lowest word.
WithResultFirst(context, result) ==
    IF result THEN [context EXCEPT ![1] = Result] ELSE context

\* The context of the caller after a call, which has a result or has none.
WithResult(context, result) ==
    IF result THEN [context EXCEPT ![arg0] = Result] ELSE context

\* The current thread enters the kernel with an exception, for the step of
\* Threads that this is conjoined with.  changed says which contexts the
\* handler replaces.
KernelEntry(kind, result, changed) ==
    LET frames == [stack EXCEPT ![current] = SavedStack(kind)]
        handled == [t \in Tids |-> IF t \in DOMAIN changed
                                   THEN Replaced(t, frames[t], changed[t]) ELSE frames[t]]
        own == [regs |-> "own", result |-> result, depth |-> Len(stack[current])]
        entered == [left EXCEPT ![current] = own]
    IN  /\ IF kernel' = "up"
           THEN Loaded(KernelRegs(kind), [handled EXCEPT ![current] = WithResult(@, result)],
                       Restores[port])
           ELSE UNCHANGED <<regs, stack, next_thread>>
        /\ left' = [t \in Tids |->
                      IF t \in DOMAIN changed
                      THEN [entered[t] EXCEPT !.regs = changed[t],
                                !.result = result /\ t = current,
                                !.depth = IF changed[t] = "new" THEN 0 ELSE @]
                      ELSE entered[t]]
        /\ UNCHANGED port

Nothing == [t \in {} |-> "new"]
Contexts(t, by) == [u \in {t} |-> by]

\* has_result, by the names of Threads' calls.
has_result(c) == c \notin {"kernel_config", "restart", "wait", "exit"}

\* The exceptions: generic_syscall, the other svc codes, the timer.
SystemCall(c, changed) == KernelEntry("svc", has_result(c), changed)
OtherSvc == KernelEntry("svc", FALSE, Nothing)

\* handle_timer.  On thumb it does not write next_thread, and SysTick, which is
\* not one of the interrupts that it disables, stays armed.
SysTick ==
    /\ timer /\ kernel = "up" /\ stage[current] # "returned"
    /\ IF next_thread = NULL THEN do_scheduler(id, state, NULL)
       ELSE current' = next_thread /\ UNCHANGED <<state, kernel>>
    /\ UNCHANGED <<id, family, permissions, stage, config>>

TimerInterrupt ==
    /\ IF port = "thumb" THEN SysTick ELSE Tick
    /\ KernelEntry("irq", FALSE, Nothing)

\* TPROP_REGISTERS.
SetRegisters(tid) ==
    /\ Syscall("registers")
    /\ MayConfigure(tid)
    /\ is_valid_thread(Target(tid))
    /\ UNCHANGED vars
    /\ SystemCall("registers", Contexts(Target(tid), "set"))

ArmTimer(armed) ==
    /\ port \in TimerPorts
    /\ SetTimer(armed)
    /\ OtherSvc

----------------------------------------------------------------------------
(* Properties.                                                             *)

\* What thread t has to find in register r.
LeftIn(t, r) ==
    CASE left[t].regs = "own" -> Own(t, r)
      [] left[t].regs = "set" -> Set(t, r)
      [] OTHER -> IF r = PC THEN thread_start ELSE IF r = PSR THEN UserMode ELSE Zero

\* A thread resumes with every register, its stack pointer and its status as it
\* left them or as they were set, wherever it was interrupted and whoever ran
\* since; only the result of a call is new.  The first thread on thumb starts
\* with what load_first_thread has in its registers.
KeepsRegisters ==
    kernel = "up" =>
        /\ Len(stack[current]) = left[current].depth
        /\ \A r \in UserRegisters[port] :
              IF left[current].regs = "first" THEN r = PC => regs[r] = thread_start
              ELSE regs[r] = IF r = 0 /\ left[current].result THEN Result
                                                           ELSE LeftIn(current, r)

\* What the kernel reads and writes through a RegisterContext pointer, for a
\* call, TPROP_REGISTERS or a signal, are the registers of those names, and
\* the word where arm and thumb look for the svc instruction is the PC.
ContextsAreNamed ==
    kernel = "up" => \A t \in Tids \ {current} :
        /\ port # "aarch64" => stack[t][SvcAddressWord] = LeftIn(t, PC)
        /\ \A i \in DOMAIN Context :
              stack[t][i] = IF i = arg0 /\ left[t].result THEN Result
                            ELSE LeftIn(t, Context[i])

\* After a timer interrupt the scheduler chooses: a next_thread that an earlier
\* call left behind never brings the interrupted thread back.
InterruptsReschedule ==
    [][TimerInterrupt /\ kernel' = "up" => choose_next_thread(id, state, current')]_<<vars, registers>>
=============================================================================
