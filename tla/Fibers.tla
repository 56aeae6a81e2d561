------------------------------- MODULE Fibers -------------------------------
(***************************************************************************)
(* The fibers of a program: contexts that one thread switches between      *)
(* itself (src/user/fiber.c and the end of src/hw/*/yield.S).  What a      *)
(* context holds are values of registers; who goes on is decided by the    *)
(* program counter alone.                                                  *)
(***************************************************************************)
EXTENDS RegisterFrames

CONSTANTS
    FiberPorts,
    FiberNames    \* the fibers of the program, and the contexts they are made with

ASSUME FibersAssumption ==
    FiberPorts \subseteq AllPorts /\ {"main", "nobody"} \cap FiberNames = {}

VARIABLES
    fiber_port,
    core,         \* the registers that a context has
    context,      \* the contexts
    on_stack,     \* what make_context puts on the stack of each fiber
    entry,        \* the registers that each fiber was entered with
    jump,         \* a context for get_context and set_context
    calls         \* history: how often each activity has left, modulo MaxCalls

fibers == <<fiber_port, core, context, on_stack, entry, jump, calls>>

MaxCalls == 3
SP == 34
Activities == FiberNames \cup {"main"}
None == [r \in {} |-> 0]

\* FiberContext: the registers that a call keeps, sp, lr and pc.
LinkRegister == IF fiber_port = "aarch64" THEN 30 ELSE LR
Kept == IF fiber_port = "aarch64" THEN 19 .. 29 ELSE 4 .. 11
FiberContext == Kept \cup {LinkRegister, SP, PC}

\* A value: what register r of an activity holds when it leaves for the n-th
\* time, its return address in lr.  Of a new fiber: zero, the top of its stack
\* and its function.
Held(a, n, r) == [of |-> a, n |-> n, reg |-> r]
ZeroWord == Held("nobody", 0, 0)
Top(f) == Held(f, MaxCalls, SP)
Function(f) == Held(f, MaxCalls, PC)
set_context_from_stack_address == Held("nobody", 0, PC)

Running == core[PC].of
IsRunning == Running # "nobody"

\* The caller of get_context or swap_context has its return address in lr,
\* which is stored as its pc as well.
StoredAt(a, n) ==
    [r \in FiberContext |-> Held(a, n, IF r = PC THEN LinkRegister ELSE r)]
Stored == StoredAt(Running, calls[Running])
LastStored(a) == StoredAt(a, (calls[a] + MaxCalls - 1) % MaxCalls)
Leaves == calls' = [calls EXCEPT ![Running] = (@ + 1) % MaxCalls]

FibersInit ==
    /\ fiber_port \in FiberPorts
    /\ calls = [a \in Activities |-> 0]
    /\ core = LastStored("main")
    /\ context = [f \in FiberNames |-> None]
    /\ on_stack = [f \in FiberNames |-> "nothing"]
    /\ entry = [f \in FiberNames |-> None]
    /\ jump = None

----------------------------------------------------------------------------
(* The code.                                                               *)

make_context(f) ==
    [r \in FiberContext |->
        CASE r = SP -> Top(f)
          [] r = PC -> Function(f)
          [] r = LinkRegister -> set_context_from_stack_address
          [] OTHER -> ZeroWord]

\* A program makes a context once its fiber has returned, or never ran.
Make(f) ==
    /\ IsRunning
    /\ context[f] = None
    /\ context' = [context EXCEPT ![f] = make_context(f)]
    /\ on_stack' = [on_stack EXCEPT ![f] = f]
    /\ UNCHANGED <<fiber_port, core, entry, jump, calls>>

\* The fiber that core starts when it goes to the start of its function keeps
\* what it finds in its frame.
Entered(registers) ==
    entry' = [f \in FiberNames |-> IF registers[PC] = Function(f) THEN registers ELSE entry[f]]

\* Mutated: the caller's context is not stored.
swap_contextUnsaved(f) ==
    /\ IsRunning
    /\ context[f] # None
    /\ core' = context[f]
    /\ Entered(context[f])
    /\ Leaves
    /\ UNCHANGED <<fiber_port, context, on_stack, jump>>

\* Mutated: the new lr is set before the old one is stored as the pc.
swap_contextEarly(f) ==
    /\ IsRunning
    /\ context[f] # None
    /\ core' = context[f]
    /\ Entered(context[f])
    /\ context' = [context EXCEPT ![f] = [Stored EXCEPT ![PC] = context[f][LinkRegister]]]
    /\ Leaves
    /\ UNCHANGED <<fiber_port, on_stack, jump>>

swap_context(f) ==
    /\ IsRunning
    /\ context[f] # None
    /\ core' = context[f]
    /\ Entered(context[f])
    /\ context' = [context EXCEPT ![f] = Stored]
    /\ Leaves
    /\ UNCHANGED <<fiber_port, on_stack, jump>>

\* The function of a fiber returns to the lr it was entered with.
FunctionReturns ==
    /\ Running \in FiberNames
    /\ core' = [entry[Running] EXCEPT ![PC] = entry[Running][LinkRegister]]
    /\ jump' = IF jump # None /\ jump[PC].of = Running THEN None ELSE jump
    /\ calls' = [calls EXCEPT ![Running] = 0]
    /\ UNCHANGED <<fiber_port, context, on_stack, entry>>

\* set_context with the address that is on top of the stack.  The program does
\* not use that context again.
Catch ==
    /\ core[PC] = set_context_from_stack_address
    /\ \E f \in FiberNames :
          /\ core[SP] = Top(f)
          /\ core' = context[on_stack[f]]
          /\ context' = [context EXCEPT ![on_stack[f]] = None]
          /\ entry' = [entry EXCEPT ![f] = None]
          /\ on_stack' = [on_stack EXCEPT ![f] = "nothing"]
    /\ UNCHANGED <<fiber_port, jump, calls>>

get_context ==
    /\ IsRunning
    /\ jump' = Stored
    /\ core' = Stored
    /\ Leaves
    /\ UNCHANGED <<fiber_port, context, on_stack, entry>>

\* A function that called get_context and has not returned goes back there.
set_context ==
    /\ jump # None
    /\ jump[PC].of = Running
    /\ core' = jump
    /\ calls' = [calls EXCEPT ![Running] = (jump[PC].n + 1) % MaxCalls]
    /\ UNCHANGED <<fiber_port, context, on_stack, entry, jump>>

FibersNext ==
    \/ \E f \in FiberNames : Make(f) \/ swap_context(f)
    \/ FunctionReturns \/ Catch \/ get_context \/ set_context

FibersSpec == FibersInit /\ [][FibersNext]_fibers

----------------------------------------------------------------------------
(* Properties.                                                             *)

Returned(f) == [make_context(f) EXCEPT ![PC] = set_context_from_stack_address]

\* Whoever goes on has the registers, the stack and the return address that it
\* left with, a new fiber starts on its own stack, and one that has returned is
\* back at the top of it.
FibersKeepRegisters ==
    /\ core[PC] = Function(Running) => core = make_context(Running)
    /\ IsRunning /\ core[PC] # Function(Running) => core = LastStored(Running)
    /\ ~IsRunning => core = Returned(core[SP].of)

\* The activities take turns as the contexts promise, also when a fiber returns
\* to an activity that did not start it.
Waiting(f) == IF context[f] = None THEN "nobody" ELSE context[f][PC].of

Promised == INSTANCE Coroutines WITH
                Fibers <- FiberNames, Main <- "main", Nobody <- "nobody",
                running <- core[SP].of, waits <- [f \in FiberNames |-> Waiting(f)]

ImplementsCoroutines == Promised!CoroutinesSpec
=============================================================================
