----------------------------- MODULE Coroutines -----------------------------
(***************************************************************************)
(* What fibers promise a program: one activity of a thread runs at a time, *)
(* and each context that make_context has set up stands for one activity   *)
(* that waits.  Fibers implements this with registers and stacks.          *)
(***************************************************************************)
CONSTANTS
    Fibers,    \* each with the context it was made with
    Main,      \* the thread's own function
    Nobody

DistinctNames == Main \notin Fibers /\ Nobody \notin Fibers \cup {Main}

VARIABLES
    running,   \* the activity that runs
    waits      \* per context, the activity that waits in it

coroutines == <<running, waits>>

CoroutinesInit ==
    /\ running = Main
    /\ waits = [f \in Fibers |-> Nobody]

\* A context is made anew once its fiber has returned.
MakeFiber(f) ==
    /\ waits[f] = Nobody
    /\ waits' = [waits EXCEPT ![f] = f]
    /\ UNCHANGED running

\* Whoever runs changes places with the activity that waits in a context.
Exchange(f) ==
    /\ waits[f] # Nobody
    /\ running' = waits[f]
    /\ waits' = [waits EXCEPT ![f] = running]

\* A fiber that returns goes on with the activity that waits in its context.
FiberReturns ==
    /\ running \in Fibers
    /\ running' = waits[running]
    /\ waits' = [waits EXCEPT ![running] = Nobody]

CoroutinesNext == FiberReturns \/ \E f \in Fibers : MakeFiber(f) \/ Exchange(f)

CoroutinesSpec == CoroutinesInit /\ [][CoroutinesNext]_coroutines

----------------------------------------------------------------------------
(* Properties.                                                             *)

\* The thread's own function and the fibers that have not returned.
Alive == {Main} \cup {f \in Fibers : waits[f] # Nobody}

\* No activity is lost and none goes on twice: each one that is alive runs or
\* waits in exactly one context, whatever order they change places in.
NoneIsLost ==
    /\ running \in Alive
    /\ \A f, g \in Fibers : waits[f] = waits[g] => f = g \/ waits[f] = Nobody
    /\ \A f \in Fibers : waits[f] # running /\ waits[f] \in Alive \cup {Nobody}
    /\ \A a \in Alive : a = running \/ \E f \in Fibers : waits[f] = a
=============================================================================
