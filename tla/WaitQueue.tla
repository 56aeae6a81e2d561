----------------------------- MODULE WaitQueue -----------------------------
(***************************************************************************)
(* What a condition variable of Badger Kernel promises: the threads it     *)
(* blocks stand in a queue, signal unblocks the first of them and          *)
(* broadcast all of them, and nothing else changes who is blocked.         *)
(* Synchronisation implements it with a ring in user memory.               *)
(***************************************************************************)
EXTENDS Naturals, Sequences

CONSTANT Threads

VARIABLES
    queue,    \* the threads blocked on the condition variable, first to last
    blocked   \* the threads that are waiting

waitVars == <<queue, blocked>>

WaitInit == queue = <<>> /\ blocked = {}

Wait(t) ==
    /\ t \notin blocked
    /\ queue' = Append(queue, t)
    /\ blocked' = blocked \cup {t}

Signal ==
    /\ queue # <<>>
    /\ queue' = Tail(queue)
    /\ blocked' = blocked \ {Head(queue)}

Broadcast ==
    /\ queue' = <<>>
    /\ blocked' = {}

WaitNext == (\E t \in Threads : Wait(t)) \/ Signal \/ Broadcast

WaitSpec == WaitInit /\ [][WaitNext]_waitVars
============================================================================
