-------------------------- MODULE ThreadLifecycle --------------------------
(***************************************************************************)
(* What the scheduler of Badger Kernel promises, without its table walk,   *)
(* its parents and children or its asynchronous timer: one processor that  *)
(* only ever executes a live thread, threads that leave it ready, blocked, *)
(* dead or destroyed, blocked threads that need a wake-up, and dead ones   *)
(* whose slot only a new thread takes.  Threads implements it.             *)
(***************************************************************************)
CONSTANTS
    Slots,     \* the slots of the thread table
    NoThread   \* no slot: the processor before the first thread is loaded

VARIABLES
    phase,     \* of the thread in each slot
    cpu,       \* the thread the processor executes
    on         \* the kernel runs

lifecycleVars == <<phase, cpu, on>>

Phases == {"free", "ready", "running", "blocked", "dead"}

LifecycleInit ==
    /\ phase = [t \in Slots |-> "free"]
    /\ cpu = NoThread
    /\ on = TRUE

Start(t) ==
    /\ cpu = NoThread
    /\ phase' = [phase EXCEPT ![t] = "running"]
    /\ cpu' = t
    /\ UNCHANGED on

\* The running thread acts on another one.
Create(t) ==
    /\ phase[t] \in {"free", "dead"}
    /\ phase' = [phase EXCEPT ![t] = "ready"]

Wake(t) ==
    /\ phase[t] = "blocked"
    /\ phase' = [phase EXCEPT ![t] = "ready"]

Kill(t) ==
    /\ phase[t] # "free"
    /\ phase' = [phase EXCEPT ![t] = "dead"]

ActOn(t) ==
    /\ cpu # NoThread /\ phase[cpu] = "running"
    /\ t # cpu
    /\ Create(t) \/ Wake(t) \/ Kill(t)
    /\ UNCHANGED <<cpu, on>>

\* The running thread ends, and has the processor until it leaves it.
Finish ==
    /\ cpu # NoThread /\ phase[cpu] = "running"
    /\ phase' = [phase EXCEPT ![cpu] = "dead"]
    /\ UNCHANGED <<cpu, on>>

\* The phases the processor's thread can leave it in.
Leaving == IF phase[cpu] = "dead" THEN {"dead"}
                                  ELSE {"ready", "blocked", "dead", "free"}

Switch(left, n) ==
    LET after == [phase EXCEPT ![cpu] = left]
    IN  /\ after[n] = "ready"
        /\ phase' = [after EXCEPT ![n] = "running"]
        /\ cpu' = n
        /\ UNCHANGED on

\* Left with nothing to run, the kernel stops; a thread can also stop it.
Idle(left) ==
    LET after == [phase EXCEPT ![cpu] = left]
    IN  /\ \A t \in Slots : after[t] # "ready"
        /\ phase' = after
        /\ on' = FALSE
        /\ UNCHANGED cpu

Stop ==
    /\ phase[cpu] = "running"
    /\ on' = FALSE
    /\ \E left \in {"ready", "free"} : phase' = [phase EXCEPT ![cpu] = left]
    /\ UNCHANGED cpu

LifecycleNext ==
    /\ on
    /\ \/ \E t \in Slots : Start(t) \/ ActOn(t)
       \/ Finish
       \/ /\ cpu # NoThread
          /\ \/ \E left \in Leaving :
                    Idle(left) \/ \E n \in Slots : Switch(left, n)
             \/ Stop

LifecycleSpec == LifecycleInit /\ [][LifecycleNext]_lifecycleVars
============================================================================
