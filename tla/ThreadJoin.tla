----------------------------- MODULE ThreadJoin -----------------------------
(***************************************************************************)
(* thread_join (src/user/thread.c): not a system call but a loop in user   *)
(* mode that reads the state of the target and yields until it is finished *)
(* or cancelled.  The timer can interrupt it between the two.  Every call   *)
(* and interrupt on the way saves and restores registers.                  *)
(***************************************************************************)
EXTENDS Registers

CONSTANTS
    Joiners,     \* the threads that join others
    Creators,    \* the threads that create others
    Restarters   \* the threads that restart themselves

ASSUME JoinersAssumption == Joiners \subseteq Tids
ASSUME CreatorsAssumption == Creators \subseteq Tids /\ Restarters \subseteq Tids

VARIABLES
    join      \* where each thread is in thread_join, and for which target

progress == <<vars, join>>
joinVars == <<progress, registers>>

NotJoining == [do |-> "work", target |-> 0]

JoinInit ==
    /\ Init
    /\ RegistersInit
    /\ join = [t \in Tids |-> NotJoining]

Doing(what) == kernel = "up" /\ join[current].do = what

CallJoin(u) ==
    /\ Doing("work") /\ Syscall("join")
    /\ current \in Joiners
    /\ u # current
    /\ join' = [join EXCEPT ![current] = [do |-> "read", target |-> u]]
    /\ UNCHANGED <<vars, registers>>

Return == join' = [join EXCEPT ![current] = NotJoining]

\* do_get_thread_property of TPROP_STATE, which fails for an invalid thread.
get_thread_state(u) == IF is_valid_thread(u) THEN state[u] ELSE "failed"

\* The loop goes on to yield unless the target has come to an end.
After(done) == IF get_thread_state(join[current].target) \in done
               THEN Return ELSE join' = [join EXCEPT ![current].do = "yield"]

\* Mutated: a cancelled thread is waited for.
CheckStateFinishedOnly ==
    Doing("read") /\ Syscall("join") /\ After({"finished", "failed"}) /\ UNCHANGED vars

CheckState ==
    Doing("read") /\ Syscall("join") /\ After({"finished", "cancelled", "failed"}) /\ UNCHANGED vars

ReadState == CheckState /\ SystemCall("get_property", Nothing)

YieldAgain == Doing("yield") /\ YieldAny /\ join' = [join EXCEPT ![current].do = "read"]

JoinYield ==
    /\ YieldAgain
    /\ SystemCall("yield", Nothing)

\* A new thread in slot t is not joining anything.
Create(t) ==
    /\ \/ t = 0 /\ FirstLoad
       \/ /\ Doing("work") /\ current \in Creators
          /\ FirstFreeSlot(t) /\ \E remove \in RemoveSets : AddThread(remove)
          /\ SystemCall("add_thread", Contexts(t, "new"))
    /\ join' = [join EXCEPT ![t] = NotJoining]

Yields == YieldAny /\ SystemCall("yield", Nothing)
Ends ==
    \/ SetFinished /\ UNCHANGED registers
    \/ YieldAsm /\ OtherSvc

WorkerReturns == CleanupThread /\ UNCHANGED registers

WorkerStep ==
    \/ Yields \/ WorkerReturns
    \/ \E armed \in BOOLEAN : ArmTimer(armed)
    \/ \E t \in Tids : ThreadCancel(t) /\ SystemCall("cancel", Nothing)
    \/ \E remove \in RemoveSets :
          /\ current \in Restarters
          /\ Restart(remove)
          /\ SystemCall("restart", Contexts(current, "new"))
    \/ \E tid \in Tids \cup {CURRENT_THREAD} : SetRegisters(tid)

JoinNext ==
    \/ \E t \in Tids : CallJoin(t) \/ Create(t)
    \/ ReadState \/ JoinYield
    \/ /\ \/ Doing("work") /\ WorkerStep
          \/ TimerInterrupt \/ Ends
          \/ Halted /\ UNCHANGED registers
       /\ UNCHANGED join

JoinSpec == JoinInit /\ [][JoinNext]_joinVars

\* A thread that is scheduled runs, and every worker returns in the end,
\* however often it yields before.
RunsOn(t) ==
    /\ current = t
    /\ \/ CheckState \/ YieldAgain
       \/ /\ \/ Doing("work") /\ (YieldAny \/ CleanupThread)
             \/ SetFinished \/ YieldAsm
          /\ UNCHANGED join

ReturnsInTheEnd(t) == current = t /\ Doing("work") /\ CleanupThread /\ UNCHANGED join

FairJoinSpec ==
    /\ JoinSpec
    /\ \A t \in Tids : SF_progress(RunsOn(t)) /\ SF_progress(ReturnsInTheEnd(t))

----------------------------------------------------------------------------
(* Properties.                                                             *)

\* thread_join returns, with whatever the target does and whoever cancels it,
\* unless the joining thread itself is cancelled.
JoinReturns ==
    \A t \in Tids :
        join[t].do # "work" ~> (join[t].do = "work" \/ Dead(t) \/ kernel # "up")
=============================================================================
