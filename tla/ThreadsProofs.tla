---------------------------- MODULE ThreadsProofs ----------------------------
(***************************************************************************)
(* Safety of the scheduler for every number of threads, every program and  *)
(* every set of permissions to remove, and the life cycle contract that    *)
(* the table walk implements.                                              *)
(***************************************************************************)
EXTENDS Threads, TLAPS

\* Threads are created and restarted without taking permissions away: what
\* modules on top of this one assume, whose programs take none away.
NoneRemoved == {} \in RemoveSets

\* The three invariants are inductive together.
SafeInv == TypeOK /\ OnlyCurrentRuns /\ CurrentIsLive

----------------------------------------------------------------------------
\* do_scheduler leaves the processor to a thread it may execute, or stops.
LEMMA SchedulerLemma ==
    ASSUME NEW ids \in [Tids -> Tids \cup {INVALID_THREAD}],
           NEW st \in [Tids -> ThreadStates],
           NEW to \in Tids \cup {NULL},
           \A t \in Tids : ids[t] \in {t, INVALID_THREAD},
           \A t \in Tids : st[t] = "running" => t = current,
           to # NULL => can_schedule_thread(ids, st, to),
           current \in Tids \cup {NULL},
           do_scheduler(ids, st, to)
    PROVE  /\ state' \in [Tids -> ThreadStates]
           /\ current' \in Tids \cup {NULL}
           /\ kernel' \in {"up", "exit0"}
           /\ \A t \in Tids : state'[t] = "running" => t = current'
           /\ kernel' = "up" => /\ current' \in Tids
                                /\ ids[current'] = current'
                                /\ state'[current'] = "running"
           /\ \A t \in Tids : st[t] \in {"finished", "cancelled"} =>
                                state'[t] = st[t]
  <1>1. CASE \E n \in Tids : /\ IF to = NULL THEN choose_next_thread(ids, st, n)
                                             ELSE n = to
                             /\ SwitchTo(st, n)
    <2>1. PICK n \in Tids : can_schedule_thread(ids, st, n) /\ SwitchTo(st, n)
      BY <1>1 DEF choose_next_thread
    <2>2. ids[n] = n
      BY <2>1 DEF can_schedule_thread
    <2>3. QED
      BY <2>1, <2>2 DEF SwitchTo, ThreadStates, can_schedule_thread
  <1>2. CASE /\ to = NULL
             /\ \A n \in Tids : ~can_schedule_thread(ids, st, n)
             /\ state' = st
             /\ kernel' = "exit0"
             /\ UNCHANGED current
    BY <1>2
  <1>3. QED
    BY <1>1, <1>2 DEF do_scheduler

\* A handler that ends in do_scheduler keeps the invariant if what it leaves in
\* the table is well typed.
LEMMA ScheduledIsSafe ==
    ASSUME NEW st \in [Tids -> ThreadStates],
           NEW to \in Tids \cup {NULL},
           id' \in [Tids -> Tids \cup {INVALID_THREAD}],
           \A t \in Tids : id'[t] \in {t, INVALID_THREAD},
           parent' \in [Tids -> Tids \cup {INVALID_THREAD}],
           child' \in [Tids -> Tids \cup {INVALID_THREAD}],
           permissions' \in [Tids -> SUBSET TPERM_ALL],
           stage' \in [Tids -> Stages],
           timer' \in BOOLEAN,
           destroy_on_stack_err' \in BOOLEAN,
           current \in Tids \cup {NULL},
           \A t \in Tids : st[t] = "running" => t = current,
           to # NULL => can_schedule_thread(id', st, to),
           do_scheduler(id', st, to)
    PROVE  SafeInv'
  <1>1. /\ state' \in [Tids -> ThreadStates]
        /\ current' \in Tids \cup {NULL}
        /\ kernel' \in {"up", "exit0"}
        /\ \A t \in Tids : state'[t] = "running" => t = current'
        /\ kernel' = "up" => /\ current' \in Tids
                             /\ id'[current'] = current'
                             /\ state'[current'] = "running"
    BY SchedulerLemma
  <1>2. NULL \notin Tids
    BY DEF Tids, NULL
  <1>3. TypeOK'
    BY <1>1, <1>2 DEF TypeOK
  <1>4. OnlyCurrentRuns'
    BY <1>1 DEF OnlyCurrentRuns
  <1>5. CurrentIsLive'
    BY <1>1 DEF CurrentIsLive
  <1>6. QED
    BY <1>3, <1>4, <1>5 DEF SafeInv

\* Before the boot nothing runs.
LEMMA SafeInit == Init => SafeInv
  <1> SUFFICES ASSUME Init PROVE SafeInv
    OBVIOUS
  <1>1. id \in [Tids -> Tids \cup {INVALID_THREAD}]
        /\ \A t \in Tids : id[t] \in {t, INVALID_THREAD}
    BY DEF Init
  <1>2. state \in [Tids -> ThreadStates]
    BY DEF Init, ThreadStates
  <1>3. /\ parent \in [Tids -> Tids \cup {INVALID_THREAD}]
        /\ child \in [Tids -> Tids \cup {INVALID_THREAD}]
    BY DEF Init
  <1>4. permissions \in [Tids -> SUBSET TPERM_ALL]
    BY DEF Init
  <1>5. stage \in [Tids -> Stages]
    BY DEF Init, Stages
  <1>6. /\ current \in Tids \cup {NULL}
        /\ timer \in BOOLEAN
        /\ destroy_on_stack_err \in BOOLEAN
        /\ kernel \in {"boot", "up", "exit0", "exit1"}
        /\ kernel # "up"
    BY DEF Init
  <1>7. TypeOK
    BY <1>1, <1>2, <1>3, <1>4, <1>5, <1>6 DEF TypeOK
  <1>8. OnlyCurrentRuns
    BY DEF Init, OnlyCurrentRuns
  <1>9. CurrentIsLive
    BY <1>6 DEF CurrentIsLive
  <1>10. QED
    BY <1>7, <1>8, <1>9 DEF SafeInv

\* Every step keeps the invariant, action by action.
LEMMA SafeStep == SafeInv /\ [Next]_vars => SafeInv'
  <1> SUFFICES ASSUME SafeInv, [Next]_vars PROVE SafeInv'
    OBVIOUS
  <1> USE DEF SafeInv
  <1> DEFINE Up == kernel = "up"
  <1>0. INVALID_THREAD \notin Tids /\ NULL = INVALID_THREAD /\ NULL \notin Tids
    BY DEF Tids, INVALID_THREAD, NULL
  <1>a. Up => current \in Tids
    BY <1>0 DEF TypeOK
  <1>1. CASE Boot
    <2> DEFINE st == [state EXCEPT ![0] = "init"]
    <2>1. 0 \in Tids
      BY MaxThreadsAssumption DEF Tids
    <2>2. /\ id' \in [Tids -> Tids \cup {INVALID_THREAD}]
          /\ \A t \in Tids : id'[t] \in {t, INVALID_THREAD}
          /\ parent' \in [Tids -> Tids \cup {INVALID_THREAD}]
          /\ child' \in [Tids -> Tids \cup {INVALID_THREAD}]
          /\ permissions' \in [Tids -> SUBSET TPERM_ALL]
          /\ stage' \in [Tids -> Stages]
      BY <1>1, <2>1 DEF Boot, init_thread, TypeOK, Stages
    <2>3. st \in [Tids -> ThreadStates] /\ \A t \in Tids : st[t] = "running" => t = current
      BY <2>1 DEF TypeOK, OnlyCurrentRuns, ThreadStates
    <2>4. do_scheduler(id', st, NULL)
      BY <1>1 DEF Boot
    <2> HIDE DEF st
    <2>5. timer' \in BOOLEAN /\ destroy_on_stack_err' \in BOOLEAN
      BY <1>1 DEF Boot, TypeOK, config
    <2>6. QED
      BY <2>2, <2>3, <2>4, <2>5, ScheduledIsSafe DEF TypeOK
  <1>2. ASSUME NEW remove \in RemoveSets, AddThread(remove) PROVE SafeInv'
    <2>1. PICK t \in Tids :
            /\ FirstFreeSlot(t)
            /\ init_thread(t, INVALID_THREAD, permissions[current] \ remove)
            /\ state' = [state EXCEPT ![t] = "init"]
      BY <1>2 DEF AddThread
    <2>2. t # current
      BY <1>2, <2>1, <1>a, <1>0
         DEF AddThread, Syscall, AtStage, FirstFreeSlot, SlotIsFree, CurrentIsLive
    <2>3. QED
      BY <1>2, <1>a, <2>1, <2>2
         DEF AddThread, Syscall, AtStage, init_thread, TypeOK, OnlyCurrentRuns,
             CurrentIsLive, Stages, ThreadStates, config
  <1>3. ASSUME NEW remove \in RemoveSets, Restart(remove) PROVE SafeInv'
    BY <1>3, <1>a
       DEF Restart, Syscall, AtStage, init_thread, TypeOK, OnlyCurrentRuns,
           CurrentIsLive, Stages, ThreadStates, config
  <1>4. CASE YieldAny
    <2>1. do_scheduler(id', state, NULL) /\ UNCHANGED <<id, family, permissions, stage, config>>
      BY <1>4 DEF YieldAny
    <2>2. QED
      BY <2>1, <1>0, ScheduledIsSafe DEF TypeOK, OnlyCurrentRuns, config, family
  <1>5. ASSUME NEW t \in Tids, YieldTo(t) PROVE SafeInv'
    <2>1. /\ can_schedule_thread(id', state, t) /\ do_scheduler(id', state, t)
          /\ UNCHANGED <<id, family, permissions, stage, config>>
      BY <1>5 DEF YieldTo
    <2>2. QED
      BY <2>1, ScheduledIsSafe DEF TypeOK, OnlyCurrentRuns, config, family
  <1>6. CASE ThreadWait
    <2> DEFINE st == [state EXCEPT ![current] = "waiting"]
    <2>1. st \in [Tids -> ThreadStates] /\ \A t \in Tids : st[t] = "running" => t = current
      BY <1>6, <1>a DEF TypeOK, OnlyCurrentRuns, ThreadStates, ThreadWait, Syscall, AtStage
    <2>2. do_scheduler(id, st, NULL)
      BY <1>6 DEF ThreadWait
    <2> HIDE DEF st
    <2>3. UNCHANGED <<id, family, permissions, stage, config>>
      BY <1>6 DEF ThreadWait
    <2>4. QED
      BY <2>1, <2>2, <2>3, <1>0, ScheduledIsSafe DEF TypeOK, config, family
  <1>7. CASE Tick
    <2>1. /\ do_scheduler(id', state, NULL)
          /\ timer' = FALSE
          /\ UNCHANGED <<id, family, permissions, stage, destroy_on_stack_err>>
      BY <1>7 DEF Tick
    <2>2. QED
      BY <2>1, <1>0, ScheduledIsSafe DEF TypeOK, OnlyCurrentRuns, family
  <1>8. ASSUME NEW armed \in BOOLEAN, SetTimer(armed) PROVE SafeInv'
    BY <1>8 DEF SetTimer, TypeOK, OnlyCurrentRuns, CurrentIsLive, family
  <1>9. ASSUME NEW t \in Tids, ThreadWake(t) PROVE SafeInv'
    BY <1>9, <1>a DEF ThreadWake, Syscall, AtStage, TypeOK, OnlyCurrentRuns,
           CurrentIsLive, ThreadStates, family, config
  <1>10. ASSUME NEW t \in Tids, ThreadCancel(t) PROVE SafeInv'
    <2> DEFINE st == [state EXCEPT ![t] = "cancelled"]
    <2>1. st \in [Tids -> ThreadStates] /\ \A u \in Tids : st[u] = "running" => u = current
      BY <1>10 DEF TypeOK, OnlyCurrentRuns, ThreadStates
    <2>2. CASE do_scheduler(id, st, NULL)
      <3> HIDE DEF st
      <3>1. UNCHANGED <<id, family, permissions, stage, config>>
        BY <1>10 DEF ThreadCancel
      <3>2. QED
        BY <2>1, <2>2, <3>1, <1>0, ScheduledIsSafe DEF TypeOK, config, family
    <2>3. CASE t # current /\ state' = st /\ UNCHANGED <<current, kernel>>
      BY <2>1, <2>3, <1>10, <1>a
         DEF ThreadCancel, TypeOK, OnlyCurrentRuns, CurrentIsLive, config, family
    <2>4. QED
      BY <1>10, <2>2, <2>3 DEF ThreadCancel
  <1>11. ASSUME NEW tid \in Tids \cup {CURRENT_THREAD}, NEW c \in Tids, SetChild(tid, c)
         PROVE SafeInv'
    <2>1. Target(tid) \in Tids
      BY <1>11 DEF SetChild, is_valid_thread
    <2>2. QED
      BY <1>11, <2>1 DEF SetChild, TypeOK, OnlyCurrentRuns, CurrentIsLive, config
  <1>12. ASSUME NEW tid \in Tids \cup {CURRENT_THREAD}, NEW remove \in RemoveSets,
                SetPermissions(tid, remove)
         PROVE SafeInv'
    <2>1. Target(tid) \in Tids
      BY <1>12 DEF SetPermissions, is_valid_thread
    <2>2. QED
      BY <1>12, <2>1 DEF SetPermissions, TypeOK, OnlyCurrentRuns, CurrentIsLive, config, family
  <1>13. ASSUME NEW destroy \in BOOLEAN, SetKernelConfig(destroy) PROVE SafeInv'
    BY <1>13 DEF SetKernelConfig, TypeOK, OnlyCurrentRuns, CurrentIsLive, family
  <1>14. CASE StackError
    <2>1. /\ id' \in [Tids -> Tids \cup {INVALID_THREAD}]
          /\ \A t \in Tids : id'[t] \in {t, INVALID_THREAD}
      BY <1>14 DEF StackError, TypeOK
    <2>2. CASE do_scheduler(id', state, NULL)
      <3>1. UNCHANGED <<family, permissions, stage, config>>
        BY <1>14 DEF StackError
      <3>2. QED
        BY <2>1, <2>2, <3>1, <1>0, ScheduledIsSafe DEF TypeOK, OnlyCurrentRuns, config, family
    <2>3. CASE kernel' = "exit1" /\ UNCHANGED <<state, current>>
      BY <2>1, <2>3, <1>14
         DEF StackError, TypeOK, OnlyCurrentRuns, CurrentIsLive, config, family
    <2>4. QED
      BY <1>14, <2>2, <2>3 DEF StackError
  <1>15. CASE CleanupThread
    BY <1>15, <1>a DEF CleanupThread, AtStage, TypeOK, OnlyCurrentRuns, CurrentIsLive,
           Stages, config, family
  <1>16. CASE SetFinished
    BY <1>16, <1>a DEF SetFinished, AtStage, TypeOK, OnlyCurrentRuns, CurrentIsLive,
           Stages, ThreadStates, config, family
  <1>17. CASE YieldAsm
    <2>1. stage' \in [Tids -> Stages]
      BY <1>17 DEF YieldAsm, TypeOK, Stages
    <2>2. do_scheduler(id', state, NULL) /\ UNCHANGED <<id, family, permissions, config>>
      BY <1>17 DEF YieldAsm
    <2>3. QED
      BY <2>1, <2>2, <1>0, ScheduledIsSafe DEF TypeOK, OnlyCurrentRuns, config, family
  <1>18. CASE Unreachable
    BY <1>18 DEF Unreachable, TypeOK, OnlyCurrentRuns, CurrentIsLive, config, family
  <1>19. ASSUME NEW status \in {"exit0", "exit1"}, Exit(status) PROVE SafeInv'
    BY <1>19 DEF Exit, TypeOK, OnlyCurrentRuns, CurrentIsLive, config, family
  <1>20. CASE UNCHANGED vars
    BY <1>20 DEF vars, TypeOK, OnlyCurrentRuns, CurrentIsLive
  <1>21. QED
    BY <1>1, <1>2, <1>3, <1>4, <1>5, <1>6, <1>7, <1>8, <1>9, <1>10, <1>11, <1>12,
       <1>13, <1>14, <1>15, <1>16, <1>17, <1>18, <1>19, <1>20
       DEF Next, UserStep, ThreadEnd, Halted

\* Every field of the thread table keeps its type, and an id is the index of
\* its slot: choose_next_thread never finds them inconsistent.
THEOREM TypeCorrect == Spec => []TypeOK
  <1>1. SafeInv => TypeOK
    BY DEF SafeInv
  <1>2. QED
    BY SafeInit, SafeStep, <1>1, PTL DEF Spec

\* No thread but the current one is ever in state running.
THEOREM OneRunningThread == Spec => []OnlyCurrentRuns
  <1>1. SafeInv => OnlyCurrentRuns
    BY DEF SafeInv
  <1>2. QED
    BY SafeInit, SafeStep, <1>1, PTL DEF Spec

\* The processor only ever executes a live thread.
THEOREM ExecutesLiveThreads == Spec => []CurrentIsLive
  <1>1. SafeInv => CurrentIsLive
    BY DEF SafeInv
  <1>2. QED
    BY SafeInit, SafeStep, <1>1, PTL DEF Spec

----------------------------------------------------------------------------
(* The end of a thread.                                                    *)

\* A thread at the end of thread_start is finished or cancelled: what keeps
\* the scheduler from resuming it.  This is where a wake of a thread that is
\* not waiting would break the induction.
EndedIsDead ==
    \A t \in Tids : stage[t] \in {"finished", "returned"} =>
                        state[t] \in {"finished", "cancelled"}

\* Before the boot no slot holds a thread that ended.
NoThreadBeforeBoot == kernel = "boot" => \A t \in Tids : state[t] = "init"

EndInv == EndedIsDead /\ NoThreadBeforeBoot /\ NeverResumedAfterEnd

\* The scheduler does not bring back a thread whose slot is free.
LEMMA SchedulerKeepsFree ==
    ASSUME NEW st, NEW to \in Tids \cup {NULL},
           to # NULL => can_schedule_thread(id, st, to),
           do_scheduler(id, st, to), id' = id,
           NEW t \in Tids,
           id[t] = INVALID_THREAD \/ st[t] \in {"cancelled", "finished"}
    PROVE  SlotIsFree(t)'
  BY DEF do_scheduler, SwitchTo, choose_next_thread, can_schedule_thread, SlotIsFree

\* The scheduler leaves a dead thread alone.
LEMMA SchedulerKeepsDead ==
    ASSUME NEW ids, NEW st, NEW to \in Tids \cup {NULL},
           to # NULL => can_schedule_thread(ids, st, to),
           do_scheduler(ids, st, to)
    PROVE  /\ \A t \in Tids : st[t] \in {"finished", "cancelled"} => state'[t] = st[t]
           /\ kernel' \in {"up", "exit0"}
  BY DEF do_scheduler, SwitchTo, choose_next_thread, can_schedule_thread

\* A thread that ended leaves that state only when its slot is used again.
LEMMA EndedStep ==
    ASSUME WakesOnlyWaiting, SafeInv, EndInv, [Next]_vars,
           NEW t \in Tids, state[t] \in {"finished", "cancelled"}
    PROVE  \/ state'[t] \in {"finished", "cancelled"} /\ stage'[t] = stage[t]
           \/ /\ state'[t] \in {"finished", "cancelled"}
              /\ t = current /\ YieldAsm
           \/ state'[t] = "init" /\ stage'[t] = "work" /\ t # current
  <1> USE DEF SafeInv
  <1>0. NULL \notin Tids /\ NULL = INVALID_THREAD /\ CURRENT_THREAD = INVALID_THREAD
    BY DEF Tids, INVALID_THREAD, NULL, CURRENT_THREAD
  <1>a. kernel = "up" => current \in Tids
    BY <1>0 DEF TypeOK
  <1>1. CASE Boot
    BY <1>1 DEF Boot, EndInv, NoThreadBeforeBoot
  <1>2. ASSUME NEW remove \in RemoveSets, AddThread(remove)
        PROVE  \/ state'[t] = state[t] /\ stage'[t] = stage[t]
               \/ state'[t] = "init" /\ stage'[t] = "work" /\ t # current
    BY <1>2, <1>a DEF AddThread, Syscall, AtStage, init_thread, FirstFreeSlot, SlotIsFree,
           CurrentIsLive, TypeOK
  <1>3. ASSUME NEW remove \in RemoveSets, Restart(remove)
        PROVE  state'[t] = state[t] /\ stage'[t] = stage[t]
    BY <1>3, <1>a DEF Restart, Syscall, AtStage, init_thread, CurrentIsLive, TypeOK
  <1>4. CASE YieldAny
    BY <1>4, SchedulerKeepsDead DEF YieldAny
  <1>5. ASSUME NEW u \in Tids, YieldTo(u)
        PROVE  state'[t] = state[t] /\ stage'[t] = stage[t]
    BY <1>5, SchedulerKeepsDead DEF YieldTo
  <1>6. CASE ThreadWait
    <2>1. [state EXCEPT ![current] = "waiting"][t] = state[t]
      BY <1>6, <1>a DEF ThreadWait, Syscall, AtStage, CurrentIsLive, TypeOK
    <2>2. QED
      BY <1>6, <2>1, SchedulerKeepsDead DEF ThreadWait
  <1>7. CASE Tick
    BY <1>7, SchedulerKeepsDead DEF Tick
  <1>8. ASSUME NEW u \in Tids, ThreadWake(u)
        PROVE  state'[t] = state[t] /\ stage'[t] = stage[t]
    BY <1>8 DEF ThreadWake, TypeOK
  <1>9. ASSUME NEW u \in Tids, ThreadCancel(u)
        PROVE  state'[t] \in {"finished", "cancelled"} /\ stage'[t] = stage[t]
    <2>1. [state EXCEPT ![u] = "cancelled"][t] \in {"finished", "cancelled"}
      BY DEF TypeOK
    <2>2. QED
      BY <1>9, <2>1, SchedulerKeepsDead DEF ThreadCancel
  <1>10. CASE StackError
    BY <1>10, SchedulerKeepsDead DEF StackError
  <1>11. CASE CleanupThread
    BY <1>11, <1>a DEF CleanupThread, AtStage, CurrentIsLive, TypeOK
  <1>12. CASE SetFinished
    BY <1>12, <1>a DEF SetFinished, AtStage, CurrentIsLive, TypeOK
  <1>13. CASE YieldAsm
    BY <1>13, <1>a, SchedulerKeepsDead DEF YieldAsm, AtStage, TypeOK
  <1>14. ASSUME \/ \E armed \in BOOLEAN : SetTimer(armed)
                \/ \E tid \in Tids \cup {CURRENT_THREAD} :
                     \/ \E c \in Tids : SetChild(tid, c)
                     \/ \E remove \in RemoveSets : SetPermissions(tid, remove)
                \/ \E destroy \in BOOLEAN : SetKernelConfig(destroy)
                \/ Unreachable
                \/ \E status \in {"exit0", "exit1"} : Exit(status)
                \/ UNCHANGED vars
         PROVE  state'[t] = state[t] /\ stage'[t] = stage[t]
    BY <1>14 DEF SetTimer, SetChild, SetPermissions, SetKernelConfig, Unreachable,
                 Exit, vars
  <1>15. QED
    BY <1>1, <1>2, <1>3, <1>4, <1>5, <1>6, <1>7, <1>8, <1>9, <1>10, <1>11, <1>12,
       <1>13, <1>14 DEF Next, UserStep, ThreadEnd, Halted

\* Before the boot no slot is dead.
LEMMA EndInit == Init => EndInv
  BY DEF Init, EndInv, EndedIsDead, NoThreadBeforeBoot, NeverResumedAfterEnd

\* The stage of a thread changes only under its own steps.
LEMMA StageStep ==
    ASSUME SafeInv, [Next]_vars, NEW t \in Tids,
           stage'[t] \in {"finished", "returned"}, stage'[t] # stage[t]
    PROVE  t = current /\ (SetFinished \/ YieldAsm)
  <1>1. CASE UNCHANGED stage
    BY <1>1
  <1>2. CASE Boot
    BY <1>2 DEF SafeInv, TypeOK, Boot, init_thread
  <1>3. CASE \E remove \in RemoveSets : AddThread(remove) \/ Restart(remove)
    BY <1>3 DEF SafeInv, TypeOK, AddThread, Restart, init_thread
  <1>4. CASE CleanupThread
    BY <1>4 DEF SafeInv, TypeOK, CleanupThread
  <1>5. CASE SetFinished \/ YieldAsm
    BY <1>5 DEF SafeInv, TypeOK, SetFinished, YieldAsm
  <1>6. QED
    BY <1>1, <1>2, <1>3, <1>4, <1>5
       DEF Next, UserStep, ThreadEnd, Halted, vars, YieldAny, YieldTo, ThreadWait, Tick,
           SetTimer, ThreadWake, ThreadCancel, SetChild, SetPermissions,
           SetKernelConfig, StackError, Unreachable, Exit

\* Every step keeps ends final, action by action.
LEMMA EndStep ==
    ASSUME WakesOnlyWaiting, SafeInv, EndInv, [Next]_vars PROVE EndInv'
  <1>a. kernel = "up" => current \in Tids
    BY DEF SafeInv, TypeOK, Tids, NULL
  <1>1. EndedIsDead'
    <2> SUFFICES ASSUME NEW t \in Tids, stage'[t] \in {"finished", "returned"}
                 PROVE  state'[t] \in {"finished", "cancelled"}
      BY DEF EndedIsDead
    <2>1. CASE stage'[t] = stage[t]
      BY <2>1, EndedStep DEF EndInv, EndedIsDead
    <2>2. CASE stage'[t] # stage[t]
      <3>1. t = current /\ (SetFinished \/ YieldAsm)
        BY <2>2, StageStep
      <3>2. CASE SetFinished
        BY <3>1, <3>2 DEF SetFinished, SafeInv, TypeOK
      <3>3. CASE YieldAsm
        <4>1. stage[t] = "finished"
          BY <3>1, <3>3 DEF YieldAsm, AtStage
        <4>2. state[t] \in {"finished", "cancelled"}
          BY <4>1 DEF EndInv, EndedIsDead
        <4>3. QED
          BY <4>2, <3>3, SchedulerKeepsDead DEF YieldAsm
      <3>4. QED
        BY <3>1, <3>2, <3>3
    <2>3. QED
      BY <2>1, <2>2
  <1>2. NoThreadBeforeBoot'
    <2>1. kernel' = "boot" => UNCHANGED vars
      BY SchedulerKeepsDead
         DEF Next, UserStep, ThreadEnd, Halted, vars, Boot, AddThread, Restart,
         YieldAny, YieldTo, ThreadWait, Tick, SetTimer, ThreadWake, Syscall, AtStage,
         ThreadCancel, SetChild, SetPermissions, SetKernelConfig, StackError,
         CleanupThread, SetFinished, YieldAsm, Unreachable, Exit, do_scheduler, SwitchTo
    <2>2. QED
      BY <2>1 DEF EndInv, NoThreadBeforeBoot, vars
  <1>3. NeverResumedAfterEnd'
    <2>1. ~Unreachable
      BY <1>a DEF Unreachable, AtStage, SafeInv, CurrentIsLive, EndInv, EndedIsDead
    <2>2. QED
      BY <2>1 DEF EndInv, NeverResumedAfterEnd,
         Next, UserStep, ThreadEnd, Halted, vars, Boot, AddThread, Restart,
         YieldAny, YieldTo, ThreadWait, Tick, SetTimer, ThreadWake,
         ThreadCancel, SetChild, SetPermissions, SetKernelConfig, StackError,
         CleanupThread, SetFinished, YieldAsm, Exit, do_scheduler, SwitchTo
  <1>4. QED
    BY <1>1, <1>2, <1>3 DEF EndInv

\* Only a stack error destroys a slot, and it destroys one that is not dead.
LEMMA IdStep ==
    ASSUME SafeInv, [Next]_vars, NEW t \in Tids, Dead(t)
    PROVE  id'[t] # INVALID_THREAD
  <1> USE DEF SafeInv, Dead
  <1>a. INVALID_THREAD \notin Tids /\ (kernel = "up" => current \in Tids)
    BY DEF TypeOK, Tids, INVALID_THREAD, NULL
  <1>1. CASE Boot
    BY <1>1, <1>a DEF Boot, init_thread, TypeOK
  <1>2. CASE \E remove \in RemoveSets : AddThread(remove) \/ Restart(remove)
    BY <1>2, <1>a DEF AddThread, Restart, init_thread, Syscall, AtStage, TypeOK
  <1>3. CASE StackError
    BY <1>3, <1>a DEF StackError, Syscall, AtStage, CurrentIsLive, TypeOK
  <1>4. CASE UNCHANGED id
    BY <1>4
  <1>5. QED
    BY <1>1, <1>2, <1>3, <1>4
       DEF Next, UserStep, ThreadEnd, Halted, vars, YieldAny, YieldTo, ThreadWait, Tick,
           SetTimer, ThreadWake, ThreadCancel, SetChild, SetPermissions, SetKernelConfig,
           CleanupThread, SetFinished, YieldAsm, Unreachable, Exit

\* If programs only wake threads that are waiting, no finished thread is ever
\* resumed after its YIELD_ASM.
THEOREM EndIsFinal == ASSUME WakesOnlyWaiting PROVE Spec => []NeverResumedAfterEnd
  <1>1. SafeInv /\ EndInv /\ [Next]_vars => EndInv'
    BY EndStep
  <1>2. EndInv => NeverResumedAfterEnd
    BY DEF EndInv
  <1>3. QED
    BY SafeInit, SafeStep, EndInit, <1>1, <1>2, PTL DEF Spec

\* And no dead thread comes back but as a new thread in its slot.
THEOREM DeathIsFinal == ASSUME WakesOnlyWaiting PROVE Spec => DeadStaysDead
  <1> DEFINE Reborn == \A t \in Tids : Dead(t) =>
                  Dead(t)' \/ (state[t]' = "init" /\ stage[t]' = "work" /\ t # current)
  <1>1. ASSUME SafeInv, EndInv, [Next]_vars PROVE [Reborn]_vars
    <2> SUFFICES ASSUME NEW t \in Tids, Dead(t)
                 PROVE Dead(t)' \/ (state[t]' = "init" /\ stage[t]' = "work" /\ t # current)
      OBVIOUS
    <2>1. id'[t] # INVALID_THREAD
      BY <1>1, IdStep DEF Dead
    <2>2. QED
      BY <1>1, <2>1, EndedStep DEF Dead
  <1>2. SafeInv /\ EndInv /\ [Next]_vars => EndInv'
    BY EndStep
  <1>3. QED
    BY SafeInit, SafeStep, EndInit, <1>1, <1>2, PTL DEF Spec, DeadStaysDead

----------------------------------------------------------------------------
(* Permissions.                                                            *)

\* A permission nobody holds is never held again: each thread's permissions
\* come from the thread that creates, restarts or configures it.
THEOREM ExtinctionIsFinal == Spec => ExtinctPermissionsStayExtinct
  <1> DEFINE Extinct == kernel # "boot" =>
                \A p \in TPERM_ALL : (\A t \in Tids : p \notin permissions[t])
                                        => \A t \in Tids : p \notin permissions[t]'
  <1>1. ASSUME SafeInv, [Next]_vars PROVE [Extinct]_vars
    <2> SUFFICES ASSUME kernel # "boot", NEW p \in TPERM_ALL,
                        \A t \in Tids : p \notin permissions[t], NEW t \in Tids
                 PROVE  p \notin permissions'[t]
      OBVIOUS
    <2>a. kernel = "up" => current \in Tids
      BY <1>1 DEF SafeInv, TypeOK
    <2>1. CASE \E remove \in RemoveSets : AddThread(remove) \/ Restart(remove)
      BY <1>1, <2>1, <2>a
         DEF AddThread, Restart, init_thread, Syscall, AtStage, SafeInv, TypeOK
    <2>2. ASSUME NEW tid \in Tids \cup {CURRENT_THREAD}, NEW remove \in RemoveSets,
                 SetPermissions(tid, remove)
          PROVE  p \notin permissions'[t]
      BY <1>1, <2>2 DEF SetPermissions, SafeInv, TypeOK
    <2>3. CASE UNCHANGED permissions
      BY <2>3
    <2>4. QED
      BY <1>1, <2>1, <2>2, <2>3
         DEF Next, UserStep, ThreadEnd, Halted, vars, Boot, YieldAny, YieldTo, ThreadWait,
             Tick, SetTimer, ThreadWake, ThreadCancel, SetChild, SetKernelConfig, StackError,
             CleanupThread, SetFinished, YieldAsm, Unreachable, Exit
  <1>2. QED
    BY SafeInit, SafeStep, <1>1, PTL DEF Spec, ExtinctPermissionsStayExtinct

----------------------------------------------------------------------------
(* The life cycle.                                                         *)

\* The phase of a slot from its id and state, for a thread that does not have
\* the processor.
PhaseOff(i, s) ==
    CASE i = INVALID_THREAD -> "free"
      [] i # INVALID_THREAD /\ s \in {"finished", "cancelled"} -> "dead"
      [] i # INVALID_THREAD /\ s = "waiting" -> "blocked"
      [] OTHER -> "ready"

PhaseTable == [t \in Tids |-> PhaseOf(t)]

\* Before the boot there is no thread at all.
BootInv == kernel = "boot" => current = NULL /\ \A t \in Tids : id[t] = INVALID_THREAD

LifecycleInv == SafeInv /\ EndInv /\ BootInv

\* Off the processor, ready means that the scheduler can pick the thread.
LEMMA PhaseOffReady ==
    ASSUME NEW ids \in [Tids -> Tids \cup {INVALID_THREAD}],
           NEW st \in [Tids -> ThreadStates], NEW t \in Tids
    PROVE  PhaseOff(ids[t], st[t]) = "ready" <=> can_schedule_thread(ids, st, t)
  BY DEF PhaseOff, can_schedule_thread, ThreadStates

\* The phase of a thread off the processor is that of its slot.
LEMMA PhaseOfOff ==
    ASSUME NEW t \in Tids, ~(t = current /\ kernel = "up")
    PROVE  PhaseOf(t) = PhaseOff(id[t], state[t])
  BY DEF PhaseOf, PhaseOff

\* The same in the next state.
LEMMA PhaseOfOffNext ==
    ASSUME NEW t \in Tids, ~(t = current' /\ kernel' = "up")
    PROVE  PhaseOf(t)' = PhaseOff(id'[t], state'[t])
  BY DEF PhaseOf, PhaseOff

\* The current thread is running or, at the end of thread_start, dead.
LEMMA PhaseOfCurrent ==
    ASSUME SafeInv, kernel = "up"
    PROVE  /\ current \in Tids
           /\ PhaseOf(current) \in {"running", "dead"}
           /\ state[current] # "finished" => PhaseOf(current) = "running"
           /\ state[current] = "finished" => PhaseOf(current) = "dead"
  <1>1. current \in Tids
    BY DEF SafeInv, TypeOK
  <1>2. id[current] # INVALID_THREAD
    BY <1>1 DEF SafeInv, CurrentIsLive, Tids, INVALID_THREAD
  <1>3. QED
    BY <1>1, <1>2 DEF SafeInv, CurrentIsLive, PhaseOf

\* do_scheduler, called by a handler that has changed the current thread only,
\* is a switch to a ready thread, or the stop of a kernel that has none.
LEMMA SchedulerRefines ==
    ASSUME SafeInv, kernel = "up",
           NEW ids \in [Tids -> Tids \cup {INVALID_THREAD}],
           NEW st \in [Tids -> ThreadStates],
           NEW to \in Tids \cup {NULL},
           \A t \in Tids : ids[t] \in {t, INVALID_THREAD},
           \A t \in Tids \ {current} : ids[t] = id[t] /\ st[t] = state[t],
           state[current] = "finished" =>
               ids[current] # INVALID_THREAD /\ st[current] = "finished",
           to # NULL => can_schedule_thread(ids, st, to),
           do_scheduler(ids, st, to),
           id' = ids
    PROVE  Lifecycle!LifecycleNext
  <1> DEFINE left == PhaseOff(ids[current], st[current])
             after == [PhaseTable EXCEPT ![current] = left]
  <1>0. current \in Tids /\ current # NULL
    BY DEF SafeInv, TypeOK, Tids, NULL
  <1>1. \A t \in Tids : after[t] = PhaseOff(ids[t], st[t])
    BY <1>0, PhaseOfOff DEF PhaseTable
  <1>2. \A t \in Tids : after[t] = "ready" <=> can_schedule_thread(ids, st, t)
    BY <1>1, PhaseOffReady
  <1>3. left \in Lifecycle!Leaving
    <2>1. PhaseTable[current] = PhaseOf(current)
      BY <1>0 DEF PhaseTable
    <2>2. PhaseOf(current) = "dead" => left = "dead"
      BY <1>0, PhaseOfCurrent DEF PhaseOff
    <2>3. left \in {"ready", "blocked", "dead", "free"}
      BY DEF PhaseOff
    <2>4. QED
      BY <2>1, <2>2, <2>3 DEF Lifecycle!Leaving, PhaseTable
  <1>4. CASE \E n \in Tids : /\ IF to = NULL THEN choose_next_thread(ids, st, n)
                                             ELSE n = to
                             /\ SwitchTo(st, n)
    <2>1. PICK n \in Tids : can_schedule_thread(ids, st, n) /\ SwitchTo(st, n)
      BY <1>4 DEF choose_next_thread
    <2>2. after[n] = "ready"
      BY <1>2, <2>1
    <2>3. \A t \in Tids \ {n} : PhaseOf(t)' = after[t]
      <3> TAKE t \in Tids \ {n}
      <3>1. PhaseOf(t)' = PhaseOff(ids[t], state'[t])
        BY <2>1, PhaseOfOffNext DEF SwitchTo
      <3>2. PhaseOff(ids[t], state'[t]) = PhaseOff(ids[t], st[t])
        BY <2>1 DEF SwitchTo, PhaseOff
      <3>3. QED
        BY <3>1, <3>2, <1>1
    <2>4. PhaseOf(n)' = "running"
      BY <2>1 DEF SwitchTo, PhaseOf, can_schedule_thread
    <2>5. PhaseTable' = [after EXCEPT ![n] = "running"]
      <3>1. PhaseTable' = [t \in Tids |-> PhaseOf(t)']
        BY DEF PhaseTable
      <3>2. after = [t \in Tids |-> after[t]]
        BY DEF PhaseTable
      <3> HIDE DEF after
      <3>3. QED
        BY <3>1, <3>2, <2>3, <2>4
    <2>6. current' = n /\ kernel' = "up"
      BY <2>1 DEF SwitchTo
    <2>7. Lifecycle!Switch(left, n)
      BY <2>2, <2>5, <2>6 DEF Lifecycle!Switch, PhaseTable
    <2>8. QED
      BY <2>7, <1>3, <1>0 DEF Lifecycle!LifecycleNext
  <1>5. CASE /\ to = NULL
             /\ \A n \in Tids : ~can_schedule_thread(ids, st, n)
             /\ state' = st
             /\ kernel' = "exit0"
             /\ UNCHANGED current
    <2>1. \A t \in Tids : after[t] # "ready"
      BY <1>2, <1>5
    <2>2. PhaseTable' = after
      <3>1. PhaseTable' = [t \in Tids |-> PhaseOf(t)']
        BY DEF PhaseTable
      <3>2. after = [t \in Tids |-> after[t]]
        BY DEF PhaseTable
      <3>3. \A t \in Tids : PhaseOf(t)' = after[t]
        BY <1>1, <1>5, PhaseOfOffNext
      <3> HIDE DEF after
      <3>4. QED
        BY <3>1, <3>2, <3>3
    <2>3. Lifecycle!Idle(left)
      BY <2>1, <2>2, <1>5 DEF Lifecycle!Idle, PhaseTable
    <2>4. QED
      BY <2>3, <1>3, <1>0 DEF Lifecycle!LifecycleNext
  <1>6. QED
    BY <1>4, <1>5 DEF do_scheduler

\* A step that changes the phase of one other thread, seen by the contract.
LEMMA OtherRefines ==
    ASSUME SafeInv, kernel = "up", kernel' = kernel, current' = current,
           state[current] # "finished",
           NEW t \in Tids \ {current},
           \A u \in Tids \ {t} : id'[u] = id[u] /\ state'[u] = state[u],
           \/ PhaseOf(t) \in {"free", "dead"} /\ PhaseOf(t)' = "ready"
           \/ PhaseOf(t) = "blocked" /\ PhaseOf(t)' = "ready"
           \/ PhaseOf(t) # "free" /\ PhaseOf(t)' = "dead"
    PROVE  Lifecycle!LifecycleNext
  <1>1. current \in Tids /\ current # NULL /\ PhaseOf(current) = "running"
    BY PhaseOfCurrent DEF Tids, NULL
  <1>2. \A u \in Tids \ {t} : PhaseOf(u)' = PhaseOf(u)
    BY DEF PhaseOf
  <1>3. PhaseTable' = [PhaseTable EXCEPT ![t] = PhaseOf(t)']
    BY <1>2 DEF PhaseTable
  <1>4. PhaseTable[t] = PhaseOf(t) /\ PhaseTable[current] = PhaseOf(current)
    BY <1>1 DEF PhaseTable
  <1>5. Lifecycle!ActOn(t)
    BY <1>1, <1>3, <1>4
       DEF Lifecycle!ActOn, Lifecycle!Create, Lifecycle!Wake, Lifecycle!Kill, PhaseTable
  <1>6. QED
    BY <1>5 DEF Lifecycle!LifecycleNext

\* A step that leaves every phase as it is.
LEMMA StutterRefines ==
    ASSUME \A t \in Tids : PhaseOf(t)' = PhaseOf(t), current' = current,
           kernel' \in {"boot", "up"} <=> kernel \in {"boot", "up"}
    PROVE  UNCHANGED Lifecycle!lifecycleVars
  <1>1. PhaseTable' = PhaseTable
    BY DEF PhaseTable
  <1>2. QED
    BY <1>1 DEF Lifecycle!lifecycleVars, PhaseTable

----------------------------------------------------------------------------
\* Before the boot there is no thread, and no step goes back to it.
LEMMA BootInvStep == SafeInv /\ BootInv /\ [Next]_vars => BootInv'
  <1> SUFFICES ASSUME BootInv, [Next]_vars, kernel' = "boot" PROVE UNCHANGED vars
    BY DEF BootInv, vars
  <1>1. QED
    BY SchedulerKeepsDead
       DEF Next, UserStep, ThreadEnd, Halted, vars, Boot, AddThread, Restart,
           YieldAny, YieldTo, ThreadWait, Tick, SetTimer, ThreadWake, Syscall, AtStage,
           ThreadCancel, SetChild, SetPermissions, SetKernelConfig, StackError,
           CleanupThread, SetFinished, YieldAsm, Unreachable, Exit, do_scheduler, SwitchTo

\* A thread that executes anything but the end of thread_start is running.
LEMMA WorkerRuns ==
    ASSUME SafeInv, NEW s \in {"work", "cleaned"}, AtStage(s)
    PROVE  /\ current \in Tids /\ id[current] = current
           /\ state[current] \in {"init", "running", "suspended"}
           /\ PhaseOf(current) = "running"
  <1>1. kernel = "up"
    BY DEF AtStage
  <1>2. QED
    BY <1>1, PhaseOfCurrent DEF AtStage, SafeInv, CurrentIsLive

\* entry creates the first thread and switches to it.
LEMMA BootRefines ==
    ASSUME SafeInv, BootInv, Boot PROVE Lifecycle!LifecycleNext
  <1> DEFINE st == [state EXCEPT ![0] = "init"]
  <1>0. 0 \in Tids /\ 0 # INVALID_THREAD /\ current = NULL /\ kernel = "boot"
    BY MaxThreadsAssumption DEF Tids, INVALID_THREAD, Boot, BootInv
  <1>1. \A t \in Tids : id[t] = INVALID_THREAD /\ PhaseOf(t) = "free"
    BY <1>0 DEF BootInv, PhaseOf
  <1>2. id' = [id EXCEPT ![0] = 0] /\ do_scheduler(id', st, NULL)
    BY DEF Boot, init_thread
  <1>3. can_schedule_thread(id', st, 0)
    BY <1>0, <1>2 DEF can_schedule_thread, SafeInv, TypeOK
  <1>4. \A t \in Tids : can_schedule_thread(id', st, t) => t = 0
    BY <1>1, <1>2 DEF can_schedule_thread, SafeInv, TypeOK
  <1>5. SwitchTo(st, 0)
    BY <1>0, <1>2, <1>3, <1>4 DEF do_scheduler, choose_next_thread
  <1>6. /\ current' = 0 /\ kernel' = "up" /\ state'[0] = "running" /\ id'[0] = 0
        /\ \A t \in Tids \ {0} : id'[t] = INVALID_THREAD
    BY <1>0, <1>1, <1>2, <1>5 DEF SwitchTo, SafeInv, TypeOK
  <1>7. PhaseOf(0)' = "running" /\ \A t \in Tids \ {0} : PhaseOf(t)' = PhaseOf(t)
    BY <1>0, <1>1, <1>6 DEF PhaseOf
  <1>8. PhaseTable' = [PhaseTable EXCEPT ![0] = "running"]
    BY <1>0, <1>7 DEF PhaseTable
  <1>9. Lifecycle!Start(0)
    BY <1>0, <1>6, <1>8 DEF Lifecycle!Start, PhaseTable
  <1>10. QED
    BY <1>0, <1>9 DEF Lifecycle!LifecycleNext

\* k_add_named_thread_with_args creates one thread, in a free slot.
LEMMA AddThreadRefines ==
    ASSUME SafeInv, NEW remove \in RemoveSets, AddThread(remove)
    PROVE  Lifecycle!LifecycleNext
  <1>1. AtStage("work") /\ kernel = "up"
    BY DEF AddThread, Syscall, AtStage
  <1>2. current \in Tids /\ id[current] = current
        /\ state[current] \in {"init", "running", "suspended"}
    BY <1>1, WorkerRuns
  <1>3. PICK t \in Tids : /\ SlotIsFree(t)
                          /\ id' = [id EXCEPT ![t] = t]
                          /\ state' = [state EXCEPT ![t] = "init"]
    BY DEF AddThread, FirstFreeSlot, init_thread
  <1>4. t # current
    BY <1>2, <1>3 DEF SlotIsFree, INVALID_THREAD, Tids
  <1>5. PhaseOf(t) \in {"free", "dead"}
    BY <1>3 DEF PhaseOf, SlotIsFree
  <1>6. current' = current /\ kernel' = kernel
    BY DEF AddThread
  <1>7. id'[t] = t /\ state'[t] = "init" /\ t # INVALID_THREAD
    BY <1>3 DEF SafeInv, TypeOK, Tids, INVALID_THREAD
  <1>8. PhaseOf(t)' = "ready"
    BY <1>4, <1>6, <1>7 DEF PhaseOf
  <1>9. \A u \in Tids \ {t} : id'[u] = id[u] /\ state'[u] = state[u]
    BY <1>3 DEF SafeInv, TypeOK
  <1>10. QED
    BY <1>1, <1>2, <1>4, <1>5, <1>6, <1>8, <1>9, OtherRefines

\* k_thread_wake makes a waiting thread ready.
LEMMA ThreadWakeRefines ==
    ASSUME WakesOnlyWaiting, SafeInv, NEW t \in Tids, ThreadWake(t)
    PROVE  Lifecycle!LifecycleNext
  <1>1. AtStage("work") /\ kernel = "up"
    BY DEF ThreadWake, Syscall, AtStage
  <1>2. state[current] \in {"init", "running", "suspended"}
    BY <1>1, WorkerRuns
  <1>3. state[t] = "waiting" /\ id[t] # INVALID_THREAD
    BY DEF ThreadWake, is_valid_thread
  <1>4. state' = [state EXCEPT ![t] = "suspended"] /\ UNCHANGED <<id, current, kernel>>
    BY DEF ThreadWake
  <1>5. t # current /\ state'[t] = "suspended"
    BY <1>2, <1>3, <1>4 DEF SafeInv, TypeOK
  <1>6. PhaseOf(t) = "blocked" /\ PhaseOf(t)' = "ready"
    BY <1>3, <1>4, <1>5 DEF PhaseOf
  <1>7. \A u \in Tids \ {t} : id'[u] = id[u] /\ state'[u] = state[u]
    BY <1>4 DEF SafeInv, TypeOK
  <1>8. QED
    BY <1>1, <1>2, <1>4, <1>5, <1>6, <1>7, OtherRefines

\* k_thread_cancel ends a thread, and switches if it is its own.
LEMMA ThreadCancelRefines ==
    ASSUME SafeInv, NEW t \in Tids, ThreadCancel(t)
    PROVE  Lifecycle!LifecycleNext
  <1> DEFINE st == [state EXCEPT ![t] = "cancelled"]
  <1>1. AtStage("work") /\ kernel = "up" /\ id' = id /\ id[t] # INVALID_THREAD
    BY DEF ThreadCancel, Syscall, AtStage, is_valid_thread
  <1>2. state[current] \in {"init", "running", "suspended"}
    BY <1>1, WorkerRuns
  <1>3. /\ st \in [Tids -> ThreadStates] /\ st[t] = "cancelled"
        /\ \A u \in Tids \ {t} : st[u] = state[u]
    BY DEF SafeInv, TypeOK, ThreadStates
  <1>4. CASE t = current /\ do_scheduler(id, st, NULL)
    <2> HIDE DEF st
    <2>1. QED
      BY <1>1, <1>2, <1>3, <1>4, SchedulerRefines DEF SafeInv, TypeOK
  <1>5. CASE t # current /\ state' = st /\ UNCHANGED <<current, kernel>>
    <2>1. PhaseOf(t) # "free" /\ PhaseOf(t)' = "dead"
      BY <1>1, <1>3, <1>5 DEF PhaseOf
    <2> HIDE DEF st
    <2>2. QED
      BY <1>1, <1>2, <1>3, <1>5, <2>1, OtherRefines
  <1>6. QED
    BY <1>4, <1>5 DEF ThreadCancel

\* Every way to give up the processor while the thread's slot stays.
LEMMA SwitchRefines ==
    ASSUME SafeInv, \/ YieldAny \/ ThreadWait \/ Tick \/ YieldAsm
                    \/ \E t \in Tids : YieldTo(t)
    PROVE  Lifecycle!LifecycleNext
  <1> USE DEF SafeInv, TypeOK
  <1>0. kernel = "up" /\ id' = id /\ current \in Tids
    BY PhaseOfCurrent DEF YieldAny, ThreadWait, Tick, YieldAsm, YieldTo, Syscall, AtStage
  <1>1. id[current] # INVALID_THREAD
    BY <1>0 DEF CurrentIsLive, Tids, INVALID_THREAD
  <1>2. CASE do_scheduler(id, state, NULL)
    BY <1>0, <1>1, <1>2, SchedulerRefines
  <1>3. CASE \E t \in Tids : can_schedule_thread(id, state, t) /\ do_scheduler(id, state, t)
    BY <1>0, <1>1, <1>3, SchedulerRefines
  <1>4. CASE ThreadWait
    <2> DEFINE st == [state EXCEPT ![current] = "waiting"]
    <2>1. state[current] # "finished"
      BY <1>4, WorkerRuns DEF ThreadWait, Syscall
    <2>2. st \in [Tids -> ThreadStates] /\ \A t \in Tids \ {current} : st[t] = state[t]
      BY DEF ThreadStates
    <2>3. do_scheduler(id, st, NULL)
      BY <1>4 DEF ThreadWait
    <2> HIDE DEF st
    <2>4. QED
      BY <1>0, <2>1, <2>2, <2>3, SchedulerRefines
  <1>5. QED
    BY <1>2, <1>3, <1>4 DEF YieldAny, Tick, YieldAsm, YieldTo

\* A stack error that destroys its thread is a switch; one that does not is
\* the end of the kernel.
LEMMA StackErrorRefines ==
    ASSUME SafeInv, StackError PROVE Lifecycle!LifecycleNext
  <1>1. AtStage("work") /\ kernel = "up"
    BY DEF StackError, Syscall, AtStage
  <1>2. /\ current \in Tids /\ current # NULL
        /\ state[current] \in {"init", "running", "suspended"}
        /\ PhaseOf(current) = "running"
    BY <1>1, WorkerRuns DEF Tids, NULL
  <1>3. /\ id' = [id EXCEPT ![current] = INVALID_THREAD]
        /\ id' \in [Tids -> Tids \cup {INVALID_THREAD}]
        /\ \A t \in Tids : id'[t] \in {t, INVALID_THREAD}
        /\ \A t \in Tids \ {current} : id'[t] = id[t]
        /\ id'[current] = INVALID_THREAD
    BY <1>2 DEF StackError, SafeInv, TypeOK
  <1>4. CASE do_scheduler(id', state, NULL)
    BY <1>1, <1>2, <1>3, <1>4, SchedulerRefines DEF SafeInv, TypeOK
  <1>5. CASE kernel' = "exit1" /\ UNCHANGED <<state, current>>
    <2>1. PhaseOf(current)' = "free"
      BY <1>3, <1>5 DEF PhaseOf
    <2>2. \A t \in Tids \ {current} : PhaseOf(t)' = PhaseOf(t)
      BY <1>3, <1>5 DEF PhaseOf
    <2>3. PhaseTable' = [PhaseTable EXCEPT ![current] = "free"]
      BY <1>5, <2>1, <2>2 DEF PhaseTable
    <2>4. PhaseTable[current] = "running"
      BY <1>2 DEF PhaseTable
    <2>5. Lifecycle!Stop
      BY <1>5, <2>3, <2>4 DEF Lifecycle!Stop, PhaseTable
    <2>6. QED
      BY <1>1, <1>2, <2>5 DEF Lifecycle!LifecycleNext
  <1>6. QED
    BY <1>4, <1>5 DEF StackError

\* k_exit ends everything.
LEMMA ExitRefines ==
    ASSUME SafeInv, NEW status \in {"exit0", "exit1"}, Exit(status)
    PROVE  Lifecycle!LifecycleNext
  <1>1. AtStage("work") /\ kernel = "up"
    BY DEF Exit, Syscall, AtStage
  <1>2. /\ current \in Tids /\ current # NULL /\ current # INVALID_THREAD
        /\ id[current] = current
        /\ state[current] \in {"init", "running", "suspended"}
        /\ PhaseOf(current) = "running"
    BY <1>1, WorkerRuns DEF Tids, NULL, INVALID_THREAD
  <1>3. UNCHANGED <<id, state, current>> /\ kernel' \notin {"boot", "up"}
    BY DEF Exit
  <1>4. PhaseOf(current)' = "ready"
    BY <1>2, <1>3 DEF PhaseOf
  <1>5. \A t \in Tids \ {current} : PhaseOf(t)' = PhaseOf(t)
    BY <1>3 DEF PhaseOf
  <1>6. PhaseTable' = [PhaseTable EXCEPT ![current] = "ready"]
    BY <1>3, <1>4, <1>5 DEF PhaseTable
  <1>7. PhaseTable[current] = "running"
    BY <1>2 DEF PhaseTable
  <1>8. Lifecycle!Stop
    BY <1>3, <1>6, <1>7 DEF Lifecycle!Stop, PhaseTable
  <1>9. QED
    BY <1>1, <1>2, <1>8 DEF Lifecycle!LifecycleNext

\* thread_start ends the thread once its worker has returned.
LEMMA SetFinishedRefines ==
    ASSUME SafeInv, SetFinished PROVE Lifecycle!LifecycleNext
  <1>1. AtStage("cleaned") /\ kernel = "up"
    BY DEF SetFinished, AtStage
  <1>2. /\ current \in Tids /\ current # NULL /\ current # INVALID_THREAD
        /\ id[current] = current
        /\ PhaseOf(current) = "running"
    BY <1>1, WorkerRuns DEF Tids, NULL, INVALID_THREAD
  <1>3. /\ UNCHANGED <<id, current, kernel>>
        /\ state' = [state EXCEPT ![current] = "finished"]
    BY DEF SetFinished
  <1>4. state'[current] = "finished" /\ \A t \in Tids \ {current} : state'[t] = state[t]
    BY <1>2, <1>3 DEF SafeInv, TypeOK
  <1>5. PhaseOf(current)' = "dead" /\ \A t \in Tids \ {current} : PhaseOf(t)' = PhaseOf(t)
    BY <1>2, <1>3, <1>4 DEF PhaseOf
  <1>6. PhaseTable' = [PhaseTable EXCEPT ![current] = "dead"]
    BY <1>3, <1>5 DEF PhaseTable
  <1>7. PhaseTable[current] = "running"
    BY <1>2 DEF PhaseTable
  <1>8. Lifecycle!Finish
    BY <1>2, <1>3, <1>6, <1>7 DEF Lifecycle!Finish, PhaseTable
  <1>9. QED
    BY <1>1, <1>8 DEF Lifecycle!LifecycleNext

\* k_restart replaces the thread in its slot.
LEMMA RestartRefines ==
    ASSUME SafeInv, NEW remove \in RemoveSets, Restart(remove)
    PROVE  UNCHANGED Lifecycle!lifecycleVars
  <1>1. AtStage("work")
    BY DEF Restart, Syscall
  <1>2. /\ current \in Tids /\ id[current] = current
        /\ state[current] \in {"init", "running", "suspended"}
    BY <1>1, WorkerRuns
  <1>3. /\ id' = id /\ current' = current /\ kernel' = kernel
        /\ state' = [state EXCEPT ![current] = "init"]
    BY <1>2 DEF Restart, init_thread, SafeInv, TypeOK
  <1>4. state'[current] = "init" /\ \A t \in Tids \ {current} : state'[t] = state[t]
    BY <1>2, <1>3 DEF SafeInv, TypeOK
  <1>5. \A t \in Tids : PhaseOf(t)' = PhaseOf(t)
    BY <1>2, <1>3, <1>4 DEF PhaseOf
  <1>6. QED
    BY <1>3, <1>5, StutterRefines

\* Every step of the table walk is a step of the life cycle, or none.
LEMMA StepRefines ==
    ASSUME WakesOnlyWaiting, LifecycleInv, [Next]_vars
    PROVE  [Lifecycle!LifecycleNext]_Lifecycle!lifecycleVars
  <1> USE DEF LifecycleInv
  <1>1. CASE Boot
    BY <1>1, BootRefines
  <1>2. CASE \E remove \in RemoveSets : AddThread(remove) \/ Restart(remove)
    BY <1>2, AddThreadRefines, RestartRefines
  <1>3. CASE YieldAny \/ ThreadWait \/ Tick \/ YieldAsm \/ \E t \in Tids : YieldTo(t)
    BY <1>3, SwitchRefines
  <1>4. CASE \E t \in Tids : ThreadWake(t) \/ ThreadCancel(t)
    BY <1>4, ThreadWakeRefines, ThreadCancelRefines
  <1>5. CASE StackError
    BY <1>5, StackErrorRefines
  <1>6. CASE SetFinished
    BY <1>6, SetFinishedRefines
  <1>7. CASE \E status \in {"exit0", "exit1"} : Exit(status)
    BY <1>7, ExitRefines
  <1>8. CASE Unreachable
    BY <1>8, SchedulerKeepsDead
       DEF Unreachable, AtStage, SafeInv, CurrentIsLive, EndInv, EndedIsDead, TypeOK
  <1>9. CASE UNCHANGED <<id, state, current, kernel>>
    BY <1>9, StutterRefines DEF PhaseOf
  <1>10. QED
    BY <1>1, <1>2, <1>3, <1>4, <1>5, <1>6, <1>7, <1>8, <1>9
       DEF Next, UserStep, ThreadEnd, Halted, vars, SetTimer, SetChild, SetPermissions,
           SetKernelConfig, CleanupThread

\* Before the boot both have no threads.
LEMMA LifecycleInitLemma == Init => Lifecycle!LifecycleInit /\ BootInv
  <1> SUFFICES ASSUME Init PROVE Lifecycle!LifecycleInit /\ BootInv
    OBVIOUS
  <1>1. \A t \in Tids : PhaseOf(t) = "free"
    BY DEF Init, PhaseOf
  <1>2. QED
    BY <1>1 DEF Init, BootInv, Lifecycle!LifecycleInit

\* What threads can rely on, whatever the number of threads and the programs:
\* every behaviour of the table walk is one of the life cycle contract, if
\* programs wake only threads that wait.
THEOREM LifecycleRefinement == ASSUME WakesOnlyWaiting PROVE Spec => ImplementsLifecycle
  <1>1. Init => LifecycleInv /\ Lifecycle!LifecycleInit
    BY SafeInit, EndInit, LifecycleInitLemma DEF LifecycleInv
  <1>2. LifecycleInv /\ [Next]_vars => LifecycleInv'
    BY SafeStep, EndStep, BootInvStep DEF LifecycleInv
  <1>3. LifecycleInv /\ [Next]_vars => [Lifecycle!LifecycleNext]_Lifecycle!lifecycleVars
    BY StepRefines
  <1>4. QED
    BY <1>1, <1>2, <1>3, PTL DEF Spec, ImplementsLifecycle, Lifecycle!LifecycleSpec

----------------------------------------------------------------------------
(* Slots: what the steps of the threads take and free.                     *)

\* The scheduler frees no slot and takes none.
LEMMA SchedulerKeepsSlots ==
    ASSUME NEW st, NEW to \in Tids \cup {NULL}, to # NULL => can_schedule_thread(id, st, to),
           do_scheduler(id, st, to), id' = id, NEW t \in Tids
    PROVE  SlotIsFree(t)' <=> id[t] = INVALID_THREAD \/ st[t] \in {"cancelled", "finished"}
  BY DEF do_scheduler, SwitchTo, choose_next_thread, can_schedule_thread, SlotIsFree

\* The worker of a live thread runs.
LEMMA WorkerIsLive ==
    ASSUME SafeInv, kernel = "up"
    PROVE  /\ current \in Tids /\ current # NULL
           /\ stage[current] = "work" => ~SlotIsFree(current)
  BY DEF SafeInv, TypeOK, CurrentIsLive, SlotIsFree, Tids, NULL, INVALID_THREAD

\* A switch from one thread to another frees no slot and takes none.
LEMMA SwitchingKeepsSlots ==
    ASSUME SafeInv, YieldAny \/ ThreadWait \/ Tick \/ YieldAsm, NEW t \in Tids
    PROVE  /\ SlotIsFree(t)' <=> SlotIsFree(t)
           /\ stage'[t] = stage[t] \/ (stage[t] = "finished" /\ stage'[t] = "returned")
  <1>0. DOMAIN state = Tids /\ DOMAIN stage = Tids
    BY DEF SafeInv, TypeOK
  <1>1. CASE YieldAny \/ Tick
    BY <1>1, SchedulerKeepsSlots DEF YieldAny, Tick, SlotIsFree
  <1>2. CASE YieldAsm
    <2>1. /\ kernel = "up" /\ stage[current] = "finished"
          /\ stage' = [stage EXCEPT ![current] = "returned"]
      BY <1>2 DEF YieldAsm, AtStage
    <2>2. stage'[t] = stage[t] \/ (stage[t] = "finished" /\ stage'[t] = "returned")
      BY <1>0, <2>1, WorkerIsLive
    <2> QED
      BY <1>2, <2>2, SchedulerKeepsSlots DEF YieldAsm, SlotIsFree
  <1>3. CASE ThreadWait
    <2>1. PICK st : st = [state EXCEPT ![current] = "waiting"] /\ do_scheduler(id, st, NULL)
      BY <1>3 DEF ThreadWait
    <2>2. ~SlotIsFree(current) /\ current \in Tids /\ id' = id /\ stage' = stage
      BY <1>3, WorkerIsLive DEF ThreadWait, Syscall, AtStage
    <2>3. SlotIsFree(t) <=> id[t] = INVALID_THREAD \/ st[t] \in {"cancelled", "finished"}
      BY <1>0, <2>1, <2>2 DEF SlotIsFree
    <2> QED
      BY <2>1, <2>2, <2>3, SchedulerKeepsSlots
  <1> QED
    BY <1>1, <1>2, <1>3

\* What starts a thread takes one free slot.
LEMMA NewThreadTakesSlot ==
    ASSUME SafeInv, NEW t \in Tids, FirstFreeSlot(t), AddThread({})
    PROVE  /\ kernel = "up" /\ current \in Tids /\ t # current
           /\ current' = current /\ kernel' = kernel
           /\ ~SlotIsFree(t)' /\ stage'[t] = "work"
           /\ \A u \in Tids : u # t => (SlotIsFree(u)' <=> SlotIsFree(u)) /\ stage'[u] = stage[u]
           /\ timer' = timer
  <1>1. PICK u \in Tids : /\ FirstFreeSlot(u)
                          /\ init_thread(u, INVALID_THREAD, permissions[current] \ {})
                          /\ state' = [state EXCEPT ![u] = "init"]
    BY DEF AddThread
  <1>2. u = t
    BY <1>1 DEF FirstFreeSlot, Tids
  <1>3. /\ id' = [id EXCEPT ![t] = t] /\ stage' = [stage EXCEPT ![t] = "work"]
        /\ state' = [state EXCEPT ![t] = "init"] /\ kernel = "up" /\ stage[current] = "work"
        /\ current' = current /\ kernel' = kernel /\ timer' = timer
    BY <1>1, <1>2 DEF init_thread, AddThread, Syscall, AtStage, config
  <1>4. DOMAIN id = Tids /\ DOMAIN stage = Tids /\ DOMAIN state = Tids
    BY DEF SafeInv, TypeOK
  <1>5. t # current /\ current \in Tids
    BY <1>3, WorkerIsLive DEF FirstFreeSlot
  <1>6. t # INVALID_THREAD
    BY DEF Tids, INVALID_THREAD
  <1> QED
    BY <1>3, <1>4, <1>5, <1>6 DEF SlotIsFree

\* The thread that restarts keeps its slot, and no other thread changes.
LEMMA RestartKeepsSlots ==
    ASSUME SafeInv, NEW remove, Restart(remove), NEW u \in Tids
    PROVE  /\ kernel = "up" /\ current \in Tids /\ stage[current] = "work"
           /\ current' = current /\ kernel' = kernel
           /\ SlotIsFree(u)' <=> SlotIsFree(u)
           /\ stage'[u] = stage[u]
  <1>1. /\ kernel = "up" /\ stage[current] = "work"
        /\ id' = [id EXCEPT ![current] = current] /\ state' = [state EXCEPT ![current] = "init"]
        /\ stage' = [stage EXCEPT ![current] = "work"]
        /\ current' = current /\ kernel' = kernel
    BY DEF Restart, init_thread, Syscall, AtStage
  <1>2. current \in Tids /\ ~SlotIsFree(current)
    BY <1>1, WorkerIsLive
  <1>3. DOMAIN id = Tids /\ DOMAIN state = Tids /\ DOMAIN stage = Tids
    BY DEF SafeInv, TypeOK
  <1>4. current # INVALID_THREAD
    BY <1>2 DEF Tids, INVALID_THREAD
  <1>5. CASE u = current
    BY <1>1, <1>2, <1>3, <1>4, <1>5 DEF SlotIsFree
  <1>6. CASE u # current
    BY <1>1, <1>2, <1>3, <1>6 DEF SlotIsFree
  <1> QED
    BY <1>5, <1>6

\* A thread that is cancelled frees its slot, and no other changes hands.
LEMMA CancelKeepsSlots ==
    ASSUME SafeInv, NEW t \in Tids, ThreadCancel(t), NEW u \in Tids
    PROVE  /\ u # t => (SlotIsFree(u)' <=> SlotIsFree(u))
           /\ SlotIsFree(t)'
           /\ stage'[u] = stage[u]
  <1>1. PICK st : /\ st = [state EXCEPT ![t] = "cancelled"]
                  /\ \/ t = current /\ do_scheduler(id, st, NULL)
                     \/ t # current /\ state' = st
    BY DEF ThreadCancel
  <1>2. id' = id /\ stage' = stage /\ DOMAIN state = Tids
    BY DEF ThreadCancel, SafeInv, TypeOK
  <1>3. ASSUME NEW v \in Tids
        PROVE  SlotIsFree(v)' <=> id[v] = INVALID_THREAD \/ st[v] \in {"cancelled", "finished"}
    BY <1>1, <1>2, SchedulerKeepsSlots DEF SlotIsFree
  <1>4. SlotIsFree(t)'
    BY <1>1, <1>2, <1>3
  <1>5. CASE u # t
    BY <1>1, <1>2, <1>3, <1>5 DEF SlotIsFree
  <1> QED
    BY <1>2, <1>4, <1>5

\* What the rest of the calls do frees only the slot of a thread that has cleaned up.
LEMMA StayingKeepsSlots ==
    ASSUME SafeInv, NEW u \in Tids,
           \/ \E t \in Tids : ThreadWake(t)
           \/ \E armed \in BOOLEAN : SetTimer(armed)
           \/ \E destroy \in BOOLEAN : SetKernelConfig(destroy)
           \/ SetFinished \/ UNCHANGED vars
    PROVE  /\ SlotIsFree(u)' => SlotIsFree(u) \/ stage[u] # "work"
           /\ stage'[u] = stage[u] \/ (stage[u] # "work" /\ stage'[u] # "work")
           /\ WakesOnlyWaiting /\ SlotIsFree(u) => SlotIsFree(u)'
           /\ current' = current /\ kernel' = kernel
           /\ "timer" \notin Calls => timer' = timer
  <1>1. DOMAIN state = Tids /\ DOMAIN stage = Tids /\ DOMAIN id = Tids
    BY DEF SafeInv, TypeOK
  <1>2. CASE \E t \in Tids : ThreadWake(t)
    BY <1>1, <1>2 DEF ThreadWake, SlotIsFree, config
  <1>3. CASE \E armed \in BOOLEAN : SetTimer(armed)
    BY <1>3 DEF SetTimer, Syscall, SlotIsFree
  <1>4. CASE (\E destroy \in BOOLEAN : SetKernelConfig(destroy)) \/ UNCHANGED vars
    BY <1>4 DEF SetKernelConfig, vars, SlotIsFree
  <1>5. CASE SetFinished
    <2>1. /\ kernel = "up" /\ stage[current] = "cleaned"
          /\ state' = [state EXCEPT ![current] = "finished"]
          /\ stage' = [stage EXCEPT ![current] = "finished"]
          /\ id' = id /\ current' = current /\ kernel' = kernel /\ timer' = timer
      BY <1>5 DEF SetFinished, AtStage, config
    <2>2. CASE u = current
      BY <1>1, <2>1, <2>2 DEF SlotIsFree
    <2>3. CASE u # current
      BY <1>1, <2>1, <2>3 DEF SlotIsFree
    <2> QED
      BY <2>2, <2>3
  <1> QED
    BY <1>2, <1>3, <1>4, <1>5
=============================================================================
