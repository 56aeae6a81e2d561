--------------------------- MODULE ContextsProofs ---------------------------
(***************************************************************************)
(* What is on the stacks of the threads while they do not run, for any     *)
(* number of them.  Signals: handlers that have returned are taken off     *)
(* before the processor comes back to them, and the lowest pending signal  *)
(* is taken first.  Registers: a thread finds in its registers what it     *)
(* left in them, and its context is laid out as C says it is.              *)
(***************************************************************************)
EXTENDS Signals, ThreadJoin, ThreadsProofs, SequenceTheorems, WellFoundedInduction

----------------------------------------------------------------------------
(* Signals: what is on a stack.                                            *)

\* The worker is at the bottom of a stack and nowhere else, and only the context
\* on top can be that of a handler that has returned.
IsStack(s) ==
    /\ s \in Seq(Signal \cup {Worker, WrapperEnd})
    /\ Len(s) >= 1
    /\ s[1] = Worker
    /\ \A i \in 2 .. Len(s) : s[i] # Worker
    /\ \A i \in 1 .. Len(s) - 1 : s[i] # WrapperEnd

SignalInv ==
    /\ SafeInv
    /\ pending_signals \in [Tids -> SUBSET Signal]
    /\ DOMAIN contexts = Tids
    /\ \A t \in Tids : IsStack(contexts[t])
    /\ kernel = "boot" => \A t \in Tids : contexts[t] = <<Worker>>
    /\ NeverPastTheWrapper

----------------------------------------------------------------------------
(* Stacks.                                                                 *)

\* Neither mark is a signal.
LEMMA Marks == Worker \notin Signal /\ WrapperEnd \notin Signal /\ Worker # WrapperEnd
  BY SignalAssumption DEF Worker, WrapperEnd

\* The stack of a new thread is one.
LEMMA NewStack == IsStack(<<Worker>>)
  BY Marks DEF IsStack

\* Taking the top off.
LEMMA TopOff ==
    ASSUME NEW s, IsStack(s), Len(s) > 1
    PROVE  IsStack(WithoutTop(s)) /\ WithoutTop(s)[Len(WithoutTop(s))] # WrapperEnd
  <1>1. /\ WithoutTop(s) \in Seq(Signal \cup {Worker, WrapperEnd})
        /\ Len(WithoutTop(s)) = Len(s) - 1
        /\ \A i \in 1 .. Len(s) - 1 : WithoutTop(s)[i] = s[i]
    BY DEF WithoutTop, IsStack
  <1> QED
    BY <1>1 DEF IsStack

\* Putting a signal, or the end of the wrapper, on top of something that runs.
LEMMA PutOn ==
    ASSUME NEW s, IsStack(s), s[Len(s)] # WrapperEnd, NEW x \in Signal \cup {WrapperEnd}
    PROVE  IsStack(Append(s, x)) /\ Append(s, x)[Len(Append(s, x))] = x
  <1>1. /\ Append(s, x) \in Seq(Signal \cup {Worker, WrapperEnd})
        /\ Len(Append(s, x)) = Len(s) + 1
        /\ \A i \in 1 .. Len(s) : Append(s, x)[i] = s[i]
        /\ Append(s, x)[Len(s) + 1] = x
    BY DEF IsStack
  <1>2. x # Worker
    BY Marks
  <1> QED
    BY <1>1, <1>2 DEF IsStack

\* The scheduler never resumes the end of a wrapper.
LEMMA ResumedRuns ==
    ASSUME NEW s, IsStack(s)
    PROVE  IsStack(Resumed(s)) /\ Resumed(s)[Len(Resumed(s))] # WrapperEnd
  <1>1. CASE s[Len(s)] = WrapperEnd
    <2>1. Len(s) > 1
      BY <1>1, Marks DEF IsStack
    <2> QED
      BY <1>1, <2>1, TopOff DEF Resumed
  <1>2. CASE s[Len(s)] # WrapperEnd
    BY <1>2 DEF Resumed
  <1> QED
    BY <1>1, <1>2

\* There is a lowest pending signal.
LEMMA LowestIsPending ==
    ASSUME NEW S \in SUBSET Signal, S # {}
    PROVE  Min(S) \in S /\ \A y \in S : Min(S) <= y
  <1> DEFINE Less == {pair \in Nat \X Nat : pair[1] < pair[2]}
  <1>1. IsWellFoundedOn(Less, Nat)
    BY NatLessThanWellFounded DEF OpToRel
  <1>2. S \subseteq Nat
    BY SignalAssumption
  <1>3. \A a, b \in Nat : <<a, b>> \in Less <=> a < b
    OBVIOUS
  <1> HIDE DEF Less
  <1>4. PICK x \in S : \A y \in S : <<y, x>> \notin Less
    BY <1>1, <1>2, WFMin
  <1>5. ASSUME NEW y \in S
        PROVE  x <= y
    <2>1. x \in Nat /\ y \in Nat
      BY <1>2
    <2>2. ~(y < x)
      BY <1>3, <1>4, <2>1
    <2> QED
      BY <2>1, <2>2
  <1> QED
    BY <1>5 DEF Min

\* What a step that runs the scheduler does to the stacks, which it finds as
\* saved: the thread it goes to has one that can run.
LEMMA ScheduledKeeps ==
    ASSUME SignalInv, NEW saved, DOMAIN saved = Tids, \A t \in Tids : IsStack(saved[t]),
           kernel' # "boot", kernel' = "up" => current' \in Tids /\ state'[current'] = "running",
           \A t \in Tids : state'[t] = "finished" =>
               saved[t] = <<Worker>> /\ contexts[t] = <<Worker>>,
           Scheduled(saved)
    PROVE  /\ pending_signals' \in [Tids -> SUBSET Signal]
           /\ DOMAIN contexts' = Tids
           /\ \A t \in Tids : IsStack(contexts'[t])
           /\ NeverPastTheWrapper'
  <1>1. CASE kernel' # "up"
    <2>1. UNCHANGED signals
      BY <1>1 DEF Scheduled
    <2> QED
      BY <1>1, <2>1 DEF signals, SignalInv, NeverPastTheWrapper
  <1>2. CASE kernel' = "up"
    <2>1. PICK n \in Tids : n = current' /\ state'[n] = "running" /\ check_signals(saved, n)
      BY <1>2 DEF Scheduled
    <2>2. pending_signals' \in [Tids -> SUBSET Signal]
      BY <2>1 DEF check_signals, SignalInv
    <2>3. /\ DOMAIN contexts' = Tids
          /\ \A t \in Tids \ {n} : contexts'[t] = saved[t]
          /\ contexts'[n] = IF Handles(n) THEN Append(Resumed(saved[n]), next_signal(n))
                                          ELSE Resumed(saved[n])
      BY <2>1 DEF check_signals
    <2>4. Handles(n) => next_signal(n) \in Signal
      BY LowestIsPending DEF Handles, next_signal, SignalInv
    <2>5. IsStack(contexts'[n]) /\ contexts'[n][Len(contexts'[n])] # WrapperEnd
      BY <2>3, <2>4, ResumedRuns, PutOn, Marks
    <2>6. \A t \in Tids : IsStack(contexts'[t])
      BY <2>3, <2>5
    <2>7. NeverPastTheWrapper'
      BY <2>1, <2>3, <2>5 DEF NeverPastTheWrapper, Running
    <2> QED
      BY <2>2, <2>3, <2>6, <2>7
  <1> QED
    BY <1>1, <1>2

----------------------------------------------------------------------------
(* The steps.                                                              *)

\* Every step is one of Threads, or ends in its scheduler as a yield does.
LEMMA StaysSafe ==
    ASSUME NoneRemoved, SafeInv, SignalNext
    PROVE  SafeInv'
  <1>1. CASE HandlerReturn
    <2>1. NULL \notin Tids
      BY DEF Tids, NULL
    <2> QED
      BY <1>1, <2>1, ScheduledIsSafe
         DEF HandlerReturn, SafeInv, TypeOK, OnlyCurrentRuns, family, config
  <1>2. CASE GiveUp
    BY <1>2, SafeStep DEF GiveUp, Next, UserStep, ThreadEnd
  <1>3. ASSUME NEW t \in Tids, Start(t)
        PROVE  SafeInv'
    BY <1>3, SafeStep DEF NoneRemoved, Start, Next, UserStep
  <1>4. ASSUME NEW t \in Tids, Cancel(t)
        PROVE  SafeInv'
    BY <1>4, SafeStep DEF Cancel, Next, UserStep
  <1>5. CASE UNCHANGED vars
    BY <1>5, SafeStep
  <1>6. CASE CleanupThread \/ SetFinished
    BY <1>6, SafeStep DEF Next, ThreadEnd
  <1>7. CASE \E armed \in BOOLEAN : SetTimer(armed)
    BY <1>7, SafeStep DEF Next, UserStep
  <1>8. CASE \E t \in Tids : ThreadWake(t)
    BY <1>8, SafeStep DEF Next, UserStep
  <1> QED
    BY <1>1, <1>2, <1>3, <1>4, <1>5, <1>6, <1>7, <1>8
       DEF SignalNext, ThreadSignal, SetSignalHandler, Halted

\* What a call of the scheduler leaves: a thread that runs, and every other one
\* finished only if it was.
LEMMA SchedulerLeaves ==
    ASSUME NEW ids, NEW st, DOMAIN st = Tids, NEW to \in Tids \cup {NULL},
           do_scheduler(ids, st, to)
    PROVE  /\ kernel' # "boot"
           /\ kernel' = "up" => current' \in Tids /\ state'[current'] = "running"
           /\ \A t \in Tids : state'[t] = "finished" => st[t] = "finished"
  BY DEF do_scheduler, SwitchTo

\* A finished thread has an empty stack but for its worker, and keeps it.
LEMMA SchedulingStep ==
    ASSUME SignalInv, kernel = "up", NEW st, NEW to \in Tids \cup {NULL}, DOMAIN st = Tids,
           do_scheduler(id, st, to),
           \A t \in Tids : st[t] = "finished" => state[t] = "finished",
           Scheduled(contexts)
    PROVE  /\ pending_signals' \in [Tids -> SUBSET Signal]
           /\ DOMAIN contexts' = Tids
           /\ \A t \in Tids : IsStack(contexts'[t])
           /\ NeverPastTheWrapper'
           /\ kernel' # "boot"
  <1>1. /\ kernel' # "boot"
        /\ kernel' = "up" => current' \in Tids /\ state'[current'] = "running"
        /\ \A t \in Tids : state'[t] = "finished" => st[t] = "finished"
    BY SchedulerLeaves
  <1>2. \A t \in Tids : state'[t] = "finished" => contexts[t] = <<Worker>>
    BY <1>1 DEF SignalInv, NeverPastTheWrapper
  <1> QED
    BY <1>1, <1>2, ScheduledKeeps DEF SignalInv

\* The wrapper of a handler that returns gives way to its end, and the scheduler
\* takes that off before the processor comes back.
LEMMA HandlerReturnKeeps ==
    ASSUME NoneRemoved, SignalInv, HandlerReturn
    PROVE  SignalInv'
  <1> DEFINE saved == [contexts EXCEPT ![current] = Append(WithoutTop(@), WrapperEnd)]
  <1>1. SafeInv'
    BY StaysSafe DEF SignalInv, SignalNext
  <1>2. current \in Tids /\ kernel = "up" /\ Running(current) \in Signal
    BY DEF HandlerReturn, SignalInv, SafeInv, TypeOK, Tids, NULL
  <1>3. do_scheduler(id, state, NULL) /\ Scheduled(saved)
    BY DEF HandlerReturn
  <1>4. /\ kernel' # "boot"
        /\ kernel' = "up" => current' \in Tids /\ state'[current'] = "running"
        /\ \A t \in Tids : state'[t] = "finished" => state[t] = "finished"
    BY <1>3, SchedulerLeaves DEF SignalInv, SafeInv, TypeOK
  <1>5. Len(contexts[current]) > 1 /\ contexts[current] # <<Worker>>
    BY <1>2, Marks DEF Running, IsStack, SignalInv
  <1>6. IsStack(saved[current])
    BY <1>2, <1>5, TopOff, PutOn DEF SignalInv
  <1>7. DOMAIN saved = Tids /\ \A t \in Tids \ {current} : saved[t] = contexts[t]
    BY DEF SignalInv
  <1>8. \A t \in Tids : state'[t] = "finished" => saved[t] = <<Worker>> /\ contexts[t] = <<Worker>>
    BY <1>2, <1>4, <1>5, <1>7 DEF SignalInv, NeverPastTheWrapper
  <1>9. \A t \in Tids : IsStack(saved[t])
    BY <1>6, <1>7 DEF SignalInv
  <1> HIDE DEF saved
  <1>10. /\ pending_signals' \in [Tids -> SUBSET Signal]
         /\ DOMAIN contexts' = Tids
         /\ \A t \in Tids : IsStack(contexts'[t])
         /\ NeverPastTheWrapper'
    BY <1>3, <1>4, <1>7, <1>8, <1>9, ScheduledKeeps
  <1> QED
    BY <1>1, <1>4, <1>10 DEF SignalInv

\* The other steps that end in the scheduler.
LEMMA SwitchKeeps ==
    ASSUME NoneRemoved, SignalInv, NEW t \in Tids,
           GiveUp \/ (t = current /\ Cancel(t))
    PROVE  SignalInv'
  <1>1. SafeInv'
    BY StaysSafe DEF SignalInv, SignalNext
  <1>2. kernel = "up" /\ Scheduled(contexts)
    BY DEF GiveUp, Cancel, ThreadCancel, Syscall, AtStage
  <1>3. /\ DOMAIN state = Tids /\ current \in Tids /\ NULL \notin Tids
        /\ state \in [Tids -> ThreadStates]
    BY <1>2 DEF SignalInv, SafeInv, TypeOK, Tids, NULL
  <1>4. \E st, to : /\ to \in Tids \cup {NULL} /\ DOMAIN st = Tids /\ do_scheduler(id, st, to)
                    /\ \A u \in Tids : st[u] = "finished" => state[u] = "finished"
    <2>1. CASE YieldAny \/ Tick \/ YieldAsm
      BY <1>3, <2>1 DEF YieldAny, Tick, YieldAsm
    <2>2. CASE \E u \in Tids : YieldTo(u)
      BY <1>3, <2>2 DEF YieldTo
    <2>3. CASE ThreadWait
      <3> DEFINE st == [state EXCEPT ![current] = "waiting"]
      <3>1. /\ DOMAIN st = Tids /\ do_scheduler(id, st, NULL)
            /\ \A u \in Tids : st[u] = "finished" => state[u] = "finished"
        BY <1>3, <2>3 DEF ThreadWait
      <3> HIDE DEF st
      <3> QED
        BY <3>1
    <2>4. CASE t = current /\ Cancel(t)
      <3> DEFINE st == [state EXCEPT ![t] = "cancelled"]
      <3>1. /\ DOMAIN st = Tids /\ do_scheduler(id, st, NULL)
            /\ \A u \in Tids : st[u] = "finished" => state[u] = "finished"
        BY <1>3, <2>4 DEF Cancel, ThreadCancel
      <3> HIDE DEF st
      <3> QED
        BY <3>1
    <2> QED
      BY <2>1, <2>2, <2>3, <2>4 DEF GiveUp
  <1> QED
    BY <1>1, <1>2, <1>4, SchedulingStep DEF SignalInv

\* A new thread or a restarted one has an empty stack.
LEMMA StartKeeps ==
    ASSUME NoneRemoved, SignalInv, NEW t \in Tids, Start(t)
    PROVE  SignalInv'
  <1>1. SafeInv'
    BY StaysSafe DEF SignalInv, SignalNext
  <1>2. /\ pending_signals' \in [Tids -> SUBSET Signal]
        /\ DOMAIN contexts' = Tids
        /\ contexts'[t] = <<Worker>> /\ \A u \in Tids \ {t} : contexts'[u] = contexts[u]
    BY DEF Start, StartSignals, SignalInv
  <1>3. \A u \in Tids : IsStack(contexts'[u])
    BY <1>2, NewStack DEF SignalInv
  <1>4. CASE Boot
    <2>1. kernel' # "boot" /\ \A u \in Tids : contexts'[u] = <<Worker>>
      BY <1>2, <1>4, SchedulerLeaves DEF Boot, SignalInv, SafeInv, TypeOK
    <2>2. kernel' = "up" => current' \in Tids
      BY <1>1 DEF SafeInv, TypeOK, Tids, NULL
    <2>3. <<Worker>>[Len(<<Worker>>)] # WrapperEnd
      BY Marks
    <2> QED
      BY <1>1, <1>2, <1>3, <2>1, <2>2, <2>3 DEF SignalInv, NeverPastTheWrapper, Running
  <1>5. CASE /\ UNCHANGED <<current, kernel>>
             /\ kernel = "up"
             /\ \A u \in Tids : state'[u] = "finished" => u # t /\ state[u] = "finished"
    <2>1. current \in Tids
      BY <1>5 DEF SignalInv, SafeInv, TypeOK, Tids, NULL
    <2>2. <<Worker>>[Len(<<Worker>>)] # WrapperEnd
      BY Marks
    <2> QED
      BY <1>1, <1>2, <1>3, <1>5, <2>1, <2>2 DEF SignalInv, NeverPastTheWrapper, Running
  <1>6. state \in [Tids -> ThreadStates]
    BY DEF SignalInv, SafeInv, TypeOK
  <1>7. CASE FirstFreeSlot(t) /\ AddThread({})
    <2>1. PICK n \in Tids : FirstFreeSlot(n) /\ state' = [state EXCEPT ![n] = "init"]
      BY <1>7 DEF AddThread
    <2>2. n = t
      BY <1>7, <2>1 DEF FirstFreeSlot, Tids
    <2>3. UNCHANGED <<current, kernel>> /\ kernel = "up"
      BY <1>7 DEF AddThread, Syscall, AtStage
    <2> QED
      BY <1>5, <1>6, <2>1, <2>2, <2>3
  <1>8. CASE t = current /\ Restart({})
    BY <1>5, <1>6, <1>8 DEF Restart, Syscall, AtStage
  <1> QED
    BY <1>4, <1>7, <1>8 DEF Start

\* The steps that leave the stacks and the processor alone.
LEMMA OthersKeep ==
    ASSUME NoneRemoved, SignalInv, UNCHANGED <<contexts, current>>,
           kernel' = kernel,
           pending_signals' \in [Tids -> SUBSET Signal],
           \A t \in Tids : state'[t] = "finished" =>
               state[t] = "finished" \/ contexts[t] = <<Worker>>,
           SafeInv'
    PROVE  SignalInv'
  <1>1. kernel = "up" => current \in Tids
    BY DEF SignalInv, SafeInv, TypeOK, Tids, NULL
  <1>2. NeverPastTheWrapper'
    BY <1>1 DEF SignalInv, NeverPastTheWrapper, Running
  <1> QED
    BY <1>2 DEF SignalInv

\* A worker that runs has nothing on top of it.
LEMMA WorkerIsAlone ==
    ASSUME NEW s, IsStack(s), s[Len(s)] = Worker
    PROVE  s = <<Worker>>
  <1>1. s \in Seq(Signal \cup {Worker, WrapperEnd}) /\ Len(s) \in Nat
    BY DEF IsStack
  <1>2. PICK n \in Nat : n = Len(s)
    BY <1>1
  <1>3. Len(s) = 1
    <2>1. n >= 1 /\ \A i \in 2 .. n : s[i] # Worker
      BY <1>2 DEF IsStack
    <2>2. s[n] = Worker
      BY <1>2
    <2>3. ~(n >= 2)
      BY <2>1, <2>2
    <2> QED
      BY <1>2, <2>1, <2>3
  <1> QED
    BY <1>1, <1>3 DEF IsStack

\* Every step keeps the invariant, action by action.
LEMMA SignalStep ==
    ASSUME NoneRemoved, SignalInv, [SignalNext]_signalVars
    PROVE  SignalInv'
  <1>1. /\ state \in [Tids -> ThreadStates]
        /\ pending_signals \in [Tids -> SUBSET Signal]
    BY DEF SignalInv, SafeInv, TypeOK
  <1>2. SignalNext => SafeInv'
    BY StaysSafe DEF SignalInv
  <1>3. CASE HandlerReturn
    BY <1>3, HandlerReturnKeeps
  <1>4. CASE GiveUp
    <2>1. 0 \in Tids
      BY MaxThreadsAssumption DEF Tids
    <2> QED
      BY <1>4, <2>1, SwitchKeeps
  <1>5. ASSUME NEW t \in Tids, Start(t)
        PROVE  SignalInv'
    BY <1>5, StartKeeps
  <1>6. ASSUME NEW t \in Tids, Cancel(t)
        PROVE  SignalInv'
    <2>1. CASE t = current
      BY <1>6, <2>1, SwitchKeeps
    <2>2. CASE t # current
      <3>1. /\ UNCHANGED signals /\ UNCHANGED <<current, kernel>>
            /\ state' = [state EXCEPT ![t] = "cancelled"]
        BY <1>6, <2>2 DEF Cancel, ThreadCancel
      <3>2. SignalNext
        BY <1>6 DEF SignalNext
      <3> QED
        BY <1>1, <1>2, <3>1, <3>2, OthersKeep DEF signals
    <2> QED
      BY <2>1, <2>2
  <1>7. ASSUME NEW tid \in Tids \cup {CURRENT_THREAD}, NEW s \in Signal, ThreadSignal(tid, s)
        PROVE  SignalInv'
    <2>1. SignalNext
      BY <1>7 DEF SignalNext
    <2>2. pending_signals' \in [Tids -> SUBSET Signal]
      BY <1>1, <1>7 DEF ThreadSignal
    <2> QED
      BY <1>1, <1>2, <1>7, <2>1, <2>2, OthersKeep DEF ThreadSignal, vars
  <1>8. ASSUME NEW tid \in Tids \cup {CURRENT_THREAD}, NEW handler \in BOOLEAN,
               SetSignalHandler(tid, handler)
        PROVE  SignalInv'
    <2>1. SignalNext
      BY <1>8 DEF SignalNext
    <2> QED
      BY <1>1, <1>2, <1>8, <2>1, OthersKeep DEF SetSignalHandler, vars
  <1>9. CASE InWorker /\ CleanupThread /\ UNCHANGED signals
    <2>1. SignalNext
      BY <1>9 DEF SignalNext
    <2> QED
      BY <1>1, <1>2, <1>9, <2>1, OthersKeep DEF CleanupThread, signals
  <1>10. CASE InWorker /\ SetFinished /\ UNCHANGED signals
    <2>1. SignalNext
      BY <1>10 DEF SignalNext
    <2>2. current \in Tids
      BY <1>10 DEF InWorker, SignalInv, SafeInv, TypeOK, Tids, NULL
    <2>3. contexts[current] = <<Worker>>
      BY <1>10, <2>2, WorkerIsAlone DEF InWorker, Running, SignalInv
    <2>4. UNCHANGED <<current, kernel>> /\ state' = [state EXCEPT ![current] = "finished"]
      BY <1>10 DEF SetFinished
    <2> QED
      BY <1>1, <1>2, <1>10, <2>1, <2>3, <2>4, OthersKeep DEF signals
  <1>11. CASE (\E armed \in BOOLEAN : SetTimer(armed)) /\ UNCHANGED signals
    <2>1. SignalNext
      BY <1>11 DEF SignalNext
    <2> QED
      BY <1>1, <1>2, <1>11, <2>1, OthersKeep DEF SetTimer, signals
  <1>12. CASE (\E t \in Tids : ThreadWake(t)) /\ UNCHANGED signals
    <2>1. SignalNext
      BY <1>12 DEF SignalNext
    <2>2. \A t \in Tids : state'[t] = "finished" => state[t] = "finished"
      BY <1>1, <1>12 DEF ThreadWake
    <2> QED
      BY <1>1, <1>2, <1>12, <2>1, <2>2, OthersKeep DEF ThreadWake, signals
  <1>13. CASE Halted /\ UNCHANGED signals
    <2>1. SignalNext
      BY <1>13 DEF SignalNext
    <2> QED
      BY <1>1, <1>2, <1>13, <2>1, OthersKeep DEF Halted, vars, signals
  <1>14. CASE UNCHANGED signalVars
    BY <1>1, <1>14 DEF SignalInv, SafeInv, TypeOK, OnlyCurrentRuns, CurrentIsLive, signalVars, vars,
       signals, family, config, NeverPastTheWrapper, Running, can_schedule_thread
  <1> QED
    BY <1>3, <1>4, <1>5, <1>6, <1>7, <1>8, <1>9, <1>10, <1>11, <1>12, <1>13, <1>14 DEF SignalNext

\* The initial state satisfies it.
LEMMA SignalsStart == SignalInit => SignalInv
  <1> SUFFICES ASSUME SignalInit PROVE SignalInv
    OBVIOUS
  <1>1. SafeInv
    BY SafeInit DEF SignalInit
  <1>2. kernel = "boot" /\ \A t \in Tids : state[t] = "init" /\ contexts[t] = <<Worker>>
    BY DEF SignalInit, Init
  <1> QED
    BY <1>1, <1>2, NewStack DEF SignalInit, SignalInv, NeverPastTheWrapper

----------------------------------------------------------------------------
\* The processor never comes back to the end of a wrapper, and no thread
\* finishes with a handler on its stack, whatever the threads, the signals and
\* the depth of nesting.
THEOREM NeverPastTheWrapperHolds ==
    ASSUME NoneRemoved
    PROVE  SignalSpec => []NeverPastTheWrapper
  <1>1. SignalInit => SignalInv
    BY SignalsStart
  <1>2. SignalInv /\ [SignalNext]_signalVars => SignalInv'
    BY SignalStep
  <1>3. SignalInv => NeverPastTheWrapper
    BY DEF SignalInv
  <1> QED
    BY <1>1, <1>2, <1>3, PTL DEF SignalSpec

----------------------------------------------------------------------------
(* Which signals are taken.                                                *)

\* What HandlersTakeTheLowestPending says of the signals of t.
TakesLowest(t) ==
    IF TakesSignal(t)
    THEN LET lowest == Min(pending_signals[t])
         IN  /\ pending_signals'[t] = pending_signals[t] \ {lowest}
             /\ contexts'[t] = Append(GoesOn(t), lowest)
    ELSE Resumed(contexts'[t]) = GoesOn(t) \/ IsNew(t)'

\* A stack that stays but for what the scheduler takes off, and signals that stay.
LEMMA NothingTaken ==
    ASSUME NEW t \in Tids, ~(t = current /\ HandlerReturn),
           Resumed(contexts'[t]) = Resumed(contexts[t]),
           pending_signals[t] \subseteq pending_signals'[t]
    PROVE  TakesLowest(t)
  BY DEF TakesLowest, TakesSignal, GoesOn

\* What the scheduler takes off is at most the top.
LEMMA ResumedOnce ==
    ASSUME NEW s, IsStack(s)
    PROVE  Resumed(Resumed(s)) = Resumed(s)
  <1>1. Resumed(s)[Len(Resumed(s))] # WrapperEnd
    BY ResumedRuns
  <1> HIDE DEF IsStack
  <1> QED
    BY <1>1 DEF Resumed

\* What the scheduler does takes the lowest signal, if there is a handler, and
\* puts the handler on the stack that it found as saved.
LEMMA ScheduledTakes ==
    ASSUME SignalInv, NEW saved, DOMAIN saved = Tids,
           \A t \in Tids : IsStack(saved[t]),
           Scheduled(saved), kernel' = "up" => current' \in Tids,
           kernel' # "up" => saved = contexts,
           NEW t \in Tids, GoesOn(t) = Resumed(saved[t])
    PROVE  TakesLowest(t)
  <1>1. CASE kernel' # "up"
    <2>1. contexts' = saved /\ pending_signals' = pending_signals
      BY <1>1 DEF Scheduled, signals
    <2>2. ~TakesSignal(t)
      BY <2>1 DEF TakesSignal
    <2> QED
      BY <2>1, <2>2 DEF TakesLowest
  <1>2. CASE kernel' = "up"
    <2>1. PICK n \in Tids : n = current' /\ check_signals(saved, n)
      BY <1>2 DEF Scheduled
    <2>2. DOMAIN pending_signals = Tids
      BY DEF SignalInv
    <2>3. CASE t # n
      <3>1. contexts'[t] = saved[t] /\ pending_signals'[t] = pending_signals[t]
        BY <2>1, <2>2, <2>3 DEF check_signals
      <3>2. ~TakesSignal(t)
        BY <3>1 DEF TakesSignal
      <3> QED
        BY <3>1, <3>2 DEF TakesLowest
    <2>4. CASE t = n /\ ~Handles(t)
      <3>1. contexts'[t] = Resumed(saved[t])
        BY <2>1, <2>2, <2>4 DEF check_signals
      <3>2. ~TakesSignal(t)
        BY <2>4 DEF TakesSignal, Handles
      <3>3. Resumed(contexts'[t]) = Resumed(saved[t])
        BY <3>1, ResumedOnce
      <3> QED
        BY <3>2, <3>3 DEF TakesLowest
    <2>5. CASE t = n /\ Handles(t)
      <3>1. /\ contexts'[t] = Append(Resumed(saved[t]), next_signal(t))
            /\ pending_signals'[t] = pending_signals[t] \ {next_signal(t)}
        BY <2>1, <2>2, <2>5 DEF check_signals
      <3>2. next_signal(t) \in pending_signals[t]
        BY <2>5, LowestIsPending DEF SignalInv, Handles, next_signal
      <3>3. TakesSignal(t)
        BY <2>1, <2>5, <3>1, <3>2 DEF TakesSignal, Handles, check_signals
      <3> QED
        BY <3>1, <3>3 DEF TakesLowest, next_signal
    <2> QED
      BY <2>3, <2>4, <2>5
  <1> QED
    BY <1>1, <1>2

\* A handler returns: its context gives way to the end of the wrapper, which is
\* what the scheduler takes off when it comes back to the thread, now or later.
LEMMA ReturnTakes ==
    ASSUME SignalInv, SignalInv', HandlerReturn, NEW t \in Tids
    PROVE  TakesLowest(t)
  <1>1. PICK c \in Tids : c = current
    BY DEF HandlerReturn, SignalInv, SafeInv, TypeOK, Tids, NULL
  <1>2. PICK saved : /\ saved = [contexts EXCEPT ![c] = Append(WithoutTop(@), WrapperEnd)]
                     /\ Scheduled(saved)
    BY <1>1 DEF HandlerReturn
  <1>3. PICK s : s = contexts[c] /\ IsStack(s) /\ s[Len(s)] \in Signal
    BY <1>1 DEF HandlerReturn, Running, SignalInv
  <1>4. Len(s) \in Nat /\ Len(s) > 1
    BY <1>3, Marks DEF IsStack
  <1>5. PICK w : w = WithoutTop(s) /\ IsStack(w) /\ w[Len(w)] # WrapperEnd
    BY <1>3, <1>4, TopOff
  <1>6. IsStack(Append(w, WrapperEnd))
    BY <1>5, PutOn
  <1>7. Resumed(Append(w, WrapperEnd)) = w
    <2>1. w \in Seq(Signal \cup {Worker, WrapperEnd})
      BY <1>5 DEF IsStack
    <2>2. Len(Append(w, WrapperEnd)) = Len(w) + 1 /\ Append(w, WrapperEnd)[Len(w) + 1] = WrapperEnd
      BY <2>1
    <2>3. Resumed(Append(w, WrapperEnd)) = SubSeq(Append(w, WrapperEnd), 1, Len(w) + 1 - 1)
      BY <2>2 DEF Resumed, WithoutTop
    <2>4. Len(w) \in Nat
      BY <2>1
    <2>5. SubSeq(Append(w, WrapperEnd), 1, Len(w)) = w
      BY <2>1
    <2> QED
      BY <2>3, <2>4, <2>5
  <1>8. DOMAIN contexts = Tids /\ \A u \in Tids : IsStack(contexts[u])
    BY DEF SignalInv
  <1>9. saved[c] = Append(w, WrapperEnd) /\ \A u \in Tids \ {c} : saved[u] = contexts[u]
    BY <1>1, <1>2, <1>3, <1>5, <1>8
  <1>10. DOMAIN saved = Tids /\ \A u \in Tids : IsStack(saved[u])
    BY <1>2, <1>6, <1>8, <1>9
  <1>11. kernel' = "up"
    <2>1. state[c] # "finished"
      <3>1. contexts[c] # <<Worker>>
        BY <1>3, <1>4
      <3> QED
        BY <1>1, <3>1 DEF SignalInv, NeverPastTheWrapper
    <2>2. can_schedule_thread(id, state, c)
      <3>1. kernel = "up" /\ c # INVALID_THREAD
        BY <1>1 DEF HandlerReturn, Tids, INVALID_THREAD
      <3> QED
        BY <1>1, <2>1, <3>1 DEF SignalInv, SafeInv, CurrentIsLive, can_schedule_thread
    <2> QED
      BY <1>1, <2>2 DEF HandlerReturn, do_scheduler, SwitchTo
  <1>12. current' \in Tids
    BY <1>11 DEF SignalInv, SafeInv, TypeOK, Tids, NULL
  <1>13. GoesOn(t) = Resumed(saved[t])
    <2>1. CASE t = c
      BY <1>1, <1>3, <1>5, <1>7, <1>9, <2>1 DEF GoesOn
    <2>2. CASE t # c
      BY <1>1, <1>9, <2>2 DEF GoesOn
    <2> QED
      BY <2>1, <2>2
  <1> QED
    BY <1>2, <1>10, <1>11, <1>12, <1>13, ScheduledTakes

\* Each slot says of its thread whether there is a handler.
SlotsHandle == DOMAIN signal_handler = Tids

\* No step takes that away.
LEMMA StepHandles == SlotsHandle /\ [SignalNext]_signalVars => SlotsHandle'
  <1> SUFFICES ASSUME [SignalNext]_signalVars
               PROVE  DOMAIN signal_handler' = DOMAIN signal_handler
    BY DEF SlotsHandle
  <1>1. CASE UNCHANGED signals
    BY <1>1 DEF signals
  <1>2. ASSUME NEW saved, Scheduled(saved) PROVE DOMAIN signal_handler' = DOMAIN signal_handler
    BY <1>1, <1>2 DEF Scheduled, check_signals
  <1>3. ASSUME NEW t, StartSignals(t) PROVE DOMAIN signal_handler' = DOMAIN signal_handler
    BY <1>3 DEF StartSignals
  <1>4. ASSUME NEW tid, NEW s, ThreadSignal(tid, s)
        PROVE  DOMAIN signal_handler' = DOMAIN signal_handler
    BY <1>4 DEF ThreadSignal
  <1>5. ASSUME NEW tid, NEW handler, SetSignalHandler(tid, handler)
        PROVE  DOMAIN signal_handler' = DOMAIN signal_handler
    BY <1>5 DEF SetSignalHandler
  <1>6. CASE HandlerReturn
    BY <1>2, <1>6 DEF HandlerReturn
  <1> QED
    BY <1>1, <1>2, <1>3, <1>4, <1>5, <1>6 DEF SignalNext, signalVars, GiveUp, Start, Cancel

\* Every step takes a signal only for a handler, and the lowest.
LEMMA StepTakes ==
    ASSUME SignalInv, SignalInv', SlotsHandle, [SignalNext]_signalVars, NEW t \in Tids
    PROVE  TakesLowest(t)
  <1>1. CASE HandlerReturn
    BY <1>1, ReturnTakes
  <1> SUFFICES ASSUME ~HandlerReturn PROVE TakesLowest(t)
    BY <1>1
  <1>2. /\ DOMAIN contexts = Tids /\ DOMAIN pending_signals = Tids
        /\ \A u \in Tids : IsStack(contexts[u])
        /\ kernel' = "up" => current' \in Tids
    BY DEF SignalInv, SafeInv, TypeOK, Tids, NULL
  <1>3. CASE Scheduled(contexts)
    BY <1>2, <1>3, ScheduledTakes DEF GoesOn
  <1>4. ASSUME NEW u \in Tids, StartSignals(u)
        PROVE  TakesLowest(t)
    <2>1. CASE t = u
      <3>1. contexts'[t] = <<Worker>> /\ pending_signals'[t] = {} /\ ~signal_handler'[t]
        BY <1>2, <1>4, <2>1 DEF StartSignals, SlotsHandle
      <3>2. IsNew(t)' /\ ~TakesSignal(t)
        BY <3>1 DEF IsNew, TakesSignal
      <3> QED
        BY <3>2 DEF TakesLowest
    <2>2. CASE t # u
      BY <1>2, <1>4, <2>2, NothingTaken DEF StartSignals
    <2> QED
      BY <2>1, <2>2
  <1>5. CASE UNCHANGED contexts /\ pending_signals[t] \subseteq pending_signals'[t]
    BY <1>5, NothingTaken
  <1>6. CASE UNCHANGED signals
    BY <1>5, <1>6 DEF signals
  <1>7. ASSUME NEW tid, NEW s, ThreadSignal(tid, s) PROVE TakesLowest(t)
    BY <1>2, <1>5, <1>7 DEF ThreadSignal
  <1>8. ASSUME NEW tid, NEW handler, SetSignalHandler(tid, handler) PROVE TakesLowest(t)
    BY <1>5, <1>8 DEF SetSignalHandler
  <1> QED
    BY <1>3, <1>4, <1>6, <1>7, <1>8 DEF SignalNext, signalVars, GiveUp, Start, Cancel

\* A signal that is taken is the lowest that was pending, and its handler runs on
\* what the thread goes on with: none is repeated, lost or started without one.
THEOREM LowestIsTaken ==
    ASSUME NoneRemoved PROVE SignalSpec => HandlersTakeTheLowestPending
  <1>1. SignalInit => SignalInv /\ SlotsHandle
    BY SignalsStart DEF SignalInit, SlotsHandle
  <1>2. SignalInv /\ SlotsHandle /\ [SignalNext]_signalVars => (SignalInv /\ SlotsHandle)'
    BY SignalStep, StepHandles
  <1>3. SignalInv /\ SignalInv' /\ SlotsHandle /\ [SignalNext]_signalVars => [\A t \in Tids :
          IF TakesSignal(t)
          THEN LET lowest == Min(pending_signals[t])
               IN  /\ pending_signals'[t] = pending_signals[t] \ {lowest}
                   /\ contexts'[t] = Append(GoesOn(t), lowest)
          ELSE Resumed(contexts'[t]) = GoesOn(t) \/ IsNew(t)']_signalVars
    BY StepTakes DEF TakesLowest
  <1> QED
    BY <1>1, <1>2, <1>3, PTL DEF SignalSpec, HandlersTakeTheLowestPending

----------------------------------------------------------------------------
(* What a new thread finds.                                                *)

\* A slot that is free is only taken by a thread that starts in it.
LEMMA OnlyStartsTake ==
    ASSUME NoneRemoved, WakesOnlyWaiting, SignalInv, SignalNext, NEW t \in Tids,
           SlotIsFree(t), ~SlotIsFree(t)'
    PROVE  StartSignals(t)
  <1>a. /\ state \in [Tids -> ThreadStates] /\ DOMAIN id = Tids
        /\ kernel = "up" => current \in Tids
    BY DEF SignalInv, SafeInv, TypeOK, Tids, NULL
  <1>1. ASSUME NEW st, NEW to \in Tids \cup {NULL}, to # NULL => can_schedule_thread(id, st, to),
               do_scheduler(id, st, to), id' = id,
               id[t] = INVALID_THREAD \/ st[t] \in {"cancelled", "finished"}
        PROVE  FALSE
    BY <1>1, SchedulerKeepsFree
  <1>2. CASE HandlerReturn \/ YieldAny \/ Tick \/ YieldAsm
    BY <1>1, <1>2 DEF HandlerReturn, YieldAny, Tick, YieldAsm, SlotIsFree
  <1>3. ASSUME NEW u \in Tids, YieldTo(u) PROVE FALSE
    BY <1>1, <1>3 DEF YieldTo, SlotIsFree, Tids, NULL
  <1>4. CASE ThreadWait
    <2>1. PICK st : st = [state EXCEPT ![current] = "waiting"] /\ do_scheduler(id, st, NULL)
      BY <1>4 DEF ThreadWait
    <2>2. id[t] = INVALID_THREAD \/ st[t] \in {"cancelled", "finished"}
      <3>1. kernel = "up" /\ stage[current] = "work"
        BY <1>4 DEF ThreadWait, Syscall, AtStage
      <3>2. id[current] # INVALID_THREAD /\ state[current] \notin {"cancelled", "finished"}
        BY <1>a, <3>1 DEF SignalInv, SafeInv, CurrentIsLive, Tids, INVALID_THREAD
      <3>3. t # current
        BY <3>2 DEF SlotIsFree
      <3> QED
        BY <1>a, <2>1, <3>3 DEF SlotIsFree
    <2> QED
      BY <1>1, <1>4, <2>1, <2>2 DEF ThreadWait
  <1>5. ASSUME NEW u \in Tids, ThreadCancel(u) PROVE FALSE
    <2>1. PICK st : /\ st = [state EXCEPT ![u] = "cancelled"]
                    /\ do_scheduler(id, st, NULL) \/ state' = st
      BY <1>5 DEF ThreadCancel
    <2>2. id[t] = INVALID_THREAD \/ st[t] \in {"cancelled", "finished"}
      BY <1>a, <2>1 DEF SlotIsFree
    <2>3. id' = id
      BY <1>5 DEF ThreadCancel
    <2>4. CASE state' = st
      BY <2>2, <2>3, <2>4 DEF SlotIsFree
    <2> QED
      BY <1>1, <2>1, <2>2, <2>3, <2>4
  <1>6. ASSUME NEW u \in Tids, Start(u) PROVE t = u
    <2>1. CASE u = 0 /\ Boot /\ t # u
      <3>1. PICK st : st = [state EXCEPT ![0] = "init"] /\ do_scheduler(id', st, NULL)
        BY <2>1 DEF Boot
      <3>2. id'[t] = id[t] /\ st[t] = state[t]
        BY <1>a, <2>1, <3>1 DEF Boot, init_thread
      <3>3. SlotIsFree(t)'
        BY <3>1, <3>2 DEF do_scheduler, SwitchTo, choose_next_thread, can_schedule_thread,
                          SlotIsFree
      <3> QED
        BY <3>3
    <2>2. CASE FirstFreeSlot(u) /\ AddThread({})
      <3>1. PICK v \in Tids : /\ FirstFreeSlot(v)
                              /\ id' = [id EXCEPT ![v] = v] /\ state' = [state EXCEPT ![v] = "init"]
        BY <2>2 DEF AddThread, init_thread
      <3>2. v = u
        BY <2>2, <3>1 DEF FirstFreeSlot, Tids
      <3> QED
        BY <1>a, <3>1, <3>2 DEF SlotIsFree
    <2>3. CASE u = current /\ Restart({})
      BY <1>a, <2>3 DEF Restart, init_thread, SlotIsFree
    <2> QED
      BY <1>6, <2>1, <2>2, <2>3 DEF Start
  <1>7. ASSUME NEW u \in Tids, ThreadWake(u) PROVE FALSE
    BY <1>a, <1>7 DEF ThreadWake, SlotIsFree
  <1>8. ASSUME CleanupThread \/ SetFinished \/ (\E armed \in BOOLEAN : SetTimer(armed)) \/ Halted
        PROVE  FALSE
    BY <1>a, <1>8 DEF CleanupThread, SetFinished, AtStage, SetTimer, Halted, vars, SlotIsFree
  <1>9. ASSUME NEW tid, NEW s, ThreadSignal(tid, s) \/ SetSignalHandler(tid, s) PROVE FALSE
    BY <1>9 DEF ThreadSignal, SetSignalHandler, vars, SlotIsFree
  <1>10. \A u \in Tids : Start(u) => StartSignals(t)
    BY <1>6 DEF Start
  <1> QED
    BY <1>2, <1>3, <1>4, <1>5, <1>7, <1>8, <1>9, <1>10 DEF SignalNext, GiveUp, Cancel

\* Which threads have a handler.
HandlersTypeOK == signal_handler \in [Tids -> BOOLEAN]

\* Only set_handler and a new thread change them.
LEMMA HandlersStep ==
    ASSUME HandlersTypeOK, [SignalNext]_signalVars PROVE HandlersTypeOK'
  <1> USE DEF HandlersTypeOK
  <1>1. CASE Scheduled(contexts) \/ HandlerReturn
    BY <1>1 DEF HandlerReturn, Scheduled, check_signals, signals
  <1>2. ASSUME NEW t \in Tids, StartSignals(t) PROVE HandlersTypeOK'
    BY <1>2 DEF StartSignals
  <1>3. ASSUME NEW tid, NEW handler \in BOOLEAN, SetSignalHandler(tid, handler)
        PROVE  HandlersTypeOK'
    BY <1>3 DEF SetSignalHandler
  <1>4. CASE UNCHANGED signals \/ \E tid, s : ThreadSignal(tid, s)
    BY <1>4 DEF signals, ThreadSignal
  <1> QED
    BY <1>1, <1>2, <1>3, <1>4 DEF SignalNext, signalVars, GiveUp, Start, Cancel

\* A new thread gets neither the signals nor the handlers that the thread before
\* it in its slot had.
THEOREM NewThreadsAreUnsignalled ==
    ASSUME NoneRemoved, WakesOnlyWaiting PROVE SignalSpec => NewThreadsHaveNoSignals
  <1>1. SignalInit => SignalInv
    BY SignalsStart
  <1>2. SignalInv /\ [SignalNext]_signalVars => SignalInv'
    BY SignalStep
  <1>3. ASSUME SignalInv, HandlersTypeOK, SignalNext, NEW t \in Tids,
               SlotIsFree(t), ~SlotIsFree(t)'
        PROVE  pending_signals'[t] = {} /\ ~signal_handler'[t] /\ contexts'[t] = <<Worker>>
    <2>1. StartSignals(t)
      BY <1>3, OnlyStartsTake
    <2> QED
      BY <1>3, <2>1 DEF StartSignals, SignalInv, HandlersTypeOK
  <1>4. SignalInit => HandlersTypeOK
    BY DEF SignalInit, HandlersTypeOK
  <1>5. HandlersTypeOK /\ [SignalNext]_signalVars => HandlersTypeOK'
    BY HandlersStep
  <1>6. SignalInv /\ HandlersTypeOK /\ [SignalNext]_signalVars =>
            [\A t \in Tids : SlotIsFree(t) /\ ~SlotIsFree(t)' =>
                /\ pending_signals'[t] = {}
                /\ ~signal_handler'[t]
                /\ contexts'[t] = <<Worker>>]_signalVars
    BY <1>3
  <1> QED
    BY <1>1, <1>2, <1>4, <1>5, <1>6, PTL DEF SignalSpec, NewThreadsHaveNoSignals

----------------------------------------------------------------------------
(* Registers: the layout of a context.                                     *)

\* The values that there are on stacks.
Values == ({"own", "set"} \X Tids \X Int)
              \cup {Zero, Kernel, Result, thread_start, UserMode}

\* What a register is found to hold, for a thread that left as l says.
Found(l, t, r) ==
    CASE l = "own" -> Own(t, r)
      [] l = "set" -> Set(t, r)
      [] OTHER -> IF r = PC THEN thread_start ELSE IF r = PSR THEN UserMode ELSE Zero

\* Stack s of thread t, off the processor: a context with what it left.
IsFrame(p, t, l, s) ==
    /\ s \in Seq(Values)
    /\ Len(s) = Len(RegisterContext[p]) + l.depth
    /\ \A i \in 1 .. Len(RegisterContext[p]) :
          s[i] = IF i = Field[p][0] /\ l.result THEN Result
                 ELSE Found(l.regs, t, RegisterContext[p][i])

\* Registers r and stack s of thread t on the processor.
IsOn(p, t, l, r, s) ==
    /\ s \in Seq(Values)
    /\ Len(s) = l.depth
    /\ \A u \in UserRegisters[p] :
          IF l.regs = "first" THEN u = PC => r[u] = thread_start
          ELSE r[u] = IF u = 0 /\ l.result THEN Result ELSE Found(l.regs, t, u)

\* How a thread can have left.
LeftRecords == [regs : {"own", "set", "new", "first"}, result : BOOLEAN, depth : Nat]

\* A context has each register of a thread once.
IsLayout(p, context) ==
    /\ context \in Seq(Int)
    /\ Len(context) \in Nat \ {0}
    /\ \A i \in 1 .. Len(context) : context[i] \in UserRegisters[p]
    /\ 0 \in UserRegisters[p] /\ PC \in UserRegisters[p]
    /\ \A r \in UserRegisters[p] : /\ Field[p][r] \in 1 .. Len(context)
                                   /\ context[Field[p][r]] = r
    /\ \A i, j \in 1 .. Len(context) : context[i] = context[j] => i = j

\* A field found by its register.
LEMMA FieldIs ==
    ASSUME NEW p \in AllPorts, NEW context, context = RegisterContext[p],
           NEW r \in UserRegisters[p], \E i \in DOMAIN context : context[i] = r
    PROVE  Field[p][r] \in DOMAIN context /\ context[Field[p][r]] = r
  BY DEF Field

\* The context of arm.
LEMMA LayoutArm == IsLayout("arm", RegisterContext["arm"])
  <1>1. PICK c : c = <<0, 1, 2, 3, 4, 5, 6, 7, 8, 9, 10, 11, 12, 14, 31, 33>>
    OBVIOUS
  <1>2. c = RegisterContext["arm"]
    BY <1>1 DEF RegisterContext, RegisterContextArm, LR, PC, PSR, AllPorts
  <1>3. UserRegisters["arm"] = 0 .. 12 \cup {14, 31, 33}
    BY DEF UserRegisters, AllPorts, LR, PC, PSR
  <1>4. c \in Seq(Int) /\ Len(c) = 16
    BY <1>1
  <1>5. \A i \in 1 .. 16 : c[i] \in UserRegisters["arm"]
    BY <1>1, <1>3
  <1>6. \A r \in UserRegisters["arm"] : \E i \in 1 .. 16 : c[i] = r
    BY <1>1, <1>3
  <1>7. \A i, j \in 1 .. 16 : c[i] = c[j] => i = j
    BY <1>1
  <1>8. DOMAIN c = 1 .. 16
    BY <1>4
  <1>9. \A r \in UserRegisters["arm"] : Field["arm"][r] \in 1 .. 16 /\ c[Field["arm"][r]] = r
    BY <1>2, <1>6, <1>8, FieldIs DEF AllPorts
  <1>10. 0 \in UserRegisters["arm"] /\ PC \in UserRegisters["arm"]
    BY <1>3 DEF PC
  <1>11. Len(c) \in Nat \ {0} /\ 1 .. 16 = 1 .. Len(c)
    BY <1>4
  <1>12. IsLayout("arm", c)
    BY <1>4, <1>5, <1>7, <1>9, <1>10, <1>11 DEF IsLayout
  <1> QED
    BY <1>2, <1>12

\* The context of thumb.
LEMMA LayoutThumb == IsLayout("thumb", RegisterContext["thumb"])
  <1>1. PICK c : c = <<4, 5, 6, 7, 8, 9, 10, 11, 0, 1, 2, 3, 12, 14, 31, 33>>
    OBVIOUS
  <1>2. c = RegisterContext["thumb"]
    BY <1>1 DEF RegisterContext, RegisterContextThumb, LR, PC, PSR, AllPorts
  <1>3. UserRegisters["thumb"] = 0 .. 12 \cup {14, 31, 33}
    BY DEF UserRegisters, AllPorts, LR, PC, PSR
  <1>4. c \in Seq(Int) /\ Len(c) = 16
    BY <1>1
  <1>5. \A i \in 1 .. 16 : c[i] \in UserRegisters["thumb"]
    BY <1>1, <1>3
  <1>6. \A r \in UserRegisters["thumb"] : \E i \in 1 .. 16 : c[i] = r
    BY <1>1, <1>3
  <1>7. \A i, j \in 1 .. 16 : c[i] = c[j] => i = j
    BY <1>1
  <1>8. DOMAIN c = 1 .. 16
    BY <1>4
  <1>9. \A r \in UserRegisters["thumb"] : Field["thumb"][r] \in 1 .. 16 /\ c[Field["thumb"][r]] = r
    BY <1>2, <1>6, <1>8, FieldIs DEF AllPorts
  <1>10. 0 \in UserRegisters["thumb"] /\ PC \in UserRegisters["thumb"]
    BY <1>3 DEF PC
  <1>11. Len(c) \in Nat \ {0} /\ 1 .. 16 = 1 .. Len(c)
    BY <1>4
  <1>12. IsLayout("thumb", c)
    BY <1>4, <1>5, <1>7, <1>9, <1>10, <1>11 DEF IsLayout
  <1> QED
    BY <1>2, <1>12

\* The context of aarch64.
LEMMA LayoutAArch64 == IsLayout("aarch64", RegisterContext["aarch64"])
  <1>1. PICK c : c = <<29, 30, 27, 28, 25, 26, 23, 24, 21, 22, 19, 20, 17, 18, 15, 16, 13, 14,
                       11, 12, 9, 10, 7, 8, 5, 6, 3, 4, 31, 2, 32, 33, 0, 1>>
    OBVIOUS
  <1>2. c = RegisterContext["aarch64"]
    BY <1>1 DEF RegisterContext, RegisterContextAArch64, FPSR, PC, PSR, AllPorts
  <1>3. UserRegisters["aarch64"] = 0 .. 30 \cup {31, 32, 33}
    BY DEF UserRegisters, AllPorts, FPSR, PC, PSR
  <1>4. c \in Seq(Int) /\ Len(c) = 34
    BY <1>1
  <1>5. \A i \in 1 .. 34 : c[i] \in UserRegisters["aarch64"]
    BY <1>1, <1>3
  <1>6. \A r \in UserRegisters["aarch64"] : \E i \in 1 .. 34 : c[i] = r
    BY <1>1, <1>3
  <1>7. \A i, j \in 1 .. 34 : c[i] = c[j] => i = j
    BY <1>1
  <1>8. DOMAIN c = 1 .. 34
    BY <1>4
  <1>9. \A r \in UserRegisters["aarch64"] :
            Field["aarch64"][r] \in 1 .. 34 /\ c[Field["aarch64"][r]] = r
    BY <1>2, <1>6, <1>8, FieldIs DEF AllPorts
  <1>10. 0 \in UserRegisters["aarch64"] /\ PC \in UserRegisters["aarch64"]
    BY <1>3 DEF PC
  <1>11. Len(c) \in Nat \ {0} /\ 1 .. 34 = 1 .. Len(c)
    BY <1>4
  <1>12. IsLayout("aarch64", c)
    BY <1>4, <1>5, <1>7, <1>9, <1>10, <1>11 DEF IsLayout
  <1> QED
    BY <1>2, <1>12

\* On every port, a context has each register of a thread once.
LEMMA Layouts == \A p \in AllPorts : IsLayout(p, RegisterContext[p])
  BY LayoutArm, LayoutThumb, LayoutAArch64 DEF AllPorts

----------------------------------------------------------------------------
(* Registers: what is saved and loaded.                                    *)

\* What is loaded into each register of a thread.
LEMMA LoadsFields ==
    ASSUME NEW p \in AllPorts, NEW r \in UserRegisters[p]
    PROVE  /\ Field[p][r] \in 1 .. Len(RegisterContext[p])
           /\ RegisterContext[p][Field[p][r]] = r
           /\ Restores[p].regs[r] = 100 + Field[p][r]
  <1>1. PICK c : c = RegisterContext[p] /\ IsLayout(p, c)
    BY Layouts
  <1>2. Field[p][r] \in 1 .. Len(c) /\ c[Field[p][r]] = r /\ DOMAIN c = 1 .. Len(c)
    BY <1>1 DEF IsLayout
  <1>3. \A i \in DOMAIN c : Restores[p].regs[c[i]] = Word(i)
    BY <1>1, FramesAssumption DEF FramesMatch
  <1>4. Restores[p].regs[r] = Word(Field[p][r])
    BY <1>2, <1>3
  <1> QED
    BY <1>1, <1>2, <1>4 DEF Word

\* The registers that load_next_thread leaves, from registers r and frame s.
RegsFrom(p, load, r, s) ==
    [u \in AllRegisters[p] |-> IF IsWord(load.regs[u]) THEN s[load.regs[u] - Word(0)]
                                                       ELSE r[load.regs[u]]]

\* A stack without the context on it.
Popped(p, load, s) == SubSeq(s, Len(RegisterContext[p]) - Len(load.stack) + 1, Len(s))

\* The rest of a stack below its first n words.
LEMMA RestOf ==
    ASSUME NEW n \in Nat, NEW d \in Nat, NEW s \in Seq(Values), Len(s) = n + d
    PROVE  SubSeq(s, n + 1, Len(s)) \in Seq(Values) /\ Len(SubSeq(s, n + 1, Len(s))) = d
  <1>1. PICK e \in Int : e = n + d
    OBVIOUS
  <1>2. DOMAIN s = 1 .. e /\ \A i \in 1 .. e : s[i] \in Values
    BY <1>1, LenProperties
  <1>3. n + 1 \in Int /\ \A i \in n + 1 .. e : s[i] \in Values
    BY <1>1, <1>2
  <1>4. /\ SubSeq(s, n + 1, e) \in Seq(Values)
        /\ Len(SubSeq(s, n + 1, e)) = IF n + 1 <= e THEN e - (n + 1) + 1 ELSE 0
    BY <1>3, SubSeqProperties
  <1>5. (IF n + 1 <= e THEN e - (n + 1) + 1 ELSE 0) = d
    BY <1>1
  <1> QED
    BY <1>1, <1>4, <1>5

\* A context that is restored is what the thread left.
LEMMA RestoredIsOn ==
    ASSUME NEW p \in AllPorts, NEW t, NEW l \in LeftRecords, NEW s, IsFrame(p, t, l, s), NEW r
    PROVE  IsOn(p, t, l, RegsFrom(p, Restores[p], r, s), Popped(p, Restores[p], s))
  <1>1. PICK c, n : c = RegisterContext[p] /\ n = Len(c) /\ IsLayout(p, c)
    BY Layouts
  <1>2. PICK d, b : d = l.depth /\ d \in Nat /\ b = l.result /\ b \in BOOLEAN
    BY DEF LeftRecords
  <1>3. n \in Nat \ {0} /\ s \in Seq(Values) /\ Len(s) = n + d
    BY <1>1, <1>2 DEF IsFrame, IsLayout
  <1>4. Restores[p].stack = <<>> /\ Len(Restores[p].stack) = 0
    BY FramesAssumption DEF FramesMatch
  <1>5. Popped(p, Restores[p], s) = SubSeq(s, n + 1, Len(s))
    <2>1. n - 0 + 1 = n + 1
      BY <1>3
    <2> QED
      BY <1>1, <1>4, <2>1 DEF Popped
  <1>6. SubSeq(s, n + 1, Len(s)) \in Seq(Values) /\ Len(SubSeq(s, n + 1, Len(s))) = d
    <2>1. n \in Nat /\ d \in Nat /\ s \in Seq(Values) /\ Len(s) = n + d
      BY <1>2, <1>3
    <2>2. SubSeq(s, n + 1, Len(s)) \in Seq(Values)
      BY <2>1, RestOf
    <2>3. Len(SubSeq(s, n + 1, Len(s))) = d
      BY <2>1, RestOf
    <2> QED
      BY <2>2, <2>3
  <1>7. PICK g : g = RegsFrom(p, Restores[p], r, s)
    OBVIOUS
  <1>8. ASSUME NEW u \in UserRegisters[p]
        PROVE  IF l.regs = "first" THEN u = PC => g[u] = thread_start
               ELSE g[u] = IF u = 0 /\ l.result THEN Result ELSE Found(l.regs, t, u)
    <2>1. PICK i : i = Field[p][u]
      OBVIOUS
    <2>2. i \in 1 .. n /\ c[i] = u /\ Restores[p].regs[u] = 100 + i
      BY <1>1, <2>1, LoadsFields
    <2>3. u \in AllRegisters[p]
      BY DEF AllRegisters
    <2>4. g[u] = s[i]
      <3>1. IsWord(100 + i) /\ (100 + i) - Word(0) = i
        BY <1>3, <2>2 DEF IsWord, Word
      <3> QED
        BY <1>7, <2>2, <2>3, <3>1 DEF RegsFrom
    <2>5. s[i] = IF i = Field[p][0] /\ l.result THEN Result ELSE Found(l.regs, t, u)
      BY <1>1, <2>2 DEF IsFrame
    <2>6. i = Field[p][0] <=> u = 0
      <3>1. c[Field[p][0]] = 0
        BY <1>1 DEF IsLayout
      <3> QED
        BY <2>1, <2>2, <3>1
    <2>7. CASE l.regs = "first" /\ u = PC
      <3>1. u # 0
        BY <2>7 DEF PC
      <3> QED
        BY <2>4, <2>5, <2>6, <2>7, <3>1 DEF Found
    <2> QED
      BY <2>4, <2>5, <2>6, <2>7
  <1> QED
    BY <1>2, <1>5, <1>6, <1>7, <1>8 DEF IsOn

\* A word that a thread has in its context is a value of the stacks.
LEMMA FoundIsValue ==
    ASSUME NEW l, NEW t \in Tids, NEW r \in Int
    PROVE  Found(l, t, r) \in Values
  BY DEF Found, Own, Set, Values

\* The context of a new thread.
LEMMA NewIsFrame ==
    ASSUME NEW p \in AllPorts, NEW t \in Tids
    PROVE  IsFrame(p, t, [regs |-> "new", result |-> FALSE, depth |-> 0], init_register_context(p))
  <1>1. PICK c, n : c = RegisterContext[p] /\ n = Len(c) /\ IsLayout(p, c)
    BY Layouts
  <1>2. n \in Nat /\ c \in Seq(Int) /\ DOMAIN c = 1 .. n
    BY <1>1 DEF IsLayout
  <1>3. PICK s : s = init_register_context(p)
    OBVIOUS
  <1>4. s = [i \in 1 .. n |-> Found("new", t, c[i])]
    BY <1>1, <1>2, <1>3 DEF init_register_context, Found, PC, PSR
  <1>5. \A i \in 1 .. n : Found("new", t, c[i]) \in Values
    BY <1>2, FoundIsValue
  <1>6. s \in [1 .. n -> Values]
    BY <1>4, <1>5
  <1>7. s \in Seq(Values) /\ Len(s) = n
    BY <1>2, <1>6, SeqDef, LenProperties
  <1> QED
    BY <1>1, <1>2, <1>3, <1>4, <1>7 DEF IsFrame

\* Values on top of a stack.
LEMMA PutsOn ==
    ASSUME NEW n \in Nat, NEW top, top \in [1 .. n -> Values], NEW s \in Seq(Values)
    PROVE  /\ top \o s \in Seq(Values) /\ Len(top \o s) = n + Len(s)
           /\ \A i \in 1 .. n : (top \o s)[i] = top[i]
  <1>1. top \in Seq(Values) /\ Len(top) = n
    BY SeqDef, LenProperties
  <1>2. PICK m \in Nat : m = Len(s)
    BY LenProperties
  <1>3. /\ top \o s \in Seq(Values) /\ Len(top \o s) = n + m
        /\ \A i \in 1 .. n + m : (top \o s)[i] = IF i <= n THEN top[i] ELSE s[i - n]
    BY <1>1, <1>2, ConcatProperties
  <1>4. \A i \in 1 .. n : i \in 1 .. n + m /\ i <= n
    BY <1>2
  <1> QED
    BY <1>2, <1>3, <1>4

\* What SAVE_CURRENT_THREAD puts on the stack of thread t is a context.
LEMMA SavedIsFrame ==
    ASSUME NEW p \in AllPorts, NEW kind \in {"svc", "irq"}, ~(p = "arm" /\ kind = "irq"),
           NEW t \in Tids, NEW s \in Seq(Values), NEW top,
           top = [i \in DOMAIN Saves[p][kind].stack |-> Own(t, Saves[p][kind].stack[i])]
    PROVE  IsFrame(p, t, [regs |-> "own", result |-> FALSE, depth |-> Len(s)], top \o s)
  <1>1. PICK c, n : c = RegisterContext[p] /\ n = Len(c) /\ IsLayout(p, c)
    BY Layouts
  <1>2. n \in Nat /\ c \in Seq(Int) /\ DOMAIN c = 1 .. n
    BY <1>1 DEF IsLayout
  <1>3. Saves[p][kind].stack = c
    BY <1>1, FramesAssumption DEF FramesMatch
  <1>4. top = [i \in 1 .. n |-> Found("own", t, c[i])]
    BY <1>2, <1>3 DEF Found
  <1>5. top \in [1 .. n -> Values]
    BY <1>2, <1>4, FoundIsValue
  <1>6. /\ top \o s \in Seq(Values) /\ Len(top \o s) = n + Len(s)
        /\ \A i \in 1 .. n : (top \o s)[i] = top[i]
    <2>1. n \in Nat /\ top \in [1 .. n -> Values] /\ s \in Seq(Values)
      BY <1>2, <1>5
    <2>2. top \o s \in Seq(Values)
      BY <2>1, PutsOn
    <2>3. Len(top \o s) = n + Len(s)
      BY <2>1, PutsOn
    <2>4. \A i \in 1 .. n : (top \o s)[i] = top[i]
      BY <2>1, PutsOn
    <2> QED
      BY <2>2, <2>3, <2>4
  <1> QED
    BY <1>1, <1>4, <1>6 DEF IsFrame

\* Writing the context where it is leaves the stack below it.
LEMMA SetIsFrame ==
    ASSUME NEW p \in AllPorts, NEW t \in Tids, NEW d \in Nat, NEW s \in Seq(Values),
           Len(s) = Len(RegisterContext[p]) + d, NEW top,
           top = [i \in DOMAIN RegisterContext[p] |-> Set(t, RegisterContext[p][i])]
    PROVE  IsFrame(p, t, [regs |-> "set", result |-> FALSE, depth |-> d],
                   top \o SubSeq(s, Len(RegisterContext[p]) + 1, Len(s)))
  <1>1. PICK c, n : c = RegisterContext[p] /\ n = Len(c) /\ IsLayout(p, c)
    BY Layouts
  <1>2. n \in Nat /\ c \in Seq(Int) /\ DOMAIN c = 1 .. n
    BY <1>1 DEF IsLayout
  <1>3. PICK b : b = SubSeq(s, n + 1, Len(s))
    OBVIOUS
  <1>4. b \in Seq(Values) /\ Len(b) = d
    BY <1>1, <1>2, <1>3, RestOf
  <1>5. top = [i \in 1 .. n |-> Found("set", t, c[i])]
    BY <1>1, <1>2 DEF Found
  <1>6. top \in [1 .. n -> Values]
    BY <1>2, <1>5, FoundIsValue
  <1>7. /\ top \o b \in Seq(Values) /\ Len(top \o b) = n + d
        /\ \A i \in 1 .. n : (top \o b)[i] = top[i]
    <2>1. n \in Nat /\ top \in [1 .. n -> Values] /\ b \in Seq(Values)
      BY <1>2, <1>4, <1>6
    <2>2. top \o b \in Seq(Values)
      BY <2>1, PutsOn
    <2>3. Len(top \o b) = n + Len(b)
      BY <2>1, PutsOn
    <2>4. \A i \in 1 .. n : (top \o b)[i] = top[i]
      BY <2>1, PutsOn
    <2> QED
      BY <2>2, <2>3, <2>4, <1>4
  <1> QED
    BY <1>1, <1>3, <1>5, <1>7 DEF IsFrame

\* The result of a call goes where the first argument was.
LEMMA ResultIsFrame ==
    ASSUME NEW p \in AllPorts, NEW t, NEW regs0, NEW d \in Nat, NEW s, NEW b \in BOOLEAN,
           IsFrame(p, t, [regs |-> regs0, result |-> FALSE, depth |-> d], s)
    PROVE  IsFrame(p, t, [regs |-> regs0, result |-> b, depth |-> d],
                   IF b THEN [s EXCEPT ![Field[p][0]] = Result] ELSE s)
  <1>1. PICK c, n : c = RegisterContext[p] /\ n = Len(c) /\ IsLayout(p, c)
    BY Layouts
  <1>2. n \in Nat /\ Field[p][0] \in 1 .. n
    BY <1>1 DEF IsLayout
  <1>3. /\ s \in Seq(Values) /\ Len(s) = n + d
        /\ \A i \in 1 .. n : s[i] = Found(regs0, t, c[i])
    BY <1>1 DEF IsFrame
  <1>4. CASE b = FALSE
    BY <1>1, <1>3, <1>4 DEF IsFrame
  <1>5. CASE b = TRUE
    <2>1. PICK a, s2 : a = Field[p][0] /\ s2 = [s EXCEPT ![a] = Result]
      OBVIOUS
    <2>2. Result \in Values /\ DOMAIN s = 1 .. n + d /\ a \in 1 .. n + d
      BY <1>2, <1>3, <2>1 DEF Values
    <2>3. s2 \in [1 .. n + d -> Values]
      BY <1>3, <2>1, <2>2
    <2>4. s2 \in Seq(Values) /\ Len(s2) = n + d
      BY <1>2, <2>3, SeqDef, LenProperties
    <2>5. \A i \in 1 .. n : s2[i] = IF i = a THEN Result ELSE Found(regs0, t, c[i])
      <3>1. 1 .. n \subseteq 1 .. n + d
        BY <1>2
      <3> QED
        BY <1>3, <2>1, <2>2, <3>1
    <2> QED
      BY <1>1, <1>5, <2>1, <2>4, <2>5 DEF IsFrame
  <1> QED
    BY <1>4, <1>5

----------------------------------------------------------------------------
(* Registers: the steps.                                                   *)

\* The programs of arm do not use the timer, whose interrupt pushes the wrong
\* status word there.
NoTimerOnArm == "arm" \notin TimerPorts

\* The inductive invariant: a thread that has the processor has in its registers
\* what it left in them, and every other one has it in a context on its stack.
RegistersInv ==
    /\ port \in AllPorts
    /\ timer => port # "arm"
    /\ next_thread = NULL
    /\ left \in [Tids -> LeftRecords]
    /\ DOMAIN regs = AllRegisters[port]
    /\ kernel = "up" =>
          /\ current \in Tids /\ DOMAIN stack = Tids
          /\ IsOn(port, current, left[current], regs, stack[current])
          /\ \A t \in Tids \ {current} : IsFrame(port, t, left[t], stack[t])
    /\ kernel = "boot" =>
          /\ stack = [t \in Tids |-> init_register_context(port)]
          /\ left = [t \in Tids |-> [regs |-> "new", result |-> FALSE, depth |-> 0]]

\* load_next_thread puts a thread on the processor, and leaves the others.
LEMMA LoadedGoesOn ==
    ASSUME port \in AllPorts, DOMAIN regs = AllRegisters[port], NEW frames, DOMAIN frames = Tids,
           NEW lefts \in [Tids -> LeftRecords],
           \A t \in Tids : IsFrame(port, t, lefts[t], frames[t]),
           current' \in Tids, NEW r, Loaded(r, frames, Restores[port])
    PROVE  /\ next_thread' = NULL
           /\ DOMAIN regs' = AllRegisters[port] /\ DOMAIN stack' = Tids
           /\ IsOn(port, current', lefts[current'], regs', stack'[current'])
           /\ \A t \in Tids \ {current'} : IsFrame(port, t, lefts[t], stack'[t])
  <1>1. PICK n \in Tids : n = current'
    OBVIOUS
  <1>2. PICK p, load : p = port /\ p \in AllPorts /\ load = Restores[p]
    OBVIOUS
  <1>3. regs' = RegsFrom(p, load, r, frames[n])
    BY <1>1, <1>2 DEF Loaded, RegsFrom
  <1>4. stack' = [frames EXCEPT ![n] = Popped(p, load, frames[n])] /\ next_thread' = NULL
    BY <1>1, <1>2 DEF Loaded, Popped, Context
  <1>5. IsOn(p, n, lefts[n], RegsFrom(p, load, r, frames[n]), Popped(p, load, frames[n]))
    BY <1>1, <1>2, RestoredIsOn
  <1>6. DOMAIN regs' = AllRegisters[p] /\ DOMAIN stack' = Tids
    BY <1>3, <1>4 DEF RegsFrom
  <1>7. stack'[n] = Popped(p, load, frames[n]) /\ \A t \in Tids \ {n} : stack'[t] = frames[t]
    BY <1>4
  <1> QED
    BY <1>1, <1>2, <1>3, <1>4, <1>5, <1>6, <1>7

\* What a handler replaces is a context again.
LEMMA ReplacedIsFrame ==
    ASSUME port \in AllPorts, NEW t \in Tids, NEW l \in LeftRecords, NEW s, IsFrame(port, t, l, s),
           NEW by \in {"new", "set"}
    PROVE  IsFrame(port, t, [regs |-> by, result |-> FALSE,
                             depth |-> IF by = "new" THEN 0 ELSE l.depth], Replaced(t, s, by))
  <1>1. CASE by = "new"
    <2>1. Replaced(t, s, by) = init_register_context(port)
      BY <1>1 DEF Replaced
    <2> QED
      BY <1>1, <2>1, NewIsFrame
  <1>2. CASE by = "set"
    <2>1. PICK p, d : p = port /\ d = l.depth /\ d \in Nat /\ p \in AllPorts
      BY DEF LeftRecords
    <2>2. PICK top : top = SetContext(t)
      OBVIOUS
    <2>3. top = [i \in DOMAIN RegisterContext[p] |-> Set(t, RegisterContext[p][i])]
      BY <2>1, <2>2 DEF SetContext, Context
    <2>4. s \in Seq(Values) /\ Len(s) = Len(RegisterContext[p]) + d
      BY <2>1 DEF IsFrame
    <2>5. IsFrame(p, t, [regs |-> "set", result |-> FALSE, depth |-> d],
                  top \o SubSeq(s, Len(RegisterContext[p]) + 1, Len(s)))
      BY <2>1, <2>3, <2>4, SetIsFrame
    <2>6. Replaced(t, s, by) = top \o SubSeq(s, Len(RegisterContext[p]) + 1, Len(s))
      BY <1>2, <2>1, <2>2 DEF Replaced, Context
    <2> QED
      BY <1>2, <2>1, <2>5, <2>6
  <1> QED
    BY <1>1, <1>2

\* What the current thread saves is a context with its registers.
LEMMA CurrentIsFrame ==
    ASSUME port \in AllPorts, NEW kind \in {"svc", "irq"}, ~(port = "arm" /\ kind = "irq"),
           current \in Tids, stack[current] \in Seq(Values)
    PROVE  IsFrame(port, current, [regs |-> "own", result |-> FALSE, depth |-> Len(stack[current])],
                   SavedStack(kind))
  <1>1. PICK p, t, s, c : /\ p = port /\ p \in AllPorts /\ t = current /\ t \in Tids
                          /\ s = stack[current] /\ s \in Seq(Values)
                          /\ c = Saves[p][kind].stack
    OBVIOUS
  <1>2. PICK top : top = [i \in DOMAIN c |-> Own(t, c[i])]
    OBVIOUS
  <1>3. IsFrame(p, t, [regs |-> "own", result |-> FALSE, depth |-> Len(s)], top \o s)
    BY <1>1, <1>2, SavedIsFrame
  <1>4. c = RegisterContext[p]
    BY <1>1, FramesAssumption DEF FramesMatch
  <1>5. \A i \in DOMAIN c : c[i] \in UserRegisters[p]
    <2>1. IsLayout(p, c)
      BY <1>1, <1>4, Layouts
    <2>2. DOMAIN c = 1 .. Len(c)
      BY <2>1 DEF IsLayout
    <2> QED
      BY <2>1, <2>2 DEF IsLayout
  <1>6. \A i \in DOMAIN c : Entering(c[i]) = Own(t, c[i])
    BY <1>1, <1>5 DEF Entering, IsUser
  <1>7. SavedStack(kind) = [i \in DOMAIN c |-> Entering(c[i])] \o s
    BY <1>1 DEF SavedStack
  <1>8. SavedStack(kind) = top \o s
    BY <1>2, <1>6, <1>7
  <1> QED
    BY <1>1, <1>3, <1>8

\* How a thread whose context is replaced is said to have left.
LEMMA ReplacedRecord ==
    ASSUME NEW l \in LeftRecords, NEW by, NEW b, NEW e
    PROVE  [l EXCEPT !.regs = by, !.result = b, !.depth = e]
               = [regs |-> by, result |-> b, depth |-> e]
  <1>1. PICK x, y, d : l = [regs |-> x, result |-> y, depth |-> d]
    BY DEF LeftRecords
  <1>2. [l EXCEPT !.regs = by] = [regs |-> by, result |-> y, depth |-> d]
    BY <1>1
  <1>3. [[regs |-> by, result |-> y, depth |-> d] EXCEPT !.result = b]
            = [regs |-> by, result |-> b, depth |-> d]
    OBVIOUS
  <1>4. [[regs |-> by, result |-> b, depth |-> d] EXCEPT !.depth = e]
            = [regs |-> by, result |-> b, depth |-> e]
    OBVIOUS
  <1> QED
    BY <1>1, <1>2, <1>3, <1>4


\* How thread t is said to have left, after the current thread c has entered
\* the kernel with a stack of depth d and the handler has replaced the contexts
\* of changed.
LeftBy(c, d, result, changed, lefts, t) ==
    LET l == IF t = c THEN [regs |-> "own", result |-> result, depth |-> d] ELSE lefts[t]
    IN  IF t \in DOMAIN changed
        THEN [regs |-> changed[t], result |-> result /\ t = c,
              depth |-> IF changed[t] = "new" THEN 0 ELSE l.depth]
        ELSE l

\* A handler is called with results and replaced contexts of the threads.
Replaces(changed) ==
    DOMAIN changed \subseteq Tids /\ \A t \in DOMAIN changed : changed[t] \in {"new", "set"}

\* The records that an entry into the kernel leaves.
LEMMA EntryRecords ==
    ASSUME left \in [Tids -> LeftRecords], current \in Tids, NEW d \in Nat, d = Len(stack[current]),
           NEW kind, NEW result \in BOOLEAN, NEW changed, Replaces(changed),
           KernelEntry(kind, result, changed)
    PROVE  /\ left' = [t \in Tids |-> LeftBy(current, d, result, changed, left, t)]
           /\ left' \in [Tids -> LeftRecords]
  <1>1. PICK c, lefts : c = current /\ c \in Tids /\ lefts = left /\ lefts \in [Tids -> LeftRecords]
    OBVIOUS
  <1>2. PICK own : own = [regs |-> "own", result |-> result, depth |-> d] /\ own \in LeftRecords
    BY DEF LeftRecords
  <1>3. PICK entered : entered = [lefts EXCEPT ![c] = own]
    OBVIOUS
  <1>4. \A t \in Tids : /\ entered[t] = IF t = c THEN own ELSE lefts[t]
                        /\ entered[t] \in LeftRecords
    BY <1>1, <1>2, <1>3
  <1>5. left' = [t \in Tids |->
                    IF t \in DOMAIN changed
                    THEN [entered[t] EXCEPT !.regs = changed[t], !.result = result /\ t = c,
                              !.depth = IF changed[t] = "new" THEN 0 ELSE @]
                    ELSE entered[t]]
    BY <1>1, <1>2, <1>3 DEF KernelEntry
  <1>6. ASSUME NEW t \in Tids
        PROVE  /\ left'[t] = LeftBy(c, d, result, changed, lefts, t)
               /\ left'[t] \in LeftRecords
    <2>1. PICK l : l = entered[t] /\ l \in LeftRecords
      BY <1>4
    <2>2. l = IF t = c THEN [regs |-> "own", result |-> result, depth |-> d] ELSE lefts[t]
      BY <1>2, <1>4, <2>1
    <2>3. CASE t \in DOMAIN changed
      <3>1. PICK by, b, e : /\ by = changed[t] /\ by \in {"new", "set"}
                            /\ b = (result /\ t = c) /\ b \in BOOLEAN
                            /\ e = (IF by = "new" THEN 0 ELSE l.depth) /\ e \in Nat
        BY <2>1, <2>3 DEF Replaces, LeftRecords
      <3>2. left'[t] = [l EXCEPT !.regs = by, !.result = b, !.depth = e]
        BY <1>5, <2>1, <2>3, <3>1
      <3>3. left'[t] = [regs |-> by, result |-> b, depth |-> e]
        <4>1. [l EXCEPT !.regs = by, !.result = b, !.depth = e]
                  = [regs |-> by, result |-> b, depth |-> e]
          <5>1. l \in LeftRecords
            BY <2>1
          <5> QED
            BY ONLY <5>1, ReplacedRecord
        <4> QED
          BY <3>2, <4>1
      <3>4. left'[t] = LeftBy(c, d, result, changed, lefts, t)
        BY <2>2, <2>3, <3>1, <3>3 DEF LeftBy
      <3>5. left'[t] \in LeftRecords
        BY <2>1, <3>1, <3>3 DEF LeftRecords
      <3> QED
        BY <3>4, <3>5
    <2>4. CASE t \notin DOMAIN changed
      BY <1>5, <2>1, <2>2, <2>4 DEF LeftBy
    <2> QED
      BY <2>3, <2>4
  <1>7. DOMAIN left' = Tids /\ left' = [t \in Tids |-> left'[t]]
    BY <1>5
  <1> QED
    BY <1>1, <1>6, <1>7

\* The frames of the threads when load_next_thread starts.
EntryFrames(kind, result, changed) ==
    LET frames == [stack EXCEPT ![current] = SavedStack(kind)]
        handled == [t \in Tids |-> IF t \in DOMAIN changed
                                   THEN Replaced(t, frames[t], changed[t]) ELSE frames[t]]
    IN  [handled EXCEPT ![current] = WithResult(@, result)]

\* Each of them is a context with what its thread left.
LEMMA EntryIsFrames ==
    ASSUME RegistersInv, kernel = "up", NEW d \in Nat, d = Len(stack[current]),
           NEW kind \in {"svc", "irq"}, ~(port = "arm" /\ kind = "irq"),
           NEW result \in BOOLEAN, NEW changed, Replaces(changed)
    PROVE  /\ DOMAIN EntryFrames(kind, result, changed) = Tids
           /\ \A t \in Tids : IsFrame(port, t, LeftBy(current, d, result, changed, left, t),
                                      EntryFrames(kind, result, changed)[t])
  <1>1. PICK p, c, lefts : /\ p = port /\ p \in AllPorts /\ c = current /\ c \in Tids
                           /\ lefts = left /\ lefts \in [Tids -> LeftRecords]
    BY DEF RegistersInv
  <1>2. PICK saved : saved = SavedStack(kind)
    OBVIOUS
  <1>3. DOMAIN stack = Tids /\ stack[c] \in Seq(Values)
    BY <1>1 DEF RegistersInv, IsOn
  <1>4. PICK own : own = [regs |-> "own", result |-> FALSE, depth |-> d]
    OBVIOUS
  <1>14. own \in LeftRecords
    BY <1>4 DEF LeftRecords
  <1>5. IsFrame(p, c, own, saved)
    <2>1. current \in Tids /\ stack[current] \in Seq(Values) /\ port \in AllPorts
      BY DEF RegistersInv, IsOn
    <2>2. IsFrame(port, current, [regs |-> "own", result |-> FALSE, depth |-> Len(stack[current])],
                  SavedStack(kind))
      BY <2>1, CurrentIsFrame
    <2> QED
      BY <1>1, <1>2, <1>4, <2>2
  <1>6. PICK frames : frames = [stack EXCEPT ![c] = saved]
    OBVIOUS
  <1>7. frames[c] = saved /\ \A t \in Tids \ {c} : frames[t] = stack[t]
    BY <1>1, <1>3, <1>6
  <1>8. PICK handled : handled = [t \in Tids |-> IF t \in DOMAIN changed
                                                 THEN Replaced(t, frames[t], changed[t])
                                                 ELSE frames[t]]
    OBVIOUS
  <1>9. EntryFrames(kind, result, changed) = [handled EXCEPT ![c] = WithResult(handled[c], result)]
    BY <1>1, <1>2, <1>6, <1>8 DEF EntryFrames
  <1>10. PICK f : f = EntryFrames(kind, result, changed)
    OBVIOUS
  <1>11. /\ DOMAIN f = Tids
         /\ f[c] = WithResult(handled[c], result)
         /\ \A t \in Tids \ {c} : f[t] = handled[t]
    BY <1>1, <1>8, <1>9, <1>10
  <1>12. IsFrame(p, c, LeftBy(c, d, result, changed, lefts, c), f[c])
    <2>1. PICK by, e : /\ e \in Nat
                       /\ IsFrame(p, c, [regs |-> by, result |-> FALSE, depth |-> e], handled[c])
                       /\ LeftBy(c, d, result, changed, lefts, c)
                              = [regs |-> by, result |-> result, depth |-> e]
      <3>1. CASE c \in DOMAIN changed
        <4>1. PICK by, e : /\ by = changed[c] /\ by \in {"new", "set"}
                           /\ e = (IF by = "new" THEN 0 ELSE d) /\ e \in Nat
          BY <3>1 DEF Replaces
        <4>2. handled[c] = Replaced(c, saved, by)
          BY <1>1, <1>7, <1>8, <3>1, <4>1
        <4>3. own.depth = d
          BY <1>4
        <4>4. IsFrame(p, c, [regs |-> by, result |-> FALSE,
                             depth |-> IF by = "new" THEN 0 ELSE own.depth], Replaced(c, saved, by))
          BY <1>1, <1>4, <1>14, <1>5, <4>1, ReplacedIsFrame
        <4>5. LeftBy(c, d, result, changed, lefts, c)
                  = [regs |-> by, result |-> result, depth |-> e]
          BY <3>1, <4>1 DEF LeftBy
        <4> QED
          BY <4>1, <4>2, <4>3, <4>4, <4>5
      <3>2. CASE c \notin DOMAIN changed
        <4>1. handled[c] = saved
          BY <1>1, <1>7, <1>8, <3>2
        <4>2. LeftBy(c, d, result, changed, lefts, c)
                  = [regs |-> "own", result |-> result, depth |-> d]
          BY <3>2 DEF LeftBy
        <4> QED
          BY <1>4, <1>5, <4>1, <4>2
      <3> QED
        BY <3>1, <3>2
    <2>2. PICK s : s = handled[c]
      OBVIOUS
    <2>3. IsFrame(p, c, [regs |-> by, result |-> result, depth |-> e],
                  IF result THEN [s EXCEPT ![Field[p][0]] = Result] ELSE s)
      BY <1>1, <2>1, <2>2, ResultIsFrame
    <2>4. f[c] = IF result THEN [s EXCEPT ![Field[p][0]] = Result] ELSE s
      BY <1>1, <1>11, <2>2 DEF WithResult, arg0
    <2> QED
      BY <2>1, <2>3, <2>4
  <1>13. ASSUME NEW t \in Tids \ {c}
         PROVE  IsFrame(p, t, LeftBy(c, d, result, changed, lefts, t), f[t])
    <2>1. PICK l, s : l = lefts[t] /\ l \in LeftRecords /\ s = stack[t]
      BY <1>1
    <2>2. IsFrame(p, t, l, s)
      BY <1>1, <2>1 DEF RegistersInv
    <2>3. CASE t \in DOMAIN changed
      <3>1. PICK by : by = changed[t] /\ by \in {"new", "set"}
        BY <2>3 DEF Replaces
      <3>2. f[t] = Replaced(t, s, by)
        BY <1>7, <1>8, <1>11, <2>1, <2>3, <3>1
      <3>3. IsFrame(p, t, [regs |-> by, result |-> FALSE,
                           depth |-> IF by = "new" THEN 0 ELSE l.depth], Replaced(t, s, by))
        BY <1>1, <2>1, <2>2, <3>1, ReplacedIsFrame
      <3>4. (result /\ t = c) = FALSE
        OBVIOUS
      <3>5. LeftBy(c, d, result, changed, lefts, t)
                = [regs |-> by, result |-> FALSE, depth |-> IF by = "new" THEN 0 ELSE l.depth]
        BY <2>1, <2>3, <3>1, <3>4 DEF LeftBy
      <3> QED
        BY <3>2, <3>3, <3>5
    <2>4. CASE t \notin DOMAIN changed
      <3>1. f[t] = s
        BY <1>7, <1>8, <1>11, <2>1, <2>4
      <3>2. LeftBy(c, d, result, changed, lefts, t) = l
        BY <2>1, <2>4 DEF LeftBy
      <3> QED
        BY <2>2, <3>1, <3>2
    <2> QED
      BY <2>3, <2>4
  <1> QED
    BY <1>1, <1>10, <1>11, <1>12, <1>13

\* An exception, with whatever its handler does, keeps the invariant.
LEMMA EntryKeeps ==
    ASSUME RegistersInv, kernel = "up",
           NEW kind \in {"svc", "irq"}, ~(port = "arm" /\ kind = "irq"),
           NEW result \in BOOLEAN, NEW changed, Replaces(changed),
           KernelEntry(kind, result, changed),
           kernel' # "boot", kernel' = "up" => current' \in Tids, timer' => port # "arm"
    PROVE  RegistersInv'
  <1>1. PICK d \in Nat : d = Len(stack[current])
    BY DEF RegistersInv, IsOn, LeftRecords
  <1>2. PICK lefts : lefts = [t \in Tids |-> LeftBy(current, d, result, changed, left, t)]
    OBVIOUS
  <1>3. current \in Tids /\ left \in [Tids -> LeftRecords]
    BY DEF RegistersInv
  <1>4. left' = lefts /\ lefts \in [Tids -> LeftRecords]
    BY <1>1, <1>2, <1>3, EntryRecords
  <1>5. PICK frames : frames = EntryFrames(kind, result, changed)
    OBVIOUS
  <1>6. DOMAIN frames = Tids /\ \A t \in Tids : IsFrame(port, t, lefts[t], frames[t])
    BY <1>1, <1>2, <1>5, EntryIsFrames
  <1>7. port' = port /\ port \in AllPorts /\ DOMAIN regs = AllRegisters[port] /\ next_thread = NULL
    BY DEF RegistersInv, KernelEntry
  <1>8. CASE kernel' = "up"
    <2>1. PICK r : r = KernelRegs(kind)
      OBVIOUS
    <2>2. Loaded(r, frames, Restores[port])
      BY <1>5, <1>8, <2>1 DEF KernelEntry, EntryFrames
    <2>3. current' \in Tids
      BY <1>8
    <2>4. next_thread' = NULL /\ DOMAIN regs' = AllRegisters[port] /\ DOMAIN stack' = Tids
      BY <1>4, <1>6, <1>7, <2>2, <2>3, LoadedGoesOn
    <2>5. IsOn(port, current', lefts[current'], regs', stack'[current'])
      BY <1>4, <1>6, <1>7, <2>2, <2>3, LoadedGoesOn
    <2>6. \A t \in Tids \ {current'} : IsFrame(port, t, lefts[t], stack'[t])
      BY <1>4, <1>6, <1>7, <2>2, <2>3, LoadedGoesOn
    <2> QED
      BY <1>4, <1>7, <1>8, <2>3, <2>4, <2>5, <2>6 DEF RegistersInv
  <1>9. CASE kernel' # "up"
    <2>1. UNCHANGED <<regs, stack, next_thread>>
      BY <1>9 DEF KernelEntry
    <2> QED
      BY <1>4, <1>7, <1>9, <2>1 DEF RegistersInv
  <1> QED
    BY <1>8, <1>9


\* A switch puts one of the threads on the processor, or ends the run.
LEMMA SwitchesToThread ==
    ASSUME NEW ids, NEW st, NEW to, do_scheduler(ids, st, to)
    PROVE  kernel' # "boot" /\ (kernel' = "up" => current' \in Tids)
  BY DEF do_scheduler, SwitchTo

\* A value of left.
IsLeft(lefts) == lefts \in [Tids -> LeftRecords]

\* How the first thread of thumb is said to have left.
LEMMA FirstRecord ==
    ASSUME NEW lefts \in [Tids -> LeftRecords], NEW n, NEW d \in Nat, NEW g,
           g = [lefts EXCEPT ![n].regs = "first", ![n].depth = d]
    PROVE  /\ IsLeft(g)
           /\ n \in Tids => g[n] = [regs |-> "first", result |-> lefts[n].result, depth |-> d]
           /\ \A t \in Tids \ {n} : g[t] = lefts[t]
  <1>1. PICK f : f = [lefts EXCEPT ![n].regs = "first"]
    OBVIOUS
  <1>2. g = [f EXCEPT ![n].depth = d]
    BY <1>1
  <1>4. DOMAIN f = Tids /\ DOMAIN g = Tids
    BY <1>1, <1>2
  <1>5. \A t \in Tids \ {n} : g[t] = lefts[t]
    BY <1>1, <1>2, <1>4
  <1>6. ASSUME n \in Tids
        PROVE  g[n] = [regs |-> "first", result |-> lefts[n].result, depth |-> d]
    <2>1. PICK l \in LeftRecords : l = lefts[n]
      BY <1>6
    <2>2. PICK x, y, z : l = [regs |-> x, result |-> y, depth |-> z]
      BY <2>1 DEF LeftRecords
    <2>3. f[n] = [l EXCEPT !.regs = "first"]
      BY <1>1, <1>6, <2>1
    <2>4. f[n] = [regs |-> "first", result |-> y, depth |-> z]
      BY <2>2, <2>3
    <2>5. g[n] = [f[n] EXCEPT !.depth = d]
      BY <1>2, <1>4, <1>6
    <2>6. g[n] = [regs |-> "first", result |-> y, depth |-> d]
      BY <2>4, <2>5
    <2> QED
      BY <2>1, <2>2, <2>6
  <1>7. \A t \in Tids : g[t] \in LeftRecords
    <2>1. n \in Tids => lefts[n].result \in BOOLEAN
      BY DEF LeftRecords
    <2>2. n \in Tids => g[n] \in LeftRecords
      BY <1>6, <2>1 DEF LeftRecords
    <2> QED
      BY <1>5, <2>2
  <1>8. g = [t \in Tids |-> g[t]]
    BY <1>1, <1>2
  <1>9. g \in [Tids -> LeftRecords]
    BY <1>7, <1>8
  <1> QED
    BY <1>5, <1>6, <1>9 DEF IsLeft

\* The first thread is started.
LEMMA FirstKeeps ==
    ASSUME RegistersInv, FirstLoad
    PROVE  RegistersInv'
  <1>1. /\ port' = port /\ port \in AllPorts /\ DOMAIN regs = AllRegisters[port]
        /\ kernel = "boot" /\ timer' = timer /\ (timer => port # "arm")
    BY DEF RegistersInv, FirstLoad, Boot, config
  <1>2. kernel' # "boot" /\ (kernel' = "up" => current' \in Tids)
    BY SwitchesToThread DEF FirstLoad, Boot
  <1>3. PICK p, s, lefts : p = port /\ s = stack /\ lefts = left
    OBVIOUS
  <1>4. /\ DOMAIN s = Tids /\ lefts \in [Tids -> LeftRecords]
        /\ \A t \in Tids : /\ lefts[t] = [regs |-> "new", result |-> FALSE, depth |-> 0]
                           /\ s[t] = init_register_context(p)
    BY <1>1, <1>3 DEF RegistersInv
  <1>5. \A t \in Tids : IsFrame(p, t, lefts[t], s[t])
    BY <1>1, <1>3, <1>4, NewIsFrame
  <1>6. PICK r : r = [regs EXCEPT ![PC] = thread_start]
    OBVIOUS
  <1>7. Loaded(r, s, FirstRestores[p])
    BY <1>3, <1>6 DEF FirstLoad
  <1>8. next_thread' = NULL /\ DOMAIN regs' = AllRegisters[p]
    BY <1>1, <1>3, <1>7 DEF Loaded
  <1>9. CASE p # "thumb"
    <2>1. FirstRestores[p] = Restores[p] /\ left' = lefts
      BY <1>1, <1>3, <1>9, FramesAssumption DEF FramesMatch, FirstLoad
    <2>2. CASE kernel' = "up"
      <3>1. Loaded(r, s, Restores[port]) /\ current' \in Tids
        BY <1>2, <1>3, <1>7, <2>1, <2>2
      <3>2. \A t \in Tids : IsFrame(port, t, lefts[t], s[t])
        BY <1>3, <1>5
      <3>3. DOMAIN stack' = Tids
        BY <1>1, <1>4, <3>1, <3>2, LoadedGoesOn
      <3>4. IsOn(port, current', lefts[current'], regs', stack'[current'])
        BY <1>1, <1>4, <3>1, <3>2, LoadedGoesOn
      <3>5. \A t \in Tids \ {current'} : IsFrame(port, t, lefts[t], stack'[t])
        BY <1>1, <1>4, <3>1, <3>2, LoadedGoesOn
      <3> QED
        BY <1>1, <1>3, <1>4, <1>8, <2>1, <2>2, <3>1, <3>3, <3>4, <3>5 DEF RegistersInv
    <2>3. CASE kernel' # "up"
      BY <1>1, <1>2, <1>3, <1>4, <1>8, <2>1, <2>3 DEF RegistersInv
    <2> QED
      BY <2>2, <2>3
  <1>10. CASE p = "thumb"
    <2>1. PICK load : load = FirstRestores[p]
      OBVIOUS
    <2>2. Len(HardwareFrame) = 8
      BY DEF HardwareFrame
    <2>3. load.regs[PC] = PC /\ Len(load.stack) = 8
      BY <1>1, <1>3, <1>10, <2>1, <2>2, FramesAssumption DEF FramesMatch
    <2>4. PICK n : n = current'
      OBVIOUS
    <2>10. left' = [lefts EXCEPT ![n].regs = "first", ![n].depth = 8]
      BY <1>3, <1>10, <2>2, <2>4 DEF FirstLoad
    <2>5. PICK g : g = left'
      OBVIOUS
    <2>11. g = [lefts EXCEPT ![n].regs = "first", ![n].depth = 8]
      BY ONLY <2>10, <2>5
    <2>6. IsLeft(g)
      <3>1. lefts \in [Tids -> LeftRecords] /\ 8 \in Nat
        BY <1>4
      <3> QED
        BY ONLY <2>11, <3>1, FirstRecord
    <2>9. left' \in [Tids -> LeftRecords]
      BY <2>5, <2>6 DEF IsLeft
    <2>7. CASE kernel' = "up"
      <3>1. n \in Tids
        BY <1>2, <2>4, <2>7
      <3>2. /\ left'[n] = [regs |-> "first", result |-> FALSE, depth |-> 8]
            /\ \A t \in Tids \ {n} : left'[t] = lefts[t]
        <4>1. n \in Tids => g[n] = [regs |-> "first", result |-> lefts[n].result, depth |-> 8]
          BY <1>4, <2>11, FirstRecord
        <4>2. \A t \in Tids \ {n} : g[t] = lefts[t]
          BY <1>4, <2>11, FirstRecord
        <4>3. lefts[n].result = FALSE
          BY <1>4, <3>1
        <4> QED
          BY <2>5, <3>1, <4>1, <4>2, <4>3
      <3>3. PICK c, f : c = RegisterContext[p] /\ IsLayout(p, c) /\ f = s[n]
        BY <1>1, <1>3, Layouts
      <3>4. Len(c) = 16
        BY <1>10, <3>3 DEF RegisterContext, RegisterContextThumb, AllPorts
      <3>5. f \in Seq(Values) /\ Len(f) = 16
        <4>1. PICK l : l = lefts[n] /\ l.depth = 0
          BY <1>4, <3>1
        <4>2. IsFrame(p, n, l, f)
          BY <1>5, <3>1, <3>3, <4>1
        <4> QED
          BY <3>3, <3>4, <4>1, <4>2 DEF IsFrame
      <3>6. stack' = [s EXCEPT ![n] = SubSeq(f, 9, 16)]
        <4>1. 16 - 8 + 1 = 9
          OBVIOUS
        <4>2. stack' = [s EXCEPT ![n] = SubSeq(f, Len(c) - Len(load.stack) + 1, Len(f))]
          BY <1>3, <1>7, <2>1, <2>4, <3>3 DEF Loaded, Context
        <4> QED
          BY <2>3, <3>4, <3>5, <4>1, <4>2
      <3>7. SubSeq(f, 9, 16) \in Seq(Values) /\ Len(SubSeq(f, 9, 16)) = 8
        <4>1. 16 = 8 + 8 /\ 8 + 1 = 9 /\ 8 \in Nat
          OBVIOUS
        <4>2. SubSeq(f, 8 + 1, Len(f)) \in Seq(Values)
          BY <3>5, <4>1, RestOf
        <4>3. Len(SubSeq(f, 8 + 1, Len(f))) = 8
          BY <3>5, <4>1, RestOf
        <4> QED
          BY <3>5, <4>1, <4>2, <4>3
      <3>8. /\ DOMAIN stack' = Tids /\ stack'[n] = SubSeq(f, 9, 16)
            /\ \A t \in Tids \ {n} : stack'[t] = s[t]
        BY <1>4, <3>1, <3>6
      <3>9. regs'[PC] = thread_start
        <4>1. PC \in AllRegisters[p]
          BY <1>1, <1>3, <3>3 DEF IsLayout, AllRegisters
        <4>2. r[PC] = thread_start
          BY <1>1, <1>3, <1>6, <4>1
        <4>3. ~IsWord(PC)
          BY DEF IsWord, PC
        <4> QED
          BY <1>1, <1>3, <1>7, <2>1, <2>3, <4>1, <4>2, <4>3 DEF Loaded
      <3>10. IsOn(p, n, left'[n], regs', stack'[n])
        BY <3>2, <3>7, <3>8, <3>9 DEF IsOn
      <3>11. \A t \in Tids \ {n} : IsFrame(p, t, left'[t], stack'[t])
        BY <1>5, <3>2, <3>8
      <3> QED
        BY <1>1, <1>3, <1>8, <2>4, <2>9, <2>7, <3>1, <3>8, <3>10, <3>11 DEF RegistersInv
    <2>8. CASE kernel' # "up"
      BY <1>1, <1>2, <1>3, <1>8, <2>9, <2>8 DEF RegistersInv
    <2> QED
      BY <2>7, <2>8
  <1> QED
    BY <1>9, <1>10

\* A step that leaves the registers and the processor alone.
LEMMA SameRegisters ==
    ASSUME RegistersInv, UNCHANGED <<registers, current, timer, kernel>>
    PROVE  RegistersInv'
  BY DEF RegistersInv, registers

\* A step of the life of the threads that enters the kernel.
LEMMA StepEnters ==
    ASSUME RegistersInv, NEW c, NEW changed, Replaces(changed),
           kernel = "up", kernel' # "boot", kernel' = "up" => current' \in Tids,
           timer' => port # "arm",
           SystemCall(c, changed) \/ (OtherSvc /\ changed = Nothing)
    PROVE  RegistersInv'
  <1>1. has_result(c) \in BOOLEAN /\ FALSE \in BOOLEAN
    BY DEF has_result
  <1>2. PICK kind, result : /\ kind \in {"svc", "irq"} /\ kind = "svc" /\ result \in BOOLEAN
                            /\ KernelEntry(kind, result, changed)
    BY <1>1 DEF SystemCall, OtherSvc
  <1> QED
    BY <1>2, EntryKeeps

\* Nothing is replaced, or the context of one thread.
LEMMA ReplacedOnes ==
    /\ Replaces(Nothing)
    /\ \A t \in Tids, by \in {"new", "set"} : Replaces(Contexts(t, by))
  BY DEF Replaces, Nothing, Contexts

\* A call of the worker that leaves current_thread and the timer.
LEMMA SetsRegisters ==
    ASSUME RegistersInv, NEW tid \in Tids \cup {CURRENT_THREAD}, SetRegisters(tid)
    PROVE  RegistersInv'
  <1>1. Target(tid) \in Tids /\ kernel = "up" /\ current \in Tids
    BY DEF RegistersInv, SetRegisters, is_valid_thread, Syscall, AtStage
  <1>2. PICK t \in Tids : t = Target(tid)
    BY <1>1
  <1>3. Replaces(Contexts(t, "set"))
    BY ReplacedOnes
  <1>4. PICK changed : changed = Contexts(t, "set")
    OBVIOUS
  <1>5. Replaces(changed)
    BY <1>3, <1>4
  <1> QED
    BY <1>1, <1>2, <1>4, <1>5, StepEnters DEF SetRegisters, vars, RegistersInv

\* Every step of the threads keeps the invariant.
LEMMA RegistersStep ==
    ASSUME NoTimerOnArm, RegistersInv, [JoinNext]_joinVars
    PROVE  RegistersInv'
  <1>1. CASE UNCHANGED joinVars
    BY <1>1, SameRegisters DEF joinVars, progress, vars
  <1>2. ASSUME NEW t \in Tids, CallJoin(t)
        PROVE  RegistersInv'
    BY <1>2, SameRegisters DEF CallJoin, vars
  <1>3. ASSUME NEW t \in Tids, Create(t)
        PROVE  RegistersInv'
    <2>1. CASE FirstLoad
      BY <2>1, FirstKeeps
    <2>2. ASSUME NEW remove \in RemoveSets, AddThread(remove),
                 SystemCall("add_thread", Contexts(t, "new"))
          PROVE  RegistersInv'
      <3>1. /\ kernel = "up" /\ kernel' = "up" /\ current' = current /\ current \in Tids
            /\ timer' = timer /\ (timer => port # "arm")
        BY <2>2 DEF AddThread, Syscall, AtStage, RegistersInv, config
      <3>2. Replaces(Contexts(t, "new"))
        BY ReplacedOnes
      <3>3. PICK changed : changed = Contexts(t, "new")
        OBVIOUS
      <3> QED
        BY <2>2, <3>1, <3>2, <3>3, StepEnters
    <2> QED
      BY <1>3, <2>1, <2>2 DEF Create
  <1>4. ASSUME kernel = "up", timer' => timer, do_scheduler(id, state, NULL),
               NEW c, SystemCall(c, Nothing) \/ OtherSvc
        PROVE  RegistersInv'
    <2>1. kernel' # "boot" /\ (kernel' = "up" => current' \in Tids)
      BY <1>4, SwitchesToThread
    <2>2. timer' => port # "arm"
      BY <1>4 DEF RegistersInv
    <2>3. PICK changed : changed = Nothing
      OBVIOUS
    <2> QED
      BY <1>4, <2>1, <2>2, <2>3, ReplacedOnes, StepEnters
  <1>5. CASE Yields \/ JoinYield
    <2>1. YieldAny /\ SystemCall("yield", Nothing)
      BY <1>5 DEF Yields, JoinYield, YieldAgain
    <2>2. kernel = "up" /\ timer' = timer /\ do_scheduler(id, state, NULL)
      BY <2>1 DEF YieldAny, Syscall, AtStage, config
    <2> QED
      BY <1>4, <2>1, <2>2
  <1>6. CASE ReadState
    <2>1. /\ kernel = "up" /\ kernel' = "up" /\ current' = current /\ current \in Tids
          /\ timer' = timer /\ (timer => port # "arm") /\ SystemCall("get_property", Nothing)
      BY <1>6 DEF ReadState, CheckState, Doing, RegistersInv, vars
    <2>2. PICK changed : changed = Nothing
      OBVIOUS
    <2> QED
      BY <2>1, <2>2, ReplacedOnes, StepEnters
  <1>7. CASE WorkerReturns \/ (SetFinished /\ UNCHANGED registers)
    <2>1. UNCHANGED <<registers, current, timer, kernel>>
      BY <1>7 DEF WorkerReturns, CleanupThread, SetFinished, config
    <2> QED
      BY <2>1, SameRegisters
  <1>8. CASE Halted /\ UNCHANGED registers
    BY <1>8, SameRegisters DEF Halted, vars
  <1>9. CASE YieldAsm /\ OtherSvc
    <2>1. kernel = "up" /\ timer' = timer /\ do_scheduler(id, state, NULL)
      BY <1>9 DEF YieldAsm, AtStage, config
    <2> QED
      BY <1>4, <1>9, <2>1
  <1>10. ASSUME NEW armed \in BOOLEAN, ArmTimer(armed)
         PROVE  RegistersInv'
    <2>1. /\ kernel = "up" /\ kernel' = "up" /\ current' = current /\ current \in Tids
          /\ OtherSvc
      BY <1>10 DEF ArmTimer, SetTimer, Syscall, AtStage, RegistersInv
    <2>2. port # "arm"
      BY <1>10 DEF ArmTimer, NoTimerOnArm
    <2>3. PICK changed : changed = Nothing
      OBVIOUS
    <2> QED
      BY <2>1, <2>2, <2>3, ReplacedOnes, StepEnters
  <1>11. ASSUME NEW t \in Tids, ThreadCancel(t), SystemCall("cancel", Nothing)
         PROVE  RegistersInv'
    <2>1. kernel = "up" /\ timer' = timer /\ current \in Tids /\ (timer => port # "arm")
      BY <1>11 DEF ThreadCancel, Syscall, AtStage, RegistersInv, config
    <2>2. kernel' # "boot" /\ (kernel' = "up" => current' \in Tids)
      BY <1>11, <2>1, SwitchesToThread DEF ThreadCancel
    <2>3. PICK changed : changed = Nothing
      OBVIOUS
    <2> QED
      BY <1>11, <2>1, <2>2, <2>3, ReplacedOnes, StepEnters
  <1>12. ASSUME NEW remove \in RemoveSets, Restart(remove),
                SystemCall("restart", Contexts(current, "new"))
         PROVE  RegistersInv'
    <2>1. /\ kernel = "up" /\ kernel' = "up" /\ current' = current /\ current \in Tids
          /\ timer' = timer /\ (timer => port # "arm")
      BY <1>12 DEF Restart, Syscall, AtStage, RegistersInv, config
    <2>2. PICK t \in Tids : t = current
      BY <2>1
    <2>3. Replaces(Contexts(t, "new"))
      BY ReplacedOnes
    <2>4. PICK changed : changed = Contexts(t, "new")
      OBVIOUS
    <2> QED
      BY <1>12, <2>1, <2>2, <2>3, <2>4, StepEnters
  <1>13. ASSUME NEW tid \in Tids \cup {CURRENT_THREAD}, SetRegisters(tid)
         PROVE  RegistersInv'
    BY <1>13, SetsRegisters
  <1>14. CASE TimerInterrupt
    <2>1. /\ kernel = "up" /\ port # "arm" /\ next_thread = NULL
          /\ KernelEntry("irq", FALSE, Nothing) /\ do_scheduler(id, state, NULL)
      BY <1>14 DEF TimerInterrupt, SysTick, Tick, RegistersInv
    <2>2. kernel' # "boot" /\ (kernel' = "up" => current' \in Tids)
      BY <2>1, SwitchesToThread
    <2>3. PICK changed, kind, result : /\ changed = Nothing /\ kind = "irq" /\ result = FALSE
                                       /\ kind \in {"svc", "irq"} /\ result \in BOOLEAN
      OBVIOUS
    <2> QED
      BY <2>1, <2>2, <2>3, ReplacedOnes, EntryKeeps
  <1>15. CASE \E t \in Tids : CallJoin(t) \/ Create(t)
    BY <1>2, <1>3, <1>15
  <1>16. CASE WorkerStep
    BY <1>5, <1>7, <1>10, <1>11, <1>12, <1>13, <1>16 DEF WorkerStep
  <1>17. CASE Ends
    BY <1>7, <1>9, <1>17 DEF Ends
  <1> QED
    BY <1>1, <1>5, <1>6, <1>8, <1>14, <1>15, <1>16, <1>17 DEF JoinNext


\* The invariant when the kernel starts.
LEMMA RegistersStart == JoinInit => RegistersInv
  <1>1. SUFFICES ASSUME JoinInit PROVE RegistersInv
    OBVIOUS
  <1>2. port \in AllPorts /\ timer = FALSE /\ kernel = "boot" /\ next_thread = NULL
    BY <1>1, PortsAssumption DEF JoinInit, Init, RegistersInit
  <1>3. DOMAIN regs = AllRegisters[port]
    BY <1>1 DEF JoinInit, RegistersInit
  <1>4. /\ stack = [t \in Tids |-> init_register_context(port)]
        /\ left = [t \in Tids |-> [regs |-> "new", result |-> FALSE, depth |-> 0]]
    BY <1>1 DEF JoinInit, RegistersInit
  <1>5. left \in [Tids -> LeftRecords]
    BY <1>4 DEF LeftRecords
  <1> QED
    BY <1>2, <1>3, <1>4, <1>5 DEF RegistersInv

\* The inductive invariant, for the programs that leave the timer of arm alone.
LEMMA RegistersHold == ASSUME NoTimerOnArm PROVE JoinSpec => []RegistersInv
  <1>1. RegistersInv /\ [JoinNext]_joinVars => RegistersInv'
    BY RegistersStep
  <1> QED
    BY <1>1, RegistersStart, PTL DEF JoinSpec

\* What the properties say a thread left is what the invariant says.
LEMMA LeftIsFound ==
    \A t, r : LeftIn(t, r) = Found(left[t].regs, t, r)
  BY DEF LeftIn, Found

\* On every port, through every entry into the kernel, switch, cancellation,
\* restart and TPROP_REGISTERS call, a thread resumes with the registers, the
\* stack pointer and the status it left (SAVE_CURRENT_THREAD, load_next_thread).
THEOREM RegistersAreKept == ASSUME NoTimerOnArm PROVE JoinSpec => []KeepsRegisters
  <1>1. ASSUME RegistersInv
        PROVE  KeepsRegisters
    <2>1. SUFFICES ASSUME kernel = "up"
                   PROVE  /\ Len(stack[current]) = left[current].depth
                          /\ \A r \in UserRegisters[port] :
                                IF left[current].regs = "first"
                                THEN r = PC => regs[r] = thread_start
                                ELSE regs[r] = IF r = 0 /\ left[current].result THEN Result
                                                                     ELSE LeftIn(current, r)
      BY DEF KeepsRegisters
    <2>2. IsOn(port, current, left[current], regs, stack[current])
      BY <1>1, <2>1 DEF RegistersInv
    <2> QED
      BY <2>2, LeftIsFound DEF IsOn
  <1> QED
    BY <1>1, RegistersHold, PTL

\* The words of a context that handle_exception of arm and thumb looks at.
LEMMA SvcAddressIsPC ==
    ASSUME NEW p \in AllPorts, p # "aarch64"
    PROVE  /\ SvcAddressWord \in 1 .. Len(RegisterContext[p])
           /\ RegisterContext[p][SvcAddressWord] = PC
           /\ SvcAddressWord # Field[p][0]
  <1>1. PICK c : c = RegisterContext[p] /\ IsLayout(p, c)
    BY Layouts
  <1>2. \/ c = <<0, 1, 2, 3, 4, 5, 6, 7, 8, 9, 10, 11, 12, 14, 31, 33>>
        \/ c = <<4, 5, 6, 7, 8, 9, 10, 11, 0, 1, 2, 3, 12, 14, 31, 33>>
    BY <1>1 DEF RegisterContext, RegisterContextArm, RegisterContextThumb, AllPorts, LR, PC, PSR
  <1>3. Len(c) = 16 /\ c[15] = 31
    BY <1>2
  <1>4. c[Field[p][0]] = 0
    BY <1>1 DEF IsLayout
  <1> QED
    BY <1>1, <1>3, <1>4 DEF SvcAddressWord, PC

\* The words that k_handle_syscall, TPROP_REGISTERS and the signals reach through
\* a RegisterContext pointer are the registers of those names, on every port.
THEOREM ContextsKeepTheirNames == ASSUME NoTimerOnArm PROVE JoinSpec => []ContextsAreNamed
  <1>1. ASSUME RegistersInv, kernel = "up", NEW t \in Tids \ {current}
        PROVE  /\ port # "aarch64" => stack[t][SvcAddressWord] = LeftIn(t, PC)
               /\ \A i \in DOMAIN Context :
                     stack[t][i] = IF i = arg0 /\ left[t].result THEN Result
                                   ELSE LeftIn(t, Context[i])
    <2>1. PICK p, c : p = port /\ p \in AllPorts /\ c = RegisterContext[p] /\ IsLayout(p, c)
      BY <1>1, Layouts DEF RegistersInv
    <2>2. IsFrame(port, t, left[t], stack[t])
      BY <1>1 DEF RegistersInv
    <2>3. \A i \in 1 .. Len(c) : stack[t][i] = IF i = Field[p][0] /\ left[t].result THEN Result
                                               ELSE Found(left[t].regs, t, c[i])
      BY <2>1, <2>2 DEF IsFrame
    <2>4. DOMAIN Context = 1 .. Len(c) /\ Context = c /\ arg0 = Field[p][0]
      BY <2>1 DEF IsLayout, Context, arg0
    <2>5. \A i \in DOMAIN Context : stack[t][i] = IF i = arg0 /\ left[t].result THEN Result
                                                  ELSE LeftIn(t, Context[i])
      BY <2>3, <2>4, LeftIsFound
    <2>6. ASSUME port # "aarch64"
          PROVE  stack[t][SvcAddressWord] = LeftIn(t, PC)
      <3>1. /\ SvcAddressWord \in 1 .. Len(c) /\ c[SvcAddressWord] = PC
            /\ SvcAddressWord # Field[p][0]
        BY <2>1, <2>6, SvcAddressIsPC
      <3> QED
        BY <2>3, <3>1, LeftIsFound
    <2> QED
      BY <2>5, <2>6
  <1>2. RegistersInv => ContextsAreNamed
    BY <1>1 DEF ContextsAreNamed
  <1> QED
    BY <1>2, RegistersHold, PTL

\* load_next_thread clears next_thread, and nothing sets it for longer.
LEMMA NextIsCleared == next_thread = NULL /\ [JoinNext]_joinVars => next_thread' = NULL
  <1>1. SUFFICES ASSUME next_thread = NULL, [JoinNext]_joinVars, ~UNCHANGED registers
                 PROVE  next_thread' = NULL
    BY DEF registers
  <1>2. ASSUME NEW kind, NEW result, NEW changed, KernelEntry(kind, result, changed)
        PROVE  next_thread' = NULL
    BY <1>1, <1>2 DEF KernelEntry, Loaded
  <1>3. (\E c, changed : SystemCall(c, changed)) => next_thread' = NULL
    BY <1>2 DEF SystemCall
  <1>4. OtherSvc => next_thread' = NULL
    BY <1>2 DEF OtherSvc
  <1>5. TimerInterrupt => next_thread' = NULL
    BY <1>2 DEF TimerInterrupt
  <1>6. FirstLoad => next_thread' = NULL
    BY DEF FirstLoad, Loaded
  <1>7. WorkerStep => next_thread' = NULL
    BY <1>1, <1>3, <1>4 DEF WorkerStep, Yields, WorkerReturns, ArmTimer, SetRegisters
  <1>8. Ends => next_thread' = NULL
    BY <1>1, <1>4 DEF Ends
  <1>9. (\E t \in Tids : CallJoin(t) \/ Create(t)) => next_thread' = NULL
    BY <1>1, <1>3, <1>6 DEF CallJoin, Create
  <1>10. ReadState \/ JoinYield => next_thread' = NULL
    BY <1>3 DEF ReadState, JoinYield
  <1> QED
    BY <1>1, <1>5, <1>7, <1>8, <1>9, <1>10 DEF JoinNext, joinVars

\* handle_timer lets the scheduler choose, on thumb too, where it does not clear
\* next_thread itself.
THEOREM InterruptsChoose == JoinSpec => InterruptsReschedule
  <1>1. JoinInit => next_thread = NULL
    BY DEF JoinInit, RegistersInit
  <1>2. ASSUME next_thread = NULL, TimerInterrupt, kernel' = "up"
        PROVE  choose_next_thread(id, state, current')
    <2>1. do_scheduler(id, state, NULL)
      BY <1>2 DEF TimerInterrupt, SysTick, Tick
    <2> QED
      BY <1>2, <2>1 DEF do_scheduler, SwitchTo
  <1>3. next_thread = NULL /\ [JoinNext]_joinVars =>
            [TimerInterrupt /\ kernel' = "up" =>
                choose_next_thread(id, state, current')]_<<vars, registers>>
    BY <1>2
  <1>4. JoinSpec => [](next_thread = NULL)
    <2>1. next_thread = NULL /\ [JoinNext]_joinVars => (next_thread = NULL)'
      BY NextIsCleared
    <2> QED
      BY <1>1, <2>1, PTL DEF JoinSpec
  <1>5. JoinSpec => [][TimerInterrupt /\ kernel' = "up" =>
                          choose_next_thread(id, state, current')]_<<vars, registers>>
    BY <1>3, <1>4, PTL DEF JoinSpec
  <1> QED
    BY <1>5 DEF InterruptsReschedule
=============================================================================
