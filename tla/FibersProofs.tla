---------------------------- MODULE FibersProofs ----------------------------
(***************************************************************************)
(* Fibers implements Coroutines, and whoever goes on finds its registers,  *)
(* for any number of fibers.  That a return leads to the right activity    *)
(* rests on each one being in one place only, which is what Coroutines     *)
(* guarantees of its steps, so the two are proved together.                *)
(***************************************************************************)
EXTENDS Fibers, TLAPS

FibersTypeOK ==
    /\ fiber_port \in AllPorts
    /\ calls \in [Activities -> 0 .. MaxCalls - 1]
    /\ DOMAIN context = FiberNames
    /\ DOMAIN on_stack = FiberNames
    /\ DOMAIN entry = FiberNames

\* What waits in a context: the start of its own fiber, or an activity as it
\* last left.
IsHeld(f) ==
    \/ context[f] = None
    \/ context[f] = make_context(f)
    \/ \E a \in Activities : context[f] = LastStored(a)

\* What the processor has: the start of a fiber, an activity as it last left, or
\* a fiber that has just returned.
IsCore ==
    \/ \E f \in FiberNames : core = make_context(f) \/ core = Returned(f)
    \/ \E a \in Activities : core = LastStored(a)

\* A fiber that has been entered can return: its frame has the address and the
\* stack has its context.
CanReturn(f) == entry[f] = make_context(f)
Entries ==
    \A f \in FiberNames :
        /\ Running = f => CanReturn(f)
        /\ \A g \in FiberNames :
              context[g] # None /\ context[g] # make_context(g) /\ context[g][PC].of = f
                 => CanReturn(f)

\* Who runs and who waits.
CoroutinesTypeOK ==
    /\ core[SP].of \in FiberNames \cup {"main"}
    /\ \A f \in FiberNames : Waiting(f) \in FiberNames \cup {"main", "nobody"}

\* NoneIsLost is inductive once the types are known.
CoroutinesInv == CoroutinesTypeOK /\ Promised!NoneIsLost

FibersInv ==
    /\ FibersTypeOK
    /\ \A f \in FiberNames : IsHeld(f)
    /\ IsCore
    /\ Entries
    /\ \A f \in FiberNames : context[f] # None => on_stack[f] = f
    /\ jump = None \/ \E a \in Activities, n \in 0 .. MaxCalls - 1 : jump = StoredAt(a, n)
    /\ CoroutinesInv

----------------------------------------------------------------------------
(* Who waits where.                                                        *)

\* A context is made for a fiber that is not alive, so nobody has it yet.
LEMMA MakeKeeps ==
    ASSUME FibersAssumption, CoroutinesInv, NEW f \in FiberNames, Promised!MakeFiber(f)
    PROVE  CoroutinesInv'
  <1> USE DEF CoroutinesInv, CoroutinesTypeOK
  <1>1. Waiting(f) = "nobody" /\ Waiting(f)' = f /\ UNCHANGED (core[SP].of)
    BY DEF Promised!MakeFiber
  <1>2. \A g \in FiberNames \ {f} : Waiting(g)' = Waiting(g)
    BY DEF Promised!MakeFiber
  <1>3. core[SP].of # f /\ \A g \in FiberNames : Waiting(g) # f
    BY <1>1 DEF FibersAssumption, Promised!NoneIsLost, Promised!Alive
  <1>4. CoroutinesTypeOK'
    BY <1>1, <1>2
  <1>5. ASSUME NEW a \in {"main"} \cup {g \in FiberNames : Waiting(g)' # "nobody"}
        PROVE  a = core'[SP].of \/ \E g \in FiberNames : Waiting(g)' = a
    <2>1. CASE a = f
      BY <1>1, <2>1
    <2>2. CASE a # f
      <3>1. a = core[SP].of \/ \E g \in FiberNames : Waiting(g) = a
        BY <1>2, <2>2 DEF Promised!NoneIsLost, Promised!Alive
      <3> QED
        BY <1>1, <1>2, <2>2, <3>1 DEF FibersAssumption
    <2> QED
      BY <2>1, <2>2
  <1>6. Promised!NoneIsLost'
    BY <1>1, <1>2, <1>3, <1>5 DEF FibersAssumption, Promised!NoneIsLost, Promised!Alive
  <1> QED
    BY <1>4, <1>6

\* Two activities change places, the set of those alive stays.
LEMMA ExchangeKeeps ==
    ASSUME FibersAssumption, CoroutinesInv, NEW f \in FiberNames, Promised!Exchange(f)
    PROVE  CoroutinesInv'
  <1> USE DEF CoroutinesInv, CoroutinesTypeOK
  <1>1. /\ Waiting(f) # "nobody"
        /\ core'[SP].of = Waiting(f) /\ Waiting(f)' = core[SP].of
    BY DEF Promised!Exchange
  <1>2. \A g \in FiberNames \ {f} : Waiting(g)' = Waiting(g)
    BY DEF Promised!Exchange
  <1>3. CoroutinesTypeOK'
    BY <1>1, <1>2
  <1>4. Promised!NoneIsLost'
    BY <1>1, <1>2 DEF FibersAssumption, Promised!NoneIsLost, Promised!Alive
  <1> QED
    BY <1>3, <1>4

\* The fiber that returns leaves, and the one that waited in its context runs.
LEMMA ReturnKeeps ==
    ASSUME FibersAssumption, CoroutinesInv, Promised!FiberReturns
    PROVE  CoroutinesInv'
  <1> USE DEF CoroutinesInv, CoroutinesTypeOK
  <1>1. PICK f \in FiberNames : f = core[SP].of
    BY DEF Promised!FiberReturns
  <1>2. core'[SP].of = Waiting(f) /\ Waiting(f)' = "nobody"
    BY <1>1 DEF Promised!FiberReturns
  <1>3. \A g \in FiberNames \ {f} : Waiting(g)' = Waiting(g)
    BY <1>1 DEF Promised!FiberReturns
  <1>4. Waiting(f) # "nobody"
    BY <1>1 DEF FibersAssumption, Promised!NoneIsLost, Promised!Alive
  <1>5. CoroutinesTypeOK'
    BY <1>2, <1>3, <1>4
  <1>6. Promised!NoneIsLost'
    BY <1>1, <1>2, <1>3, <1>4 DEF FibersAssumption, Promised!NoneIsLost, Promised!Alive
  <1> QED
    BY <1>5, <1>6

\* Steps that nobody changes places in.
LEMMA StutterKeeps ==
    ASSUME CoroutinesInv, UNCHANGED Promised!coroutines
    PROVE  CoroutinesInv'
  <1>1. UNCHANGED (core[SP].of) /\ \A f \in FiberNames : Waiting(f)' = Waiting(f)
    BY DEF Promised!coroutines
  <1> QED
    BY <1>1 DEF CoroutinesInv, CoroutinesTypeOK, Promised!NoneIsLost, Promised!Alive

----------------------------------------------------------------------------
(* What contexts hold.                                                     *)

\* The link register has a place of its own on every port.
LEMMA LinkIsApart == LinkRegister # PC /\ LinkRegister # SP /\ PC # SP
  BY DEF LinkRegister, LR, PC, SP

\* What an activity leaves says whose it is, and is not the start of a fiber.
LEMMA StoredFacts ==
    ASSUME NEW a, NEW n
    PROVE  /\ StoredAt(a, n) # None
           /\ StoredAt(a, n)[SP].of = a
           /\ StoredAt(a, n)[PC].of = a
           /\ StoredAt(a, n)[PC].n = n
           /\ \A f : StoredAt(a, n)[PC] # Function(f)
  <1>1. {LinkRegister, SP, PC} \subseteq FiberContext
    BY DEF FiberContext
  <1>2. DOMAIN StoredAt(a, n) = FiberContext /\ DOMAIN None = {}
    BY DEF StoredAt, None
  <1>3. StoredAt(a, n) # None
    BY <1>1, <1>2
  <1>4. /\ StoredAt(a, n)[PC] = Held(a, n, LinkRegister)
        /\ StoredAt(a, n)[SP] = Held(a, n, SP)
    BY <1>1, LinkIsApart DEF StoredAt
  <1>5. \A f : Held(a, n, LinkRegister) # Function(f)
    BY LinkIsApart DEF Held, Function
  <1> QED
    BY <1>3, <1>4, <1>5 DEF Held

\* A fiber starts on its own stack, and returns to set_context_from_stack_address.
LEMMA MadeFacts ==
    ASSUME NEW f
    PROVE  /\ make_context(f) # None
           /\ make_context(f)[SP] = Top(f)
           /\ make_context(f)[PC] = Function(f)
           /\ make_context(f)[LinkRegister] = set_context_from_stack_address
           /\ Returned(f)[SP] = Top(f)
           /\ Returned(f)[PC] = set_context_from_stack_address
           /\ Top(f).of = f /\ Function(f).of = f
           /\ set_context_from_stack_address.of = "nobody"
           /\ \A g : Function(f) = Function(g) => f = g
  <1>1. {LinkRegister, SP, PC} \subseteq FiberContext
    BY DEF FiberContext
  <1>2. DOMAIN make_context(f) = FiberContext /\ DOMAIN None = {}
    BY DEF make_context, None
  <1>3. make_context(f) # None
    BY <1>1, <1>2
  <1>4. /\ make_context(f)[SP] = Top(f)
        /\ make_context(f)[PC] = Function(f)
        /\ make_context(f)[LinkRegister] = set_context_from_stack_address
    BY <1>1, LinkIsApart DEF make_context
  <1>5. /\ Returned(f)[SP] = Top(f)
        /\ Returned(f)[PC] = set_context_from_stack_address
    BY <1>1, <1>2, <1>4, LinkIsApart DEF Returned
  <1>6. /\ Top(f).of = f /\ Function(f).of = f
        /\ set_context_from_stack_address.of = "nobody"
    BY DEF Top, Function, Held, set_context_from_stack_address
  <1>7. \A g : Function(f) = Function(g) => f = g
    BY DEF Function, Held
  <1> QED
    BY <1>3, <1>4, <1>5, <1>6, <1>7

\* The port is one for the whole run, and with it the layout of contexts.
LEMMA SamePort ==
    ASSUME fiber_port' = fiber_port
    PROVE  /\ \A a, n : StoredAt(a, n)' = StoredAt(a, n)
           /\ \A f : make_context(f)' = make_context(f) /\ Returned(f)' = Returned(f)
  <1>1. LinkRegister' = LinkRegister
    BY DEF LinkRegister
  <1>2. FiberContext' = FiberContext
    BY <1>1 DEF FiberContext, Kept
  <1>3. \A a, n : StoredAt(a, n)' = StoredAt(a, n)
    BY <1>1, <1>2 DEF StoredAt
  <1>4. \A f : make_context(f)' = make_context(f)
    BY <1>1, <1>2 DEF make_context
  <1> QED
    BY <1>3, <1>4 DEF Returned

\* Who runs, by the program counter and by the stack.
LEMMA WhoRuns ==
    ASSUME FibersAssumption, FibersInv
    PROVE  /\ core[SP].of \in Activities
           /\ IsRunning => Running = core[SP].of
           /\ core[PC] = set_context_from_stack_address => ~IsRunning
           /\ ~IsRunning => core[SP].of \in FiberNames /\ core = Returned(core[SP].of)
  <1>1. "nobody" \notin Activities
    BY DEF FibersAssumption, Activities
  <1>2. CASE \E f \in FiberNames : core = make_context(f)
    BY <1>1, <1>2, MadeFacts DEF Activities, IsRunning, Running
  <1>3. CASE \E f \in FiberNames : core = Returned(f)
    BY <1>1, <1>3, MadeFacts DEF Activities, IsRunning, Running
  <1>4. CASE \E a \in Activities : core = LastStored(a)
    BY <1>1, <1>4, StoredFacts, MadeFacts DEF IsRunning, Running, LastStored
  <1> QED
    BY <1>2, <1>3, <1>4 DEF FibersInv, IsCore

\* Who waits in a context, by the program counter and by the stack.
LEMMA WhoWaits ==
    ASSUME FibersAssumption, FibersInv, NEW f \in FiberNames, context[f] # None
    PROVE  /\ context[f][PC].of \in Activities
           /\ context[f][PC].of # "nobody"
           /\ context[f][SP].of = context[f][PC].of
  <1>1. "nobody" \notin Activities
    BY DEF FibersAssumption, Activities
  <1>2. CASE context[f] = make_context(f)
    BY <1>1, <1>2, MadeFacts DEF Activities
  <1>3. CASE \E a \in Activities : context[f] = LastStored(a)
    BY <1>1, <1>3, StoredFacts DEF LastStored
  <1> QED
    BY <1>2, <1>3 DEF FibersInv, IsHeld

\* NoneIsLost in terms of the contexts.
LEMMA InOnePlace ==
    ASSUME FibersAssumption, FibersInv
    PROVE  /\ core[SP].of \in FiberNames => context[core[SP].of] # None
           /\ \A f \in FiberNames : context[f] # None =>
                 /\ context[f][PC].of # core[SP].of
                 /\ context[f][PC].of \in FiberNames => context[context[f][PC].of] # None
                 /\ \A g \in FiberNames :
                       context[g] # None /\ context[g][PC].of = context[f][PC].of => f = g
  <1>1. \A f \in FiberNames :
           context[f] # None => Waiting(f) = context[f][PC].of /\ Waiting(f) # "nobody"
    BY WhoWaits DEF Waiting
  <1>2. \A f \in FiberNames : context[f] = None => Waiting(f) = "nobody"
    BY DEF Waiting
  <1>3. /\ core[SP].of \in {"main"} \cup {f \in FiberNames : Waiting(f) # "nobody"}
        /\ \A f, g \in FiberNames : Waiting(f) = Waiting(g) => f = g \/ Waiting(f) = "nobody"
        /\ \A f \in FiberNames :
              /\ Waiting(f) # core[SP].of
              /\ Waiting(f) \in {"main", "nobody"}
                               \cup {g \in FiberNames : Waiting(g) # "nobody"}
    BY DEF FibersInv, CoroutinesInv, Promised!NoneIsLost, Promised!Alive
  <1>4. "main" \notin FiberNames /\ "nobody" \notin FiberNames
    BY DEF FibersAssumption
  <1> QED
    BY <1>1, <1>2, <1>3, <1>4

\* The n-th leave is the last one before the next is counted.
LEMMA Counting ==
    ASSUME NEW n \in 0 .. MaxCalls - 1
    PROVE  /\ (n + 1) % MaxCalls \in 0 .. MaxCalls - 1
           /\ (((n + 1) % MaxCalls) + MaxCalls - 1) % MaxCalls = n
  BY SMT DEF MaxCalls

\* What waits stays as it is when only the activity that runs is counted.
LEMMA OthersStay ==
    ASSUME FibersAssumption, FibersInv, fiber_port' = fiber_port,
           \A a \in Activities \ {core[SP].of} : calls'[a] = calls[a],
           NEW f \in FiberNames, context'[f] = context[f]
    PROVE  IsHeld(f)'
  <1>1. CASE context[f] = None \/ context[f] = make_context(f)
    BY <1>1, SamePort DEF IsHeld
  <1>2. CASE \E a \in Activities : context[f] = LastStored(a)
    <2>1. PICK a \in Activities : context[f] = LastStored(a)
      BY <1>2
    <2>2. a # core[SP].of
      BY <2>1, InOnePlace, StoredFacts DEF LastStored
    <2>3. LastStored(a)' = LastStored(a)
      BY <2>2, SamePort DEF LastStored
    <2> QED
      BY <2>1, <2>3 DEF IsHeld
  <1> QED
    BY <1>1, <1>2 DEF FibersInv, IsHeld

\* What the activity that runs stores is what it last left, once that is counted.
LEMMA LeavesStored ==
    ASSUME FibersAssumption, FibersInv, fiber_port' = fiber_port, IsRunning, Leaves
    PROVE  /\ Running = core[SP].of /\ Running \in Activities
           /\ Stored = StoredAt(Running, calls[Running])
           /\ calls[Running] \in 0 .. MaxCalls - 1
           /\ calls' \in [Activities -> 0 .. MaxCalls - 1]
           /\ \A a \in Activities :
                 IF a = Running THEN LastStored(a)' = Stored
                 ELSE calls'[a] = calls[a] /\ LastStored(a)' = LastStored(a)
  <1>1. Running = core[SP].of /\ Running \in Activities
    BY WhoRuns
  <1>2. calls \in [Activities -> 0 .. MaxCalls - 1]
    BY DEF FibersInv, FibersTypeOK
  <1>3. /\ calls'[Running] = (calls[Running] + 1) % MaxCalls
        /\ \A a \in Activities \ {Running} : calls'[a] = calls[a]
    BY <1>1, <1>2 DEF Leaves
  <1>4. calls[Running] \in 0 .. MaxCalls - 1 /\ calls' \in [Activities -> 0 .. MaxCalls - 1]
    BY <1>1, <1>2, Counting DEF Leaves
  <1>5. (calls'[Running] + MaxCalls - 1) % MaxCalls = calls[Running]
    BY <1>3, <1>4, Counting
  <1>6. ASSUME NEW a \in Activities, a # Running
        PROVE  LastStored(a)' = LastStored(a)
    BY <1>3, <1>6, SamePort DEF LastStored
  <1>7. ASSUME NEW a \in Activities, a = Running
        PROVE  LastStored(a)' = Stored
    <2>1. LastStored(a)' = StoredAt(a, (calls'[a] + MaxCalls - 1) % MaxCalls)
      BY SamePort DEF LastStored
    <2> QED
      BY <1>5, <1>7, <2>1 DEF Stored
  <1> QED
    BY <1>1, <1>3, <1>4, <1>6, <1>7 DEF Stored

----------------------------------------------------------------------------
(* The steps.                                                              *)

\* make_context is a new activity that waits.
LEMMA MakeStep ==
    ASSUME FibersAssumption, FibersInv, NEW f \in FiberNames, Make(f)
    PROVE  FibersInv' /\ Promised!MakeFiber(f)
  <1> USE DEF Make
  <1>1. context'[f] = make_context(f) /\ \A g \in FiberNames \ {f} : context'[g] = context[g]
    BY DEF FibersInv, FibersTypeOK
  <1>2. make_context(f) # None /\ make_context(f)[PC].of = f
    BY MadeFacts
  <1>3. Promised!MakeFiber(f)
    <2>1. Waiting(f) = "nobody" /\ Waiting(f)' = f
      BY <1>1, <1>2 DEF Waiting
    <2>2. \A g \in FiberNames \ {f} : Waiting(g)' = Waiting(g)
      BY <1>1 DEF Waiting
    <2> QED
      BY <2>1, <2>2 DEF Promised!MakeFiber
  <1>4. CoroutinesInv'
    BY <1>3, MakeKeeps DEF FibersInv
  <1>5. FibersTypeOK'
    BY DEF FibersInv, FibersTypeOK
  <1>6. \A a \in Activities : LastStored(a)' = LastStored(a)
    BY SamePort DEF LastStored
  <1>7. \A g : make_context(g)' = make_context(g) /\ Returned(g)' = Returned(g)
    BY SamePort
  <1>8. \A g \in FiberNames : IsHeld(g)'
    BY <1>1, <1>6, <1>7 DEF FibersInv, IsHeld
  <1>9. IsCore'
    BY <1>6, <1>7 DEF FibersInv, IsCore
  <1>10. Entries'
    <2>1. \A g \in FiberNames : Running' = g => CanReturn(g)'
      BY <1>7 DEF FibersInv, Entries, CanReturn, Running
    <2>2. ASSUME NEW g \in FiberNames, NEW h \in FiberNames,
                 context'[h] # None, context'[h] # make_context(h), context'[h][PC].of = g
          PROVE  CanReturn(g)'
      BY <1>1, <1>7, <2>2 DEF FibersInv, Entries, CanReturn
    <2> QED
      BY <1>7, <2>1, <2>2 DEF Entries
  <1>11. \A g \in FiberNames : context'[g] # None => on_stack'[g] = g
    BY <1>1 DEF FibersInv, FibersTypeOK
  <1>12. (jump = None \/ \E a \in Activities, n \in 0 .. MaxCalls - 1 : jump = StoredAt(a, n))'
    BY SamePort DEF FibersInv
  <1> QED
    BY <1>3, <1>4, <1>5, <1>8, <1>9, <1>10, <1>11, <1>12 DEF FibersInv

\* The activity that waits in a context goes on, and the one that ran waits there.
LEMMA SwapStep ==
    ASSUME FibersAssumption, FibersInv, NEW f \in FiberNames, swap_context(f)
    PROVE  FibersInv' /\ Promised!Exchange(f)
  <1> USE DEF swap_context
  <1>1. context'[f] = Stored /\ \A g \in FiberNames \ {f} : context'[g] = context[g]
    BY DEF FibersInv, FibersTypeOK
  <1>2. Stored # None /\ Stored[PC].of = Running /\ \A g : Stored[PC] # Function(g)
    BY StoredFacts DEF Stored
  <1>3. /\ Running = core[SP].of /\ Running \in Activities
        /\ calls' \in [Activities -> 0 .. MaxCalls - 1]
        /\ \A a \in Activities :
              IF a = Running THEN LastStored(a)' = Stored
              ELSE calls'[a] = calls[a] /\ LastStored(a)' = LastStored(a)
    BY LeavesStored
  <1>4. /\ context[f][SP].of = context[f][PC].of
        /\ context[f][PC].of \in Activities \ {Running, "nobody"}
    BY <1>3, WhoWaits, InOnePlace
  <1>5. Promised!Exchange(f)
    <2>1. Waiting(f) = context[f][PC].of /\ Waiting(f)' = core[SP].of
      BY <1>1, <1>2, <1>3 DEF Waiting
    <2>2. \A g \in FiberNames \ {f} : Waiting(g)' = Waiting(g)
      BY <1>1 DEF Waiting
    <2> QED
      BY <1>4, <2>1, <2>2 DEF Promised!Exchange
  <1>6. CoroutinesInv'
    BY <1>5, ExchangeKeeps DEF FibersInv
  <1>7. FibersTypeOK'
    BY <1>3 DEF FibersInv, FibersTypeOK, Entered
  <1>8. \A g : make_context(g)' = make_context(g) /\ Returned(g)' = Returned(g)
    BY SamePort
  <1>9. \A g \in FiberNames : IsHeld(g)'
    <2>1. IsHeld(f)'
      BY <1>1, <1>3 DEF IsHeld
    <2>2. \A g \in FiberNames \ {f} : IsHeld(g)'
      BY <1>1, <1>3, OthersStay
    <2> QED
      BY <2>1, <2>2
  <1>10. IsCore'
    <2>1. CASE context[f] = make_context(f)
      BY <1>8, <2>1 DEF IsCore
    <2>2. CASE \E a \in Activities : context[f] = LastStored(a)
      <3>1. PICK a \in Activities : context[f] = LastStored(a)
        BY <2>2
      <3>2. a # Running
        BY <1>4, <3>1, StoredFacts DEF LastStored
      <3> QED
        BY <1>3, <3>1, <3>2 DEF IsCore
    <2> QED
      BY <2>1, <2>2 DEF FibersInv, IsHeld
  <1>11. Entries'
    <2>1. \A g \in FiberNames :
             context[f][PC] = Function(g) => g = f /\ context[f] = make_context(f)
      BY MadeFacts, StoredFacts DEF FibersInv, IsHeld, LastStored
    <2>2. \A g \in FiberNames : CanReturn(g) => CanReturn(g)'
      BY <1>8, <2>1 DEF CanReturn, Entered
    <2>3. context[f] = make_context(f) => CanReturn(f)'
      BY <1>8, MadeFacts DEF CanReturn, Entered
    <2>4. \A g \in FiberNames : Running' = g => CanReturn(g)'
      BY <2>2, <2>3, MadeFacts DEF FibersInv, Entries, Running
    <2>5. ASSUME NEW g \in FiberNames, NEW h \in FiberNames,
                 context'[h] # None, context'[h] # make_context(h), context'[h][PC].of = g
          PROVE  CanReturn(g)'
      BY <1>1, <1>2, <2>2, <2>5 DEF FibersInv, Entries
    <2> QED
      BY <1>8, <2>4, <2>5 DEF Entries
  <1>12. \A g \in FiberNames : context'[g] # None => on_stack'[g] = g
    BY <1>1 DEF FibersInv
  <1>13. (jump = None \/ \E a \in Activities, n \in 0 .. MaxCalls - 1 : jump = StoredAt(a, n))'
    BY SamePort DEF FibersInv
  <1> QED
    BY <1>5, <1>6, <1>7, <1>9, <1>10, <1>11, <1>12, <1>13 DEF FibersInv

\* The function of a fiber returns to set_context_from_stack_address.
LEMMA ReturnStep ==
    ASSUME FibersAssumption, FibersInv, FunctionReturns
    PROVE  FibersInv' /\ UNCHANGED Promised!coroutines
  <1>1. PICK f \in FiberNames : f \in Activities /\ f = core[SP].of /\ f = Running
    BY WhoRuns DEF FunctionReturns, Activities, IsRunning, FibersAssumption
  <1>2. /\ core' = [entry[f] EXCEPT ![PC] = entry[f][LinkRegister]]
        /\ calls' = [calls EXCEPT ![f] = 0]
        /\ jump' \in {jump, None}
        /\ UNCHANGED <<fiber_port, context, on_stack, entry>>
    BY <1>1 DEF FunctionReturns
  <1>3. core' = Returned(f)
    <2>1. entry[f] = make_context(f)
      BY <1>1 DEF FibersInv, Entries, CanReturn
    <2>2. make_context(f)[LinkRegister] = set_context_from_stack_address
      BY MadeFacts
    <2> QED
      BY <1>2, <2>1, <2>2 DEF Returned
  <1>4. /\ Returned(f)[SP] = Top(f) /\ Top(f).of = f
        /\ Returned(f)[PC] = set_context_from_stack_address
        /\ set_context_from_stack_address.of = "nobody"
    BY MadeFacts
  <1>5. UNCHANGED Promised!coroutines
    <2>1. core'[SP].of = core[SP].of
      BY <1>1, <1>3, <1>4
    <2>2. \A g \in FiberNames : Waiting(g)' = Waiting(g)
      BY <1>2 DEF Waiting
    <2> QED
      BY <2>1, <2>2 DEF Promised!coroutines
  <1>6. CoroutinesInv'
    BY <1>5, StutterKeeps DEF FibersInv
  <1>7. FibersTypeOK'
    <2>1. 0 \in 0 .. MaxCalls - 1
      BY DEF MaxCalls
    <2> QED
      BY <1>1, <1>2, <2>1 DEF FibersInv, FibersTypeOK
  <1>8. \A a \in Activities \ {f} : calls'[a] = calls[a]
    BY <1>1, <1>2 DEF FibersInv, FibersTypeOK
  <1>9. \A g \in FiberNames : IsHeld(g)'
    BY <1>1, <1>8, <1>2, OthersStay
  <1>10. \A g : make_context(g)' = make_context(g) /\ Returned(g)' = Returned(g)
    BY <1>2, SamePort
  <1>11. IsCore'
    BY <1>1, <1>3, <1>10 DEF IsCore
  <1>12. Entries'
    <2>1. Running' = set_context_from_stack_address.of
      BY <1>3, <1>4 DEF Running
    <2>2. set_context_from_stack_address.of \notin FiberNames
      BY <1>4 DEF FibersAssumption
    <2> QED
      BY <1>10, <1>2, <2>1, <2>2 DEF FibersInv, Entries, CanReturn
  <1>13. \A g \in FiberNames : context'[g] # None => on_stack'[g] = g
    BY <1>2 DEF FibersInv
  <1>14. (jump = None \/ \E a \in Activities, n \in 0 .. MaxCalls - 1 : jump = StoredAt(a, n))'
    BY <1>2, SamePort DEF FibersInv
  <1> QED
    BY <1>5, <1>6, <1>7, <1>9, <1>11, <1>12, <1>13, <1>14 DEF FibersInv

\* A fiber that has returned leaves for whoever waits in its context.
LEMMA CatchStep ==
    ASSUME FibersAssumption, FibersInv, Catch
    PROVE  FibersInv' /\ Promised!FiberReturns
  <1>1. PICK f \in FiberNames : f = core[SP].of /\ core[SP] = Top(f)
    BY WhoRuns, MadeFacts DEF Catch
  <1>2. context[f] # None /\ on_stack[f] = f
    BY <1>1, InOnePlace DEF FibersInv
  <1>3. /\ core' = context[f]
        /\ context' = [context EXCEPT ![f] = None]
        /\ entry' = [entry EXCEPT ![f] = None]
        /\ on_stack' = [on_stack EXCEPT ![f] = "nothing"]
        /\ UNCHANGED <<fiber_port, jump, calls>>
    <2>1. PICK g \in FiberNames :
            /\ core[SP] = Top(g)
            /\ core' = context[on_stack[g]]
            /\ context' = [context EXCEPT ![on_stack[g]] = None]
            /\ entry' = [entry EXCEPT ![g] = None]
            /\ on_stack' = [on_stack EXCEPT ![g] = "nothing"]
      BY DEF Catch
    <2>2. g = f
      <3>1. Top(g).of = g /\ Top(f).of = f
        BY MadeFacts
      <3> QED
        BY <1>1, <2>1, <3>1
    <2>3. UNCHANGED <<fiber_port, jump, calls>>
      BY DEF Catch
    <2> QED
      BY <1>2, <2>1, <2>2, <2>3
  <1>4. context'[f] = None /\ \A g \in FiberNames \ {f} : context'[g] = context[g]
    BY <1>1, <1>3 DEF FibersInv, FibersTypeOK
  <1>5. /\ context[f][SP].of = context[f][PC].of
        /\ context[f][PC].of \in Activities \ {f}
    BY <1>1, <1>2, WhoWaits, InOnePlace
  <1>6. context[f] # make_context(f)
    BY <1>5, MadeFacts
  <1>7. Promised!FiberReturns
    <2>1. Waiting(f) = core'[SP].of /\ Waiting(f)' = "nobody"
      BY <1>2, <1>3, <1>4, <1>5 DEF Waiting
    <2>2. \A g \in FiberNames \ {f} : Waiting(g)' = Waiting(g)
      BY <1>4 DEF Waiting
    <2> QED
      BY <1>1, <2>1, <2>2 DEF Promised!FiberReturns
  <1>8. CoroutinesInv'
    BY <1>7, ReturnKeeps DEF FibersInv
  <1>9. FibersTypeOK'
    BY <1>3 DEF FibersInv, FibersTypeOK
  <1>10. \A g : make_context(g)' = make_context(g) /\ Returned(g)' = Returned(g)
    BY <1>3, SamePort
  <1>11. \A g \in FiberNames : IsHeld(g)'
    <2>1. IsHeld(f)'
      BY <1>4 DEF IsHeld
    <2>2. \A g \in FiberNames \ {f} : IsHeld(g)'
      BY <1>3, <1>4, OthersStay
    <2> QED
      BY <2>1, <2>2
  <1>12. IsCore'
    <2>1. \A a \in Activities : LastStored(a)' = LastStored(a)
      BY <1>3, SamePort DEF LastStored
    <2>2. PICK a \in Activities : context[f] = LastStored(a)
      BY <1>1, <1>2, <1>6 DEF FibersInv, IsHeld
    <2> QED
      BY <1>3, <2>1, <2>2 DEF IsCore
  <1>13. Entries'
    <2>1. \A g \in FiberNames \ {f} : CanReturn(g) => CanReturn(g)'
      BY <1>3, <1>10 DEF CanReturn, FibersInv, FibersTypeOK
    <2>2. ASSUME NEW g \in FiberNames, Running' = g
          PROVE  CanReturn(g)'
      BY <1>1, <1>2, <1>3, <1>5, <1>6, <2>1, <2>2 DEF FibersInv, Entries, Running
    <2>3. ASSUME NEW g \in FiberNames, NEW h \in FiberNames,
                 context'[h] # None, context'[h] # make_context(h), context'[h][PC].of = g
          PROVE  CanReturn(g)'
      <3>1. h # f /\ context'[h] = context[h]
        BY <1>4, <2>3
      <3>2. g # f
        BY <1>1, <2>3, <3>1, InOnePlace
      <3> QED
        BY <2>1, <2>3, <3>1, <3>2 DEF FibersInv, Entries
    <2> QED
      BY <1>10, <2>2, <2>3 DEF Entries
  <1>14. \A g \in FiberNames : context'[g] # None => on_stack'[g] = g
    BY <1>3, <1>4 DEF FibersInv, FibersTypeOK
  <1>15. (jump = None \/ \E a \in Activities, n \in 0 .. MaxCalls - 1 : jump = StoredAt(a, n))'
    BY <1>3, SamePort DEF FibersInv
  <1> QED
    BY <1>7, <1>8, <1>9, <1>11, <1>12, <1>13, <1>14, <1>15 DEF FibersInv

\* The activity that runs goes on, as it was when it last left.
LEMMA GoesOn ==
    ASSUME FibersAssumption, FibersInv, IsRunning, NEW a \in Activities, Running = a,
           UNCHANGED <<fiber_port, context, on_stack, entry>>,
           core' = LastStored(a)', core'[SP].of = a, core'[PC].of = a,
           calls' \in [Activities -> 0 .. MaxCalls - 1],
           \A b \in Activities \ {a} : calls'[b] = calls[b],
           (jump = None \/ \E b \in Activities, n \in 0 .. MaxCalls - 1 : jump = StoredAt(b, n))'
    PROVE  FibersInv' /\ UNCHANGED Promised!coroutines
  <1>1. a = core[SP].of
    BY WhoRuns
  <1>2. UNCHANGED Promised!coroutines
    <2>1. \A g \in FiberNames : Waiting(g)' = Waiting(g)
      BY DEF Waiting
    <2> QED
      BY <1>1, <2>1 DEF Promised!coroutines
  <1>3. CoroutinesInv'
    BY <1>2, StutterKeeps DEF FibersInv
  <1>4. FibersTypeOK'
    BY DEF FibersInv, FibersTypeOK
  <1>5. \A g \in FiberNames : IsHeld(g)'
    BY <1>1, OthersStay
  <1>6. IsCore'
    BY <1>1 DEF IsCore
  <1>7. Entries'
    BY SamePort DEF FibersInv, Entries, CanReturn, Running
  <1> QED
    BY <1>2, <1>3, <1>4, <1>5, <1>6, <1>7 DEF FibersInv

\* get_context returns twice: here, and where set_context goes back to it.
LEMMA GetStep ==
    ASSUME FibersAssumption, FibersInv, get_context
    PROVE  FibersInv' /\ UNCHANGED Promised!coroutines
  <1> USE DEF get_context
  <1>1. PICK a \in Activities : a = Running
    BY LeavesStored
  <1>2. /\ calls' \in [Activities -> 0 .. MaxCalls - 1]
        /\ \A b \in Activities \ {a} : calls'[b] = calls[b]
        /\ Stored = LastStored(a)'
    BY <1>1, LeavesStored
  <1>3. calls[a] \in 0 .. MaxCalls - 1 /\ Stored = StoredAt(a, calls[a])
    BY <1>1, LeavesStored
  <1>4. jump' = StoredAt(a, calls[a]) /\ jump'[SP].of = a /\ jump'[PC].of = a
    BY <1>3, StoredFacts
  <1>5. (jump = None \/ \E b \in Activities, n \in 0 .. MaxCalls - 1 : jump = StoredAt(b, n))'
    BY <1>3, <1>4, SamePort
  <1> QED
    BY <1>1, <1>2, <1>4, <1>5, GoesOn

\* A function that has not returned goes back to its get_context.
LEMMA SetStep ==
    ASSUME FibersAssumption, FibersInv, set_context
    PROVE  FibersInv' /\ UNCHANGED Promised!coroutines
  <1> USE DEF set_context
  <1>1. PICK a \in Activities, n \in 0 .. MaxCalls - 1 : jump = StoredAt(a, n)
    BY DEF FibersInv
  <1>2. a = Running /\ a = jump[SP].of /\ a = jump[PC].of /\ n = jump[PC].n
    BY <1>1, StoredFacts
  <1>3. /\ calls' \in [Activities -> 0 .. MaxCalls - 1]
        /\ calls'[a] = (n + 1) % MaxCalls
        /\ \A b \in Activities \ {a} : calls'[b] = calls[b]
    BY <1>2, Counting DEF FibersInv, FibersTypeOK
  <1>4. jump = LastStored(a)'
    <2>1. LastStored(a)' = StoredAt(a, (calls'[a] + MaxCalls - 1) % MaxCalls)
      BY SamePort DEF LastStored
    <2> QED
      BY <1>1, <1>3, <2>1, Counting
  <1>5. IsRunning
    BY <1>2 DEF IsRunning, Activities, FibersAssumption
  <1>6. (jump = None \/ \E b \in Activities, m \in 0 .. MaxCalls - 1 : jump = StoredAt(b, m))'
    BY SamePort DEF FibersInv
  <1> QED
    BY <1>2, <1>3, <1>4, <1>5, <1>6, GoesOn

\* Steps of other parts of the program.
LEMMA OtherStep ==
    ASSUME FibersAssumption, FibersInv, UNCHANGED fibers
    PROVE  FibersInv' /\ UNCHANGED Promised!coroutines
  <1> USE DEF fibers
  <1>1. \A a \in Activities : LastStored(a)' = LastStored(a)
    BY SamePort DEF LastStored
  <1>2. \A f : make_context(f)' = make_context(f) /\ Returned(f)' = Returned(f)
    BY SamePort
  <1>3. UNCHANGED Promised!coroutines
    <2>1. \A f \in FiberNames : Waiting(f)' = Waiting(f)
      BY DEF Waiting
    <2> QED
      BY <2>1 DEF Promised!coroutines
  <1>4. CoroutinesInv'
    BY <1>3, StutterKeeps DEF FibersInv
  <1>5. FibersTypeOK'
    BY DEF FibersInv, FibersTypeOK
  <1>6. \A f \in FiberNames : IsHeld(f)'
    BY <1>1, <1>2 DEF FibersInv, IsHeld
  <1>7. IsCore'
    BY <1>1, <1>2 DEF FibersInv, IsCore
  <1>8. Entries'
    BY <1>2 DEF FibersInv, Entries, CanReturn, Running
  <1>9. (jump = None \/ \E a \in Activities, n \in 0 .. MaxCalls - 1 : jump = StoredAt(a, n))'
    BY SamePort DEF FibersInv
  <1> QED
    BY <1>3, <1>4, <1>5, <1>6, <1>7, <1>8, <1>9 DEF FibersInv

----------------------------------------------------------------------------
(* The specification.                                                      *)

\* The thread's own function runs, and nothing waits.
LEMMA FibersStart ==
    ASSUME FibersAssumption, FibersInit
    PROVE  FibersInv /\ Promised!CoroutinesInit
  <1> USE DEF FibersInit
  <1>1. core[SP].of = "main" /\ core[PC].of = "main"
    BY StoredFacts DEF LastStored
  <1>2. \A f \in FiberNames : context[f] = None /\ Waiting(f) = "nobody"
    BY DEF Waiting
  <1>3. Promised!CoroutinesInit
    BY <1>1, <1>2 DEF Promised!CoroutinesInit
  <1>4. CoroutinesInv
    BY <1>1, <1>2 DEF FibersAssumption, CoroutinesInv, CoroutinesTypeOK,
                      Promised!NoneIsLost, Promised!Alive
  <1>5. FibersTypeOK
    BY DEF FibersTypeOK, FibersAssumption, MaxCalls
  <1>6. IsCore /\ Entries /\ \A f \in FiberNames : IsHeld(f)
    BY <1>1, <1>2 DEF IsCore, Activities, Entries, Running, FibersAssumption, IsHeld
  <1> QED
    BY <1>2, <1>3, <1>4, <1>5, <1>6 DEF FibersInv

\* Each step is a step of Coroutines or none.
LEMMA FibersStep ==
    ASSUME FibersAssumption, FibersInv, [FibersNext]_fibers
    PROVE  FibersInv' /\ [Promised!CoroutinesNext]_Promised!coroutines
  <1>1. CASE \E f \in FiberNames : Make(f)
    BY <1>1, MakeStep DEF Promised!CoroutinesNext
  <1>2. CASE \E f \in FiberNames : swap_context(f)
    BY <1>2, SwapStep DEF Promised!CoroutinesNext
  <1>3. CASE FunctionReturns
    BY <1>3, ReturnStep
  <1>4. CASE Catch
    BY <1>4, CatchStep DEF Promised!CoroutinesNext
  <1>5. CASE get_context
    BY <1>5, GetStep
  <1>6. CASE set_context
    BY <1>6, SetStep
  <1>7. CASE UNCHANGED fibers
    BY <1>7, OtherStep
  <1> QED
    BY <1>1, <1>2, <1>3, <1>4, <1>5, <1>6, <1>7 DEF FibersNext

\* The contexts of fibers are coroutines, for any number of them and any order
\* of switches, also when one returns (swap_context, set_context, make_context).
THEOREM FibersAreCoroutines == FibersSpec => ImplementsCoroutines
  <1>1. FibersInit => FibersInv
    BY FibersAssumption, FibersStart
  <1>2. FibersInv /\ [FibersNext]_fibers => FibersInv'
    BY FibersAssumption, FibersStep
  <1>3. FibersInit => Promised!CoroutinesInit
    BY FibersAssumption, FibersStart
  <1>4. FibersInv /\ [FibersNext]_fibers => [Promised!CoroutinesNext]_Promised!coroutines
    BY FibersAssumption, FibersStep
  <1> QED
    BY <1>1, <1>2, <1>3, <1>4, PTL DEF FibersSpec, ImplementsCoroutines, Promised!CoroutinesSpec

\* Every activity that is alive runs or waits in exactly one context, for any
\* number of fibers and any order of switches (swap_context, and a fiber's
\* function that returns).
THEOREM NoActivityIsLost == FibersSpec => []Promised!NoneIsLost
  <1>1. FibersInit => FibersInv
    BY FibersAssumption, FibersStart
  <1>2. FibersInv /\ [FibersNext]_fibers => FibersInv'
    BY FibersAssumption, FibersStep
  <1>3. FibersInv => Promised!NoneIsLost
    BY DEF FibersInv, CoroutinesInv
  <1> QED
    BY <1>1, <1>2, <1>3, PTL DEF FibersSpec

\* Whoever goes on finds the registers, the stack and the return address that it
\* left with (swap_context, get_context, set_context).
THEOREM RegistersAreKept == FibersSpec => []FibersKeepRegisters
  <1>1. FibersInit => FibersInv
    BY FibersAssumption, FibersStart
  <1>2. FibersInv /\ [FibersNext]_fibers => FibersInv'
    BY FibersAssumption, FibersStep
  <1>3. FibersInv => FibersKeepRegisters
    <2> SUFFICES ASSUME FibersInv
                 PROVE  FibersKeepRegisters
      OBVIOUS
    <2>1. CASE \E f \in FiberNames : core = make_context(f)
      BY <2>1, MadeFacts, FibersAssumption DEF FibersKeepRegisters, IsRunning, Running
    <2>2. CASE \E f \in FiberNames : core = Returned(f)
      <3>1. \A f : set_context_from_stack_address # Function(f)
        BY DEF set_context_from_stack_address, Function, Held, MaxCalls
      <3> QED
        BY <2>2, <3>1, MadeFacts DEF FibersKeepRegisters, IsRunning, Running
    <2>3. CASE \E a \in Activities : core = LastStored(a)
      BY <2>3, StoredFacts, FibersAssumption
         DEF FibersKeepRegisters, IsRunning, Running, LastStored, Activities
    <2> QED
      BY <2>1, <2>2, <2>3 DEF FibersInv, IsCore
  <1> QED
    BY <1>1, <1>2, <1>3, PTL DEF FibersSpec
=============================================================================
