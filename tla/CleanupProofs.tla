---------------------------- MODULE CleanupProofs ----------------------------
(***************************************************************************)
(* What threads that end leave to the others.                              *)
(*                                                                         *)
(* On the heap they leave no allocation and take none from the others, for *)
(* every number of threads and blocks and wherever the timer interrupts    *)
(* the walks over the tags, as long as thread 0 does not end by itself:    *)
(* its ID is what k_free leaves in the tag of a free block.                *)
(*                                                                         *)
(* The backing pages count exactly the threads that use them, and each     *)
(* program finds itself and its data in the code page, for every number of *)
(* threads, pages and programs, as long as the kernel image does the       *)
(* loading and no loader is interrupted.                                   *)
(***************************************************************************)
EXTENDS HeapCleanup, BackingPages, ThreadsProofs, FiniteSetTheorems

Blk == INSTANCE HeapProofs WITH Owners <- Tids, Values <- {0},
    BLOCK_SIZE <- 1, HEAP_BLOCK <- 1, ADDRESS_BLOCKS <- NUM_BLOCKS + 2

Points == {"work", "tag", "tid", "clear", "next", "over", "done"}
Walking == {"tag", "tid", "clear", "next", "over"}

\* Thread t has finished or was cancelled, or its walk is over.
Ended(t) ==
    state[t] \in {"finished", "cancelled"} \/ stage[t] # "work" \/ walk[t].do = "done"

OwnsNothing(t) == \A i \in H!Blocks : tag[i] # 0 => tid[i] # t

CleanupTypeOK ==
    /\ Blk!Delimits(tag)
    /\ tid \in [H!Blocks -> Tids]
    /\ walk \in [Tids -> [at : H!Blocks, do : Points]]
    /\ held \subseteq [at : H!Blocks, size : Nat \ {0}, owner : Tids]

\* What the programs were given is tagged as theirs, until they begin to end.
HeldIsTagged ==
    \A a \in held : /\ tag[a.at] = a.size /\ tid[a.at] = a.owner
                    /\ walk[a.owner].do = "work"

\* The part of the tags that a walk has behind it has nothing of its thread.
Behind(t, i) == i < walk[t].at \/ (i = walk[t].at /\ walk[t].do \in {"next", "over"})

WalkIsRight(t) ==
    /\ \A i \in H!Blocks : Behind(t, i) /\ tag[i] # 0 => tid[i] # t
    /\ walk[t].do = "tid" /\ tid[walk[t].at] = t => tag[walk[t].at] # 0
    /\ walk[t].do = "clear" => tid[walk[t].at] = t /\ tag[walk[t].at] # 0

WalksAreRight ==
    \A t \in Tids :
        /\ walk[t].do # "work" => t \in Finishers
        /\ walk[t].do \in Walking /\ ~Ended(t) => WalkIsRight(t)
        /\ Ended(t) => OwnsNothing(t)

CleanupInv == SafeInv /\ CleanupTypeOK /\ HeldIsTagged /\ WalksAreRight

----------------------------------------------------------------------------
(* The heap's calls, as the proofs about the heap know them.               *)

\* The facts about the heap hold of the tags of this module.
LEMMA Constants ==
    /\ NUM_BLOCKS \in Nat \ {0} /\ Tids \subseteq Nat /\ 0 \in Tids
    /\ H!Blocks = 0 .. NUM_BLOCKS - 1 /\ H!Blocks = Blk!Blocks /\ 0 \in H!Blocks
    /\ NULL \notin Tids /\ INVALID_THREAD \notin Tids
  BY BlocksAssumption, MaxThreadsAssumption
     DEF Tids, H!Blocks, Blk!Blocks, NULL, INVALID_THREAD

\* What k_malloc does to the tags.
LEMMA MallocHere ==
    ASSUME Blk!Delimits(tag), NEW t, NEW n \in Nat \ {0}, H!k_malloc(t, n)
    PROVE  /\ Blk!Delimits(tag')
           /\ \/ answer'.at = H!NULL_PTR /\ tag' = tag /\ tid' = tid
              \/ \E at \in H!Blocks : /\ answer'.at.block = at /\ answer'.at # H!NULL_PTR
                                      /\ tag[at] = 0
                                      /\ tag' = [tag EXCEPT ![at] = n]
                                      /\ tid' = [tid EXCEPT ![at] = t]
  <1>0. H!find_free_space(tag, n) = Blk!find_free_space(tag, n)
    BY DEF H!find_free_space, Blk!find_free_space, H!FreeRuns, Blk!FreeRuns,
           H!Walked, Blk!Walked, H!next_tag, Blk!next_tag, H!Blocks, Blk!Blocks,
           H!SIZE_MAX, Blk!SIZE_MAX, H!Min, Blk!Min
  <1>1. Blk!k_malloc(t, n)
    <2>1. PICK at : at = H!find_free_space(tag, n) /\ at = Blk!find_free_space(tag, n)
      BY <1>0
    <2>2. /\ H!Answer(n, H!NULL_PTR, H!Found(at))
          /\ \/ at # H!SIZE_MAX /\ H!Claim(t, tag, at, n)
             \/ at = H!SIZE_MAX /\ UNCHANGED <<tag, tid>>
          /\ UNCHANGED heap
      BY <2>1 DEF H!k_malloc
    <2>3. /\ Blk!Answer(n, Blk!NULL_PTR, Blk!Found(at))
          /\ \/ at # Blk!SIZE_MAX /\ Blk!Claim(t, tag, at, n)
             \/ at = Blk!SIZE_MAX /\ UNCHANGED <<tag, tid>>
          /\ UNCHANGED heap
      BY <2>2 DEF H!Answer, Blk!Answer, H!Claim, Blk!Claim, H!Found, Blk!Found, H!SIZE_MAX,
            Blk!SIZE_MAX, H!NULL_PTR, Blk!NULL_PTR, H!to_heap_ptr, Blk!to_heap_ptr
    <2> QED
      BY <2>1, <2>3 DEF Blk!k_malloc
  <1>2. /\ Blk!Delimits(tag')
        /\ \/ answer'.at = Blk!NULL_PTR /\ tag' = tag /\ tid' = tid
           \/ \E at \in Blk!Blocks : /\ answer'.at = Blk!to_heap_ptr(at) /\ tag[at] = 0
                                      /\ tag' = [tag EXCEPT ![at] = n]
                                      /\ tid' = [tid EXCEPT ![at] = t]
    BY <1>1, Constants, BlocksAssumption, Blk!MallocTakes
  <1>3. Blk!NULL_PTR = H!NULL_PTR
    BY DEF H!NULL_PTR, Blk!NULL_PTR, H!to_heap_ptr, Blk!to_heap_ptr
  <1>4. \A at \in H!Blocks : /\ Blk!to_heap_ptr(at).block = at
                             /\ Blk!to_heap_ptr(at) # H!NULL_PTR
    BY Constants DEF H!NULL_PTR, H!to_heap_ptr, Blk!to_heap_ptr
  <1>5. H!Blocks = Blk!Blocks
    BY Constants
  <1> QED
    BY <1>2, <1>3, <1>4, <1>5

\* What k_free does to them, with a pointer to the start of a block.
LEMMA FreeHere ==
    ASSUME Blk!Delimits(tag), tid \in [H!Blocks -> Tids], NEW t, NEW p \in H!Blocks,
           H!k_free(t, H!to_heap_ptr(p))
    PROVE  tid[p] = t /\ tag' = [tag EXCEPT ![p] = 0] /\ tid' = [tid EXCEPT ![p] = 0]
  <1>1. H!pointer_to_tag_idx(H!to_heap_ptr(p)) = p
    <2>1. PICK d \in Nat \ {0} : d = NUM_BLOCKS + 2
      BY Constants
    <2>2. p \in 0 .. d - 1
      BY <2>1, Constants
    <2>3. \A x \in 0 .. d - 1 : x % d = x
      OBVIOUS
    <2>4. p % d = p
      BY <2>2, <2>3
    <2> QED
      BY <2>1, <2>4 DEF H!pointer_to_tag_idx, H!to_heap_ptr
  <1>2. H!TidsRead(H!to_heap_ptr(p)) = {tid[p]}
    BY <1>1 DEF H!TidsRead, H!Read
  <1>3. tid[p] = t
    BY <1>2 DEF H!k_free, H!can_realloc_free
  <1>4. tag' = [b \in H!Blocks |-> IF b = p THEN 0 ELSE tag[b]]
    BY <1>1 DEF H!k_free, H!Cleared
  <1>5. tid' = [b \in H!Blocks |-> IF b = p THEN 0 ELSE tid[b]]
    BY <1>1 DEF H!k_free, H!Cleared
  <1>6. tag' = [tag EXCEPT ![p] = 0]
    BY <1>4, Constants DEF Blk!Delimits
  <1>7. tid' = [tid EXCEPT ![p] = 0]
    BY <1>5
  <1> QED
    BY <1>3, <1>6, <1>7

\* What k_free_all does to them.
LEMMA FreeAllHere ==
    ASSUME Blk!Delimits(tag), NEW t, H!k_free_all(t)
    PROVE  /\ \A i \in H!Blocks : tag'[i] = IF tid[i] = t THEN 0 ELSE tag[i]
           /\ tid' = tid /\ Blk!Delimits(tag')
  <1>1. Blk!k_free_all(t)
    BY DEF H!k_free_all, Blk!k_free_all, H!Walked, Blk!Walked, H!next_tag, Blk!next_tag,
           H!Blocks, Blk!Blocks, H!NoAnswer, Blk!NoAnswer, H!Answer, Blk!Answer,
           H!NULL_PTR, Blk!NULL_PTR, H!to_heap_ptr, Blk!to_heap_ptr
  <1> QED
    BY <1>1, Constants, BlocksAssumption, Blk!FreeAllTakes

\* A tag that is cleared leaves the others as they are.
LEMMA ClearHere ==
    ASSUME Blk!Delimits(tag), NEW p \in H!Blocks, tag' = [tag EXCEPT ![p] = 0]
    PROVE  /\ Blk!Delimits(tag')
           /\ \A i \in H!Blocks : tag'[i] = IF i = p THEN 0 ELSE tag[i]
  <1>1. PICK new : new = tag'
    OBVIOUS
  <1>2. /\ new = [i \in Blk!Blocks |-> new[i]] /\ DOMAIN new = Blk!Blocks
        /\ \A i \in Blk!Blocks : new[i] = IF i = p THEN 0 ELSE tag[i]
    BY <1>1, Constants DEF Blk!Delimits
  <1>3. Blk!Delimits(new)
    BY <1>2, Constants, BlocksAssumption, Blk!ClearKeeps
  <1> QED
    BY <1>1, <1>2, <1>3, Constants

----------------------------------------------------------------------------
(* The threads that a step ends.                                           *)

\* The scheduler neither ends a thread nor brings one back.
LEMMA SchedulerSparesStates ==
    ASSUME NEW ids, NEW st, do_scheduler(ids, st, NULL)
    PROVE  \A t \in Tids : state'[t] \in {"finished", "cancelled"} <=>
                               st[t] \in {"finished", "cancelled"}
  BY DEF do_scheduler, SwitchTo, choose_next_thread, can_schedule_thread

\* The steps of the threads that touch neither the tags nor a walk.
TableStep ==
    \/ Working /\ (YieldAny \/ \E armed \in BOOLEAN : SetTimer(armed))
    \/ Working /\ \E destroy \in BOOLEAN : SetKernelConfig(destroy)
    \/ Working /\ StackError
    \/ At("done") /\ CleanupThread
    \/ Tick \/ SetFinished \/ YieldAsm \/ Unreachable \/ Halted

\* None of them ends a thread that was not at its end.
LEMMA TableStepEndsNone ==
    ASSUME SafeInv, TableStep, walk' = walk, NEW t \in Tids
    PROVE  Ended(t)' <=> Ended(t)
  <1>0. kernel = "up" => current \in Tids
    BY Constants DEF SafeInv, TypeOK
  <1>1. CASE YieldAny \/ Tick
    BY <1>1, SchedulerSparesStates DEF YieldAny, Tick, Ended
  <1>2. CASE StackError
    <2>1. PICK ids : ids = id'
      OBVIOUS
    <2>2. do_scheduler(ids, state, NULL) \/ state' = state
      BY <1>2, <2>1 DEF StackError
    <2> QED
      BY <1>2, <2>2, SchedulerSparesStates DEF StackError, Ended
  <1>3. CASE (\E armed \in BOOLEAN : SetTimer(armed))
             \/ (\E destroy \in BOOLEAN : SetKernelConfig(destroy)) \/ Unreachable \/ Halted
    BY <1>3 DEF SetTimer, SetKernelConfig, Unreachable, Halted, vars, Ended
  <1>4. CASE At("done") /\ CleanupThread
    BY <1>4, <1>0 DEF At, CleanupThread, Ended, SafeInv, TypeOK
  <1>5. CASE SetFinished
    BY <1>5, <1>0 DEF SetFinished, AtStage, Ended, SafeInv, TypeOK
  <1>6. CASE YieldAsm
    <2>1. state'[t] \in {"finished", "cancelled"} <=> state[t] \in {"finished", "cancelled"}
      BY <1>6, SchedulerSparesStates DEF YieldAsm
    <2> QED
      BY <1>6, <1>0, <2>1 DEF YieldAsm, AtStage, Ended, SafeInv, TypeOK
  <1> QED
    BY <1>1, <1>2, <1>3, <1>4, <1>5, <1>6 DEF TableStep

\* A new thread has not ended, and its creation ends no other.
LEMMA StartEndsNone ==
    ASSUME SafeInv, NEW n \in Tids, Start(n), walk \in [Tids -> [at : H!Blocks, do : Points]],
           NEW t \in Tids
    PROVE  IF t = n THEN ~Ended(t)' ELSE Ended(t)' <=> Ended(t)
  <1>1. /\ walk'[t] = IF t = n THEN Nowhere ELSE walk[t]
    BY DEF Start
  <1>2. CASE n = 0 /\ Boot
    <2>0. PICK st, ids : st = [state EXCEPT ![0] = "init"] /\ ids = id'
      OBVIOUS
    <2>1. st[t] = IF t = n THEN "init" ELSE state[t]
      BY <1>2, <2>0 DEF SafeInv, TypeOK
    <2>2. do_scheduler(ids, st, NULL)
      BY <1>2, <2>0 DEF Boot
    <2>3. state'[t] \in {"finished", "cancelled"} 
                <=> t # n /\ state[t] \in {"finished", "cancelled"}
      BY <2>1, <2>2, SchedulerSparesStates
    <2>4. stage'[t] = IF t = n THEN "work" ELSE stage[t]
      BY <1>2 DEF Boot, init_thread, SafeInv, TypeOK
    <2> QED
      BY <1>1, <2>3, <2>4 DEF Ended, Nowhere
  <1>3. CASE FirstFreeSlot(n) /\ \E remove \in RemoveSets : AddThread(remove)
    <2>1. PICK u \in Tids : /\ FirstFreeSlot(u)
                            /\ stage' = [stage EXCEPT ![u] = "work"]
                            /\ state' = [state EXCEPT ![u] = "init"]
      BY <1>3 DEF AddThread, init_thread
    <2>2. u = n
      BY <1>3, <2>1, Constants DEF FirstFreeSlot
    <2> QED
      BY <1>1, <2>1, <2>2 DEF Ended, Nowhere, SafeInv, TypeOK
  <1> QED
    BY <1>2, <1>3 DEF Start

\* A cancel ends one thread.
LEMMA CancelEndsOne ==
    ASSUME SafeInv, NEW n \in Tids, ThreadCancel(n), walk' = walk, NEW t \in Tids
    PROVE  Ended(t)' <=> t = n \/ Ended(t)
  <1>1. PICK st : st = [state EXCEPT ![n] = "cancelled"]
    OBVIOUS
  <1>2. st[t] = IF t = n THEN "cancelled" ELSE state[t]
    BY <1>1 DEF SafeInv, TypeOK
  <1>3. do_scheduler(id, st, NULL) \/ state' = st
    BY <1>1 DEF ThreadCancel
  <1>4. state'[t] \in {"finished", "cancelled"} <=> st[t] \in {"finished", "cancelled"}
    BY <1>3, SchedulerSparesStates
  <1> QED
    BY <1>2, <1>4 DEF ThreadCancel, Ended

----------------------------------------------------------------------------
(* The invariant.                                                          *)

\* At the boot no block has a tag and no walk has begun.
LEMMA CleanupStarts == CleanupInit => CleanupInv
  <1> SUFFICES ASSUME CleanupInit PROVE CleanupInv
    OBVIOUS
  <1>1. SafeInv
    BY SafeInit DEF CleanupInit
  <1>2. /\ tag = [i \in H!Blocks |-> 0] /\ tid = [i \in H!Blocks |-> 0]
        /\ walk = [t \in Tids |-> Nowhere] /\ held = {}
    BY DEF CleanupInit, H!HeapInit
  <1>3. Blk!Delimits(tag)
    BY <1>2, Constants DEF Blk!Delimits
  <1>4. CleanupTypeOK
    BY <1>2, <1>3, Constants DEF CleanupTypeOK, Nowhere, Points
  <1>5. HeldIsTagged /\ WalksAreRight
    BY <1>2 DEF HeldIsTagged, WalksAreRight, Walking, OwnsNothing, Nowhere
  <1> QED
    BY <1>1, <1>4, <1>5 DEF CleanupInv

\* Everything that happens to the threads is a step of the scheduler's module.
LEMMA ThreadsStep == [CleanupNext]_cleanupVars => [Next]_vars
  BY DEF CleanupNext, cleanupVars, Allocate, Free, Cancel, Start, Destroy, BeginWalk, ReadTag,
         ReadTid, ClearTag, NextTag, JumpOver, EndWalk, Next, UserStep, ThreadEnd

\* A step of a thread in its worker leaves the blocks of the threads that walk
\* or have ended to them, and gives them none.
LEMMA OthersStep ==
    ASSUME WalksAreRight, CleanupTypeOK, walk' = walk,
           NEW who \in Tids, walk[who].do = "work" /\ ~Ended(who),
           \A t \in Tids : Ended(t)' <=> Ended(t),
           \A t \in Tids : \A i \in H!Blocks : t # who =>
               /\ tag'[i] # 0 /\ tid'[i] = t => tag[i] # 0 /\ tid[i] = t
               /\ tag[i] # 0 /\ tid[i] = t => tag'[i] # 0 /\ tid'[i] = t
               /\ t \in Finishers /\ tid'[i] = t => tid[i] = t
    PROVE  WalksAreRight'
  <1> SUFFICES ASSUME NEW t \in Tids
               PROVE  /\ walk[t].do # "work" => t \in Finishers
                      /\ walk[t].do \in Walking /\ ~Ended(t) => WalkIsRight(t)'
                      /\ Ended(t) => OwnsNothing(t)'
    BY DEF WalksAreRight
  <1>1. walk[t].do # "work" => t \in Finishers
    BY DEF WalksAreRight
  <1>2. ASSUME walk[t].do \in Walking, ~Ended(t) PROVE WalkIsRight(t)'
    <2>1. WalkIsRight(t) /\ t \in Finishers /\ t # who /\ walk[t].at \in H!Blocks
      BY <1>2 DEF WalksAreRight, Walking, CleanupTypeOK
    <2> QED
      BY <2>1 DEF WalkIsRight, Behind
  <1>3. ASSUME Ended(t) PROVE OwnsNothing(t)'
    <2>1. OwnsNothing(t) /\ t # who
      BY <1>3 DEF WalksAreRight
    <2> QED
      BY <1>3, <2>1 DEF OwnsNothing
  <1> QED
    BY <1>1, <1>2, <1>3

\* The thread that makes a call is in its worker, and has not ended.
LEMMA CallerIsLive ==
    ASSUME CleanupInv, Working, kernel = "up", stage[current] = "work"
    PROVE  current \in Tids /\ walk[current].do = "work" /\ ~Ended(current)
  <1>1. current \in Tids
    BY DEF CleanupInv, SafeInv, TypeOK
  <1> QED
    BY <1>1 DEF CleanupInv, SafeInv, CurrentIsLive, Working, Ended

\* An allocation takes no block that is tagged, and is tagged for its thread.
LEMMA AllocateKeeps ==
    ASSUME CleanupInv, NEW n \in Sizes, Allocate(n)
    PROVE  CleanupTypeOK' /\ HeldIsTagged' /\ WalksAreRight'
  <1> USE DEF CleanupInv
  <1>1. /\ current \in Tids /\ walk[current].do = "work" /\ ~Ended(current)
        /\ walk' = walk /\ vars' = vars /\ H!k_malloc(current, n)
        /\ held' = IF answer'.at = H!NULL_PTR THEN held
                   ELSE held \cup {[at |-> answer'.at.block, size |-> n, owner |-> current]}
    BY CallerIsLive DEF Allocate, Syscall, AtStage
  <1>2. Blk!Delimits(tag) /\ n \in Nat \ {0}
    BY BlocksAssumption DEF CleanupTypeOK
  <1>3. /\ Blk!Delimits(tag')
        /\ \/ answer'.at = H!NULL_PTR /\ tag' = tag /\ tid' = tid
           \/ \E at \in H!Blocks : /\ answer'.at.block = at /\ answer'.at # H!NULL_PTR
                                   /\ tag[at] = 0
                                   /\ tag' = [tag EXCEPT ![at] = n]
                                   /\ tid' = [tid EXCEPT ![at] = current]
    BY <1>1, <1>2, MallocHere
  <1>4. \A t \in Tids : Ended(t)' <=> Ended(t)
    BY <1>1 DEF Ended, vars
  <1>5. CASE answer'.at = H!NULL_PTR /\ tag' = tag /\ tid' = tid
    <2>1. CleanupTypeOK' /\ HeldIsTagged'
      BY <1>1, <1>5 DEF CleanupTypeOK, HeldIsTagged, Blk!Delimits
    <2>2. WalksAreRight'
      BY <1>1, <1>4, <1>5, OthersStep
    <2> QED
      BY <2>1, <2>2
  <1>6. CASE \E at \in H!Blocks : /\ answer'.at.block = at /\ answer'.at # H!NULL_PTR
                                  /\ tag[at] = 0
                                  /\ tag' = [tag EXCEPT ![at] = n]
                                  /\ tid' = [tid EXCEPT ![at] = current]
    <2>1. PICK at \in H!Blocks : /\ answer'.at.block = at /\ answer'.at # H!NULL_PTR
                                 /\ tag[at] = 0
                                 /\ tag' = [tag EXCEPT ![at] = n]
                                 /\ tid' = [tid EXCEPT ![at] = current]
      BY <1>6
    <2>2. held' = held \cup {[at |-> at, size |-> n, owner |-> current]}
      BY <1>1, <2>1
    <2>3. /\ \A i \in H!Blocks : tag'[i] = IF i = at THEN n ELSE tag[i]
          /\ \A i \in H!Blocks : tid'[i] = IF i = at THEN current ELSE tid[i]
      BY <2>1, <1>2, Constants DEF CleanupTypeOK, Blk!Delimits
    <2>4. CleanupTypeOK'
      <3>1. tid' \in [H!Blocks -> Tids]
        BY <1>1, <2>1 DEF CleanupTypeOK
      <3>2. held' \subseteq [at : H!Blocks, size : Nat \ {0}, owner : Tids]
        BY <1>1, <1>2, <2>2 DEF CleanupTypeOK
      <3> QED
        BY <1>1, <1>3, <3>1, <3>2 DEF CleanupTypeOK
    <2>5. HeldIsTagged'
      <3> SUFFICES ASSUME NEW a \in held'
                   PROVE  tag'[a.at] = a.size /\ tid'[a.at] = a.owner /\ walk[a.owner].do = "work"
        BY <1>1 DEF HeldIsTagged
      <3>1. CASE a = [at |-> at, size |-> n, owner |-> current]
        BY <1>1, <2>3, <3>1
      <3>2. CASE a \in held
        <4>1. /\ tag[a.at] = a.size /\ tid[a.at] = a.owner /\ walk[a.owner].do = "work"
              /\ a.at \in H!Blocks /\ a.size # 0
          BY <3>2 DEF HeldIsTagged, CleanupTypeOK
        <4> QED
          BY <2>1, <2>3, <4>1
      <3> QED
        BY <2>2, <3>1, <3>2
    <2>6. \A t \in Tids : \A i \in H!Blocks : t # current =>
               /\ tag'[i] # 0 /\ tid'[i] = t => tag[i] # 0 /\ tid[i] = t
               /\ tag[i] # 0 /\ tid[i] = t => tag'[i] # 0 /\ tid'[i] = t
               /\ t \in Finishers /\ tid'[i] = t => tid[i] = t
      BY <2>1, <2>3
    <2>7. WalksAreRight'
      BY <1>1, <1>4, <2>6, OthersStep
    <2> QED
      BY <2>4, <2>5, <2>7
  <1> QED
    BY <1>3, <1>5, <1>6

\* A thread that frees what it was given frees nothing of the others.
LEMMA FreeKeeps ==
    ASSUME 0 \notin Finishers, CleanupInv, NEW p \in H!Blocks, Free(p)
    PROVE  CleanupTypeOK' /\ HeldIsTagged' /\ WalksAreRight'
  <1> USE DEF CleanupInv
  <1>1. /\ current \in Tids /\ walk[current].do = "work" /\ ~Ended(current)
        /\ walk' = walk /\ vars' = vars
        /\ held' = held \ Allocation(current, p)
    BY CallerIsLive DEF Free, Syscall, AtStage
  <1>2. /\ Blk!Delimits(tag) /\ tid[p] = current
        /\ tag' = [tag EXCEPT ![p] = 0] /\ tid' = [tid EXCEPT ![p] = 0]
    BY FreeHere DEF Free, CleanupTypeOK
  <1>3. Blk!Delimits(tag') /\ \A i \in H!Blocks : tag'[i] = IF i = p THEN 0 ELSE tag[i]
    BY <1>2, ClearHere
  <1>4. \A i \in H!Blocks : tid'[i] = IF i = p THEN 0 ELSE tid[i]
    BY <1>2 DEF CleanupTypeOK
  <1>5. \A t \in Tids : Ended(t)' <=> Ended(t)
    BY <1>1 DEF Ended, vars
  <1>6. CleanupTypeOK'
    <2>1. tid' \in [H!Blocks -> Tids]
      BY <1>2, Constants DEF CleanupTypeOK
    <2> QED
      BY <1>1, <1>3, <2>1 DEF CleanupTypeOK
  <1>7. HeldIsTagged'
    <2> SUFFICES ASSUME NEW a \in held'
                 PROVE  tag'[a.at] = a.size /\ tid'[a.at] = a.owner /\ walk[a.owner].do = "work"
      BY <1>1 DEF HeldIsTagged
    <2>1. /\ tag[a.at] = a.size /\ tid[a.at] = a.owner /\ walk[a.owner].do = "work"
          /\ a.at \in H!Blocks /\ a \notin Allocation(current, p)
      BY <1>1 DEF HeldIsTagged, CleanupTypeOK
    <2>2. a.at # p
      BY <1>1, <1>2, <2>1 DEF Allocation
    <2> QED
      BY <1>3, <1>4, <2>1, <2>2
  <1>8. \A t \in Tids : \A i \in H!Blocks : t # current =>
             /\ tag'[i] # 0 /\ tid'[i] = t => tag[i] # 0 /\ tid[i] = t
             /\ tag[i] # 0 /\ tid[i] = t => tag'[i] # 0 /\ tid'[i] = t
             /\ t \in Finishers /\ tid'[i] = t => tid[i] = t
    BY <1>2, <1>3, <1>4
  <1>9. WalksAreRight'
    BY <1>1, <1>5, <1>8, OthersStep
  <1> QED
    BY <1>6, <1>7, <1>9

\* A cancel takes the blocks of its thread, and what the others hold stays.
LEMMA CancelKeeps ==
    ASSUME CleanupInv, NEW n \in Tids, Cancel(n)
    PROVE  CleanupTypeOK' /\ HeldIsTagged' /\ WalksAreRight'
  <1> USE DEF CleanupInv
  <1>1. ThreadCancel(n) /\ H!k_free_all(n) /\ walk' = walk /\ held' = NotOwnedBy(n)
    BY DEF Cancel
  <1>2. /\ \A i \in H!Blocks : tag'[i] = IF tid[i] = n THEN 0 ELSE tag[i]
        /\ tid' = tid /\ Blk!Delimits(tag')
    BY <1>1, FreeAllHere DEF CleanupTypeOK
  <1>3. \A t \in Tids : Ended(t)' <=> t = n \/ Ended(t)
    BY <1>1, CancelEndsOne
  <1>4. CleanupTypeOK'
    BY <1>1, <1>2 DEF CleanupTypeOK, NotOwnedBy
  <1>5. HeldIsTagged'
    <2> SUFFICES ASSUME NEW a \in held'
                 PROVE  tag'[a.at] = a.size /\ tid'[a.at] = a.owner /\ walk[a.owner].do = "work"
      BY <1>1 DEF HeldIsTagged
    <2>1. /\ tag[a.at] = a.size /\ tid[a.at] = a.owner /\ walk[a.owner].do = "work"
          /\ a.at \in H!Blocks /\ a.owner # n
      BY <1>1 DEF HeldIsTagged, CleanupTypeOK, NotOwnedBy
    <2> QED
      BY <1>2, <2>1
  <1>6. ASSUME NEW t \in Tids
        PROVE  /\ walk[t].do # "work" => t \in Finishers
               /\ walk[t].do \in Walking /\ ~Ended(t)' => WalkIsRight(t)'
               /\ Ended(t)' => OwnsNothing(t)'
    <2>1. walk[t].do # "work" => t \in Finishers
      BY DEF WalksAreRight
    <2>2. ASSUME walk[t].do \in Walking, ~Ended(t)' PROVE WalkIsRight(t)'
      <3>1. t # n /\ WalkIsRight(t) /\ walk[t].at \in H!Blocks
        BY <1>3, <2>2 DEF WalksAreRight, CleanupTypeOK
      <3> QED
        BY <1>1, <1>2, <3>1 DEF WalkIsRight, Behind
    <2>3. ASSUME Ended(t)' PROVE OwnsNothing(t)'
      <3>1. t # n => OwnsNothing(t)
        BY <1>3, <2>3 DEF WalksAreRight
      <3> QED
        BY <1>2, <3>1 DEF OwnsNothing
    <2> QED
      BY <2>1, <2>2, <2>3
  <1>7. WalksAreRight'
    BY <1>1, <1>6 DEF WalksAreRight
  <1> QED
    BY <1>4, <1>5, <1>7

\* A new thread begins in its worker; the blocks of its slot, if the thread
\* before it was destroyed, stay as they are.
LEMMA StartKeeps ==
    ASSUME CleanupInv, NEW n \in Tids, Start(n)
    PROVE  CleanupTypeOK' /\ HeldIsTagged' /\ WalksAreRight'
  <1> USE DEF CleanupInv
  <1>1. /\ tag' = tag /\ tid' = tid /\ held' = held
        /\ \A t \in Tids : walk'[t] = IF t = n THEN Nowhere ELSE walk[t]
        /\ walk' \in [Tids -> [at : H!Blocks, do : Points]]
    BY Constants DEF Start, blocks, CleanupTypeOK, Nowhere, Points
  <1>2. \A t \in Tids : IF t = n THEN ~Ended(t)' ELSE Ended(t)' <=> Ended(t)
    BY StartEndsNone DEF CleanupTypeOK
  <1>3. CleanupTypeOK'
    BY <1>1 DEF CleanupTypeOK, Blk!Delimits
  <1>4. HeldIsTagged'
    BY <1>1 DEF HeldIsTagged, CleanupTypeOK, Nowhere
  <1>5. ASSUME NEW t \in Tids
        PROVE  /\ walk'[t].do # "work" => t \in Finishers
               /\ walk'[t].do \in Walking /\ ~Ended(t)' => WalkIsRight(t)'
               /\ Ended(t)' => OwnsNothing(t)'
    <2>1. CASE t = n
      <3>1. walk'[t].do = "work" /\ ~Ended(t)'
        BY <1>1, <1>2, <2>1 DEF Nowhere
      <3> QED
        BY <3>1 DEF Walking
    <2>2. CASE t # n
      <3>1. walk'[t] = walk[t] /\ (Ended(t)' <=> Ended(t))
        BY <1>1, <1>2, <2>2
      <3>2. /\ walk[t].do # "work" => t \in Finishers
            /\ walk[t].do \in Walking /\ ~Ended(t) => WalkIsRight(t)
            /\ Ended(t) => OwnsNothing(t)
        BY DEF WalksAreRight
      <3> QED
        BY <1>1, <3>1, <3>2 DEF WalkIsRight, Behind, OwnsNothing
    <2> QED
      BY <2>1, <2>2
  <1>6. WalksAreRight'
    BY <1>5 DEF WalksAreRight
  <1> QED
    BY <1>3, <1>4, <1>6

\* A step that touches neither the tags nor the walks, whoever it schedules or
\* destroys.
LEMMA TableStepKeeps ==
    ASSUME CleanupInv, TableStep, UNCHANGED <<tag, tid, walk>>, held' \subseteq held
    PROVE  CleanupTypeOK' /\ HeldIsTagged' /\ WalksAreRight'
  <1> USE DEF CleanupInv
  <1>1. \A t \in Tids : Ended(t)' <=> Ended(t)
    BY TableStepEndsNone
  <1>2. CleanupTypeOK'
    BY DEF CleanupTypeOK, Blk!Delimits
  <1>3. HeldIsTagged'
    BY DEF HeldIsTagged
  <1>4. ASSUME NEW t \in Tids
        PROVE  /\ walk'[t].do # "work" => t \in Finishers
               /\ walk'[t].do \in Walking /\ ~Ended(t)' => WalkIsRight(t)'
               /\ Ended(t)' => OwnsNothing(t)'
    <2>1. /\ walk[t].do # "work" => t \in Finishers
          /\ walk[t].do \in Walking /\ ~Ended(t) => WalkIsRight(t)
          /\ Ended(t) => OwnsNothing(t)
      BY DEF WalksAreRight
    <2> QED
      BY <1>1, <2>1 DEF WalkIsRight, Behind, OwnsNothing
  <1>5. WalksAreRight'
    BY <1>4 DEF WalksAreRight
  <1> QED
    BY <1>2, <1>3, <1>5

----------------------------------------------------------------------------
(* The walk over the tags.                                                 *)

\* A step of a walk moves the walk of the current thread only, which has not
\* ended before.
LEMMA WalkStepIs ==
    ASSUME CleanupInv, NEW point \in Points \ {"done"}, At(point), vars' = vars,
           NEW to \in [at : H!Blocks, do : Points], walk' = [walk EXCEPT ![current] = to]
    PROVE  /\ current \in Tids /\ ~Ended(current) /\ walk[current].do = point
           /\ walk[current].at \in H!Blocks
           /\ walk' \in [Tids -> [at : H!Blocks, do : Points]] /\ walk'[current] = to
           /\ \A t \in Tids : t # current => walk'[t] = walk[t]
           /\ \A t \in Tids : Ended(t)' <=> Ended(t) \/ (t = current /\ to.do = "done")
  <1>1. current \in Tids /\ walk[current].do = point /\ stage[current] = "work"
    BY DEF CleanupInv, SafeInv, TypeOK, At
  <1>2. walk \in [Tids -> [at : H!Blocks, do : Points]]
    BY DEF CleanupInv, CleanupTypeOK
  <1>3. ~Ended(current)
    BY <1>1 DEF CleanupInv, SafeInv, CurrentIsLive, At, Ended
  <1>4. /\ walk' \in [Tids -> [at : H!Blocks, do : Points]] /\ walk'[current] = to
        /\ \A t \in Tids : t # current => walk'[t] = walk[t]
    BY <1>1, <1>2
  <1>5. ASSUME NEW t \in Tids PROVE Ended(t)' <=> Ended(t) \/ (t = current /\ to.do = "done")
    <2>1. CASE t = current
      BY <1>1, <1>3, <1>4, <2>1 DEF Ended, vars
    <2>2. CASE t # current
      BY <1>4, <2>2 DEF Ended, vars
    <2> QED
      BY <2>1, <2>2
  <1> QED
    BY <1>1, <1>2, <1>3, <1>4, <1>5

\* The others' walks are as they were if no block is given to them.
LEMMA OtherWalks ==
    ASSUME CleanupInv, NEW t \in Tids, walk'[t] = walk[t], Ended(t)' <=> Ended(t),
           tid' = tid, \A i \in H!Blocks : tid[i] = t => tag'[i] = tag[i]
    PROVE  /\ walk'[t].do # "work" => t \in Finishers
           /\ walk'[t].do \in Walking /\ ~Ended(t)' => WalkIsRight(t)'
           /\ Ended(t)' => OwnsNothing(t)'
  <1>1. /\ walk[t].do # "work" => t \in Finishers
        /\ walk[t].do \in Walking /\ ~Ended(t) => WalkIsRight(t)
        /\ Ended(t) => OwnsNothing(t)
        /\ walk[t].at \in H!Blocks
    BY DEF CleanupInv, WalksAreRight, CleanupTypeOK
  <1>2. ASSUME walk'[t].do \in Walking, ~Ended(t)' PROVE WalkIsRight(t)'
    BY <1>1, <1>2 DEF WalkIsRight, Behind
  <1>3. ASSUME Ended(t)' PROVE OwnsNothing(t)'
    BY <1>1, <1>3 DEF OwnsNothing
  <1> QED
    BY <1>1, <1>2, <1>3

\* What remains to be shown of a step of a walk: that it clears no tag of
\* another thread, and leaves no block of its own behind it.
WalkStep(point, to) ==
    /\ point \in Points \ {"done"} /\ At(point) /\ current \in Finishers
    /\ to \in [at : H!Blocks, do : Points] /\ to.do # "work"
    /\ walk' = [walk EXCEPT ![current] = to]
    /\ vars' = vars
    /\ held' \subseteq held /\ \A a \in held' : a.owner # current
    /\ tid' = tid /\ Blk!Delimits(tag')
    /\ \A i \in H!Blocks : tag'[i] = tag[i] \/ (tag'[i] = 0 /\ tid[i] = current)
    /\ to.do \in Walking => WalkIsRight(current)'
    /\ to.do = "done" => OwnsNothing(current)'

\* Such a step keeps the invariant.
LEMMA WalkStepKeeps ==
    ASSUME CleanupInv, NEW point, NEW to, WalkStep(point, to)
    PROVE  CleanupTypeOK' /\ HeldIsTagged' /\ WalksAreRight'
  <1>1. /\ current \in Tids /\ current' = current /\ ~Ended(current)
        /\ walk' \in [Tids -> [at : H!Blocks, do : Points]] /\ walk'[current] = to
        /\ \A t \in Tids : t # current => walk'[t] = walk[t]
        /\ \A t \in Tids : Ended(t)' <=> Ended(t) \/ (t = current /\ to.do = "done")
    BY WalkStepIs DEF vars, WalkStep
  <1>2. CleanupTypeOK'
    BY <1>1 DEF CleanupInv, CleanupTypeOK, WalkStep
  <1>3. HeldIsTagged'
    <2> SUFFICES ASSUME NEW a \in held'
                 PROVE  tag'[a.at] = a.size /\ tid'[a.at] = a.owner /\ walk'[a.owner].do = "work"
      BY DEF HeldIsTagged
    <2>1. /\ tid' = tid /\ (tag'[a.at] = tag[a.at] \/ tid[a.at] = current)
          /\ a \in held /\ a.owner # current /\ a.at \in H!Blocks /\ a.owner \in Tids
          /\ tag[a.at] = a.size /\ tid[a.at] = a.owner /\ walk[a.owner].do = "work"
      BY DEF CleanupInv, HeldIsTagged, CleanupTypeOK, WalkStep
    <2> QED
      BY <1>1, <2>1
  <1>4. ASSUME NEW t \in Tids
        PROVE  /\ walk'[t].do # "work" => t \in Finishers
               /\ walk'[t].do \in Walking /\ ~Ended(t)' => WalkIsRight(t)'
               /\ Ended(t)' => OwnsNothing(t)'
    <2>1. CASE t = current
      BY <1>1, <2>1 DEF WalkStep
    <2>2. CASE t # current
      <3>1. walk'[t] = walk[t] /\ (Ended(t)' <=> Ended(t))
        BY <1>1, <2>2
      <3>2. tid' = tid /\ \A i \in H!Blocks : tid[i] = t => tag'[i] = tag[i]
        BY <2>2 DEF WalkStep
      <3> QED
        BY <3>1, <3>2, OtherWalks
    <2> QED
      BY <2>1, <2>2
  <1>5. WalksAreRight'
    BY <1>4 DEF WalksAreRight
  <1> QED
    BY <1>2, <1>3, <1>5

\* What the steps of a walk know about where they are.
LEMMA WalkIsAt ==
    ASSUME CleanupInv, NEW point \in Points \ {"done"}, At(point)
    PROVE  /\ current \in Tids /\ ~Ended(current) /\ walk[current].do = point
           /\ Block \in H!Blocks /\ Block \in Nat /\ walk[current].at = Block
           /\ walk[current] = [at |-> Block, do |-> point]
           /\ Blk!Delimits(tag) /\ walk \in [Tids -> [at : H!Blocks, do : Points]]
           /\ point # "work" => /\ current \in Finishers /\ WalkIsRight(current)
                                /\ \A a \in held : a.owner # current
  <1>1. /\ current \in Tids /\ walk[current].do = point /\ stage[current] = "work"
        /\ Blk!Delimits(tag) /\ walk \in [Tids -> [at : H!Blocks, do : Points]]
    BY DEF CleanupInv, SafeInv, TypeOK, At, CleanupTypeOK
  <1>2. ~Ended(current)
    BY <1>1 DEF CleanupInv, SafeInv, CurrentIsLive, At, Ended
  <1>3. Block \in H!Blocks /\ Block \in Nat
    BY <1>1, Constants DEF Block
  <1>4. point # "work" => current \in Finishers /\ WalkIsRight(current)
    BY <1>1, <1>2 DEF CleanupInv, WalksAreRight, Points, Walking
  <1>5. point # "work" => \A a \in held : a.owner # current
    BY <1>1 DEF CleanupInv, HeldIsTagged
  <1> QED
    BY <1>1, <1>2, <1>3, <1>4, <1>5 DEF Block

\* A walk goes to another point of the block it is at.
LEMMA GoIs ==
    ASSUME NEW where \in [at : H!Blocks, do : Points], NEW point
    PROVE  [where EXCEPT !.do = point] = [at |-> where.at, do |-> point]
  <1>1. PICK i, p : where = [at |-> i, do |-> p]
    OBVIOUS
  <1> QED
    BY <1>1

\* What is behind a walk, and what it knows of the block that it is at.
LEMMA WalkKnows ==
    ASSUME NEW t, NEW b, NEW point,
           WalkIsRight(t), walk[t].at = b, walk[t].do = point
    PROVE  /\ \A i \in H!Blocks : i < b /\ tag[i] # 0 => tid[i] # t
           /\ point = "tid" /\ tid[b] = t => tag[b] # 0
           /\ point = "clear" => tid[b] = t /\ tag[b] # 0
  BY DEF WalkIsRight, Behind

\* The walk begins: the programs have nothing of its thread any more.
LEMMA BeginWalkKeeps ==
    ASSUME CleanupInv, BeginWalk
    PROVE  CleanupTypeOK' /\ HeldIsTagged' /\ WalksAreRight'
  <1>1. /\ At("work") /\ current \in Finishers /\ vars' = vars /\ tag' = tag /\ tid' = tid
        /\ walk' = [walk EXCEPT ![current] = [at |-> 0, do |-> "tag"]]
        /\ held' = NotOwnedBy(current)
    BY DEF BeginWalk, blocks
  <1>2. PICK to \in [at : H!Blocks, do : Points] : to = [at |-> 0, do |-> "tag"]
    BY Constants DEF Points
  <1>3. "work" \in Points \ {"done"} /\ walk' = [walk EXCEPT ![current] = to] /\ current' = current
    BY <1>1, <1>2 DEF Points, vars
  <1>4. walk'[current] = to /\ Blk!Delimits(tag)
    BY <1>1, <1>2, <1>3, WalkIsAt
  <1>5. WalkIsRight(current)'
    BY <1>1, <1>2, <1>3, <1>4, Constants DEF WalkIsRight, Behind
  <1>6. held' \subseteq held /\ \A a \in held' : a.owner # current
    BY <1>1 DEF NotOwnedBy
  <1>7. WalkStep("work", to)
    BY <1>1, <1>2, <1>3, <1>4, <1>5, <1>6 DEF WalkStep
  <1> QED
    BY <1>7, WalkStepKeeps

\* A block with a tag may be the thread's; a block without is nobody's.
LEMMA ReadTagKeeps ==
    ASSUME CleanupInv, ReadTag
    PROVE  CleanupTypeOK' /\ HeldIsTagged' /\ WalksAreRight'
  <1>1. /\ At("tag") /\ vars' = vars /\ tag' = tag /\ tid' = tid /\ held' = held
        /\ Go(IF tag[Block] # 0 THEN "tid" ELSE "next")
        /\ "tag" \in Points \ {"done"} /\ "tag" # "work" /\ current' = current
    BY DEF ReadTag, blocks, vars, Points
  <1>2. /\ Block \in H!Blocks /\ Block \in Nat /\ walk[current] = [at |-> Block, do |-> "tag"]
        /\ current \in Finishers /\ WalkIsRight(current) /\ Blk!Delimits(tag)
        /\ \A a \in held : a.owner # current
        /\ current \in Tids /\ walk \in [Tids -> [at : H!Blocks, do : Points]]
    BY <1>1, WalkIsAt
  <1>3. PICK to \in [at : H!Blocks, do : Points] :
            to = [at |-> Block, do |-> IF tag[Block] # 0 THEN "tid" ELSE "next"]
    BY <1>2 DEF Points
  <1>4. walk' = [walk EXCEPT ![current] = to] /\ walk'[current] = to
    <2>1. PICK point : point = IF tag[Block] # 0 THEN "tid" ELSE "next"
      OBVIOUS
    <2>2. [walk[current] EXCEPT !.do = point] = to
      BY <1>2, <1>3, <2>1, GoIs
    <2>3. Go(point)
      BY <1>1, <2>1
    <2> QED
      BY <1>2, <2>2, <2>3 DEF Go
  <1>5. WalkIsRight(current)'
    <2>1. walk[current].at = Block /\ walk[current].do = "tag"
      BY <1>2
    <2>2. \A i \in H!Blocks : i < Block /\ tag[i] # 0 => tid[i] # current
      BY <1>2, <2>1, WalkKnows
    <2> QED
      BY <1>1, <1>3, <1>4, <2>2 DEF WalkIsRight, Behind
  <1>6. to.do # "work" /\ to.do # "done"
    BY <1>3
  <1>7. WalkStep("tag", to)
    BY <1>1, <1>2, <1>3, <1>4, <1>5, <1>6 DEF WalkStep
  <1> QED
    BY <1>7, WalkStepKeeps

\* A block with a tag that has the thread's ID is the thread's.
LEMMA ReadTidKeeps ==
    ASSUME CleanupInv, ReadTid
    PROVE  CleanupTypeOK' /\ HeldIsTagged' /\ WalksAreRight'
  <1>1. /\ At("tid") /\ vars' = vars /\ tag' = tag /\ tid' = tid /\ held' = held
        /\ Go(IF tid[Block] = current THEN "clear" ELSE "next")
        /\ "tid" \in Points \ {"done"} /\ "tid" # "work" /\ current' = current
    BY DEF ReadTid, blocks, vars, Points
  <1>2. /\ Block \in H!Blocks /\ Block \in Nat /\ walk[current] = [at |-> Block, do |-> "tid"]
        /\ current \in Finishers /\ WalkIsRight(current) /\ Blk!Delimits(tag)
        /\ \A a \in held : a.owner # current
        /\ current \in Tids /\ walk \in [Tids -> [at : H!Blocks, do : Points]]
    BY <1>1, WalkIsAt
  <1>3. PICK to \in [at : H!Blocks, do : Points] :
            to = [at |-> Block, do |-> IF tid[Block] = current THEN "clear" ELSE "next"]
    BY <1>2 DEF Points
  <1>4. walk' = [walk EXCEPT ![current] = to] /\ walk'[current] = to
    <2>1. PICK point : point = IF tid[Block] = current THEN "clear" ELSE "next"
      OBVIOUS
    <2>2. [walk[current] EXCEPT !.do = point] = to
      BY <1>2, <1>3, <2>1, GoIs
    <2>3. Go(point)
      BY <1>1, <2>1
    <2> QED
      BY <1>2, <2>2, <2>3 DEF Go
  <1>5. WalkIsRight(current)'
    <2>1. walk[current].at = Block /\ walk[current].do = "tid"
      BY <1>2
    <2>2. /\ \A i \in H!Blocks : i < Block /\ tag[i] # 0 => tid[i] # current
          /\ tid[Block] = current => tag[Block] # 0
      BY <1>2, <2>1, WalkKnows
    <2> QED
      BY <1>1, <1>3, <1>4, <2>2 DEF WalkIsRight, Behind
  <1>6. to.do # "work" /\ to.do # "done"
    BY <1>3
  <1>7. WalkStep("tid", to)
    BY <1>1, <1>2, <1>3, <1>4, <1>5, <1>6 DEF WalkStep
  <1> QED
    BY <1>7, WalkStepKeeps

\* The tag that is cleared is still the thread's.
LEMMA ClearTagKeeps ==
    ASSUME CleanupInv, ClearTag
    PROVE  CleanupTypeOK' /\ HeldIsTagged' /\ WalksAreRight'
  <1>1. /\ At("clear") /\ vars' = vars /\ tid' = tid /\ held' = held
        /\ tag' = [tag EXCEPT ![Block] = 0]
        /\ Go("next")
        /\ "clear" \in Points \ {"done"} /\ "clear" # "work" /\ current' = current
    BY DEF ClearTag, vars, Points
  <1>2. /\ Block \in H!Blocks /\ Block \in Nat /\ walk[current] = [at |-> Block, do |-> "clear"]
        /\ current \in Finishers /\ WalkIsRight(current) /\ Blk!Delimits(tag)
        /\ \A a \in held : a.owner # current
        /\ current \in Tids /\ walk \in [Tids -> [at : H!Blocks, do : Points]]
    BY <1>1, WalkIsAt
  <1>3. PICK to \in [at : H!Blocks, do : Points] : to = [at |-> Block, do |-> "next"]
    BY <1>2 DEF Points
  <1>4. walk' = [walk EXCEPT ![current] = to] /\ walk'[current] = to
    <2>1. PICK point : point = "next"
      OBVIOUS
    <2>2. [walk[current] EXCEPT !.do = point] = to
      BY <1>2, <1>3, <2>1, GoIs
    <2>3. Go(point)
      BY <1>1, <2>1
    <2> QED
      BY <1>2, <2>2, <2>3 DEF Go
  <1>5. Blk!Delimits(tag') /\ \A i \in H!Blocks : tag'[i] = IF i = Block THEN 0 ELSE tag[i]
    BY <1>1, <1>2, ClearHere
  <1>6. /\ \A i \in H!Blocks : i < Block /\ tag[i] # 0 => tid[i] # current
        /\ tid[Block] = current
    <2>1. walk[current].at = Block /\ walk[current].do = "clear"
      BY <1>2
    <2> QED
      BY <1>2, <2>1, WalkKnows
  <1>7. WalkIsRight(current)'
    BY <1>1, <1>3, <1>4, <1>5, <1>6, Constants DEF WalkIsRight, Behind
  <1>8. to.do # "work" /\ to.do # "done"
    BY <1>3
  <1>9. \A i \in H!Blocks : tag'[i] = tag[i] \/ (tag'[i] = 0 /\ tid[i] = current)
    BY <1>5, <1>6
  <1>10. WalkStep("clear", to)
    BY <1>1, <1>2, <1>3, <1>4, <1>5, <1>7, <1>8, <1>9 DEF WalkStep
  <1> QED
    BY <1>10, WalkStepKeeps

\* The walk goes on behind the allocation it is at, in which nothing starts, or
\* behind the block it is at, when its tag is cleared, or looks at it once more.
LEMMA GoOnKeeps ==
    ASSUME CleanupInv, NEW point \in {"next", "over"}, At(point), NEW n, GoOn(n),
           n = H!next_tag(tag, Block) \/ n = Block + tag[Block],
           UNCHANGED <<vars, blocks, held>>
    PROVE  CleanupTypeOK' /\ HeldIsTagged' /\ WalksAreRight'
  <1>1. /\ At(point) /\ vars' = vars /\ tag' = tag /\ tid' = tid /\ held' = held
        /\ walk' = [walk EXCEPT ![current] = IF n \in H!Blocks THEN [at |-> n, do |-> "tag"]
                                                               ELSE [@ EXCEPT !.do = "done"]]
        /\ point \in Points \ {"done"} /\ point # "work" /\ current' = current
    BY DEF GoOn, blocks, vars, Points
  <1>2. /\ Block \in H!Blocks /\ Block \in Nat /\ walk[current] = [at |-> Block, do |-> point]
        /\ current \in Finishers /\ WalkIsRight(current) /\ Blk!Delimits(tag)
        /\ \A a \in held : a.owner # current
        /\ current \in Tids /\ walk \in [Tids -> [at : H!Blocks, do : Points]]
    BY <1>1, WalkIsAt
  <1>3. PICK to \in [at : H!Blocks, do : Points] :
            to = IF n \in H!Blocks THEN [at |-> n, do |-> "tag"] ELSE [at |-> Block, do |-> "done"]
    BY <1>2 DEF Points
  <1>4. walk' = [walk EXCEPT ![current] = to] /\ walk'[current] = to
    <2>1. PICK last : last = [walk[current] EXCEPT !.do = "done"]
      OBVIOUS
    <2>2. last = [at |-> Block, do |-> "done"]
      BY <1>2, <2>1, GoIs
    <2>3. walk' = [walk EXCEPT ![current] =
                      IF n \in H!Blocks THEN [at |-> n, do |-> "tag"] ELSE last]
      BY <1>1, <2>1
    <2> QED
      BY <1>2, <1>3, <2>2, <2>3
  <1>5. \A i \in H!Blocks : i <= Block /\ tag[i] # 0 => tid[i] # current
    <2>1. walk[current].at = Block /\ walk[current].do \in {"next", "over"}
      BY <1>2
    <2>2. ASSUME NEW i \in H!Blocks, i <= Block PROVE Behind(current, i)
      <3>1. i < Block \/ i = Block
        BY <1>2, <2>2, Constants
      <3> QED
        BY <2>1, <3>1 DEF Behind
    <2>3. \A i \in H!Blocks : Behind(current, i) /\ tag[i] # 0 => tid[i] # current
      BY <1>2 DEF WalkIsRight
    <2> QED
      BY ONLY <2>2, <2>3
  <1>6. ASSUME NEW i \in H!Blocks, i < n \/ n \notin H!Blocks, tag[i] # 0 PROVE tid[i] # current
    <2>1. /\ tag[Block] \in Nat /\ i \in Nat
          /\ tag[Block] # 0 => \A j \in Block + 1 .. Block + tag[Block] - 1 : tag[j] = 0
      BY <1>2, Constants DEF Blk!Delimits
    <2>2. \/ tag[Block] # 0 /\ n = Block + tag[Block]
          \/ tag[Block] = 0 /\ n \in {Block, Block + 1}
      BY <1>2, <2>1 DEF H!next_tag
    <2>3. i < n
      BY <1>2, <1>6, <2>1, <2>2, Constants
    <2>4. i <= Block
      BY <1>2, <1>6, <2>1, <2>2, <2>3
    <2> QED
      BY <1>5, <1>6, <2>4
  <1>7. to.do \in Walking => WalkIsRight(current)'
    BY <1>1, <1>3, <1>4, <1>6 DEF WalkIsRight, Behind, Walking
  <1>8. to.do = "done" => OwnsNothing(current)'
    BY <1>1, <1>3, <1>6 DEF OwnsNothing
  <1>9. to.do # "work"
    BY <1>3
  <1>10. WalkStep(point, to)
    BY <1>1, <1>2, <1>3, <1>4, <1>7, <1>8, <1>9 DEF WalkStep
  <1> QED
    BY <1>10, WalkStepKeeps

\* About to jump over its allocation, the walk is still at the block.
LEMMA GoOverKeeps ==
    ASSUME CleanupInv, At("next"), Go("over"), UNCHANGED <<vars, blocks, held>>
    PROVE  CleanupTypeOK' /\ HeldIsTagged' /\ WalksAreRight'
  <1>1. /\ At("next") /\ vars' = vars /\ tag' = tag /\ tid' = tid /\ held' = held
        /\ "next" \in Points \ {"done"} /\ "next" # "work" /\ current' = current
    BY DEF blocks, vars, Points
  <1>2. /\ Block \in H!Blocks /\ Block \in Nat /\ walk[current] = [at |-> Block, do |-> "next"]
        /\ current \in Finishers /\ WalkIsRight(current) /\ Blk!Delimits(tag)
        /\ \A a \in held : a.owner # current
        /\ current \in Tids /\ walk \in [Tids -> [at : H!Blocks, do : Points]]
    BY <1>1, WalkIsAt
  <1>3. PICK to \in [at : H!Blocks, do : Points] : to = [at |-> Block, do |-> "over"]
    BY <1>2 DEF Points
  <1>4. walk' = [walk EXCEPT ![current] = to] /\ walk'[current] = to
    <2>1. [walk[current] EXCEPT !.do = "over"] = to
      BY <1>2, <1>3, GoIs
    <2> QED
      BY <1>2, <2>1 DEF Go
  <1>5. WalkIsRight(current)'
    BY <1>1, <1>2, <1>3, <1>4 DEF WalkIsRight, Behind
  <1>6. WalkStep("next", to)
    BY <1>1, <1>2, <1>3, <1>4, <1>5 DEF WalkStep
  <1> QED
    BY <1>6, WalkStepKeeps

\* So both reads of next_tag keep the invariant.
LEMMA NextTagKeeps ==
    ASSUME CleanupInv, NextTag \/ JumpOver
    PROVE  CleanupTypeOK' /\ HeldIsTagged' /\ WalksAreRight'
  <1>1. PICK next, over : next = H!next_tag(tag, Block) /\ over = Block + tag[Block]
    OBVIOUS
  <1>2. CASE NextTag
    <2>1. CASE GoOn(next)
      BY <1>1, <1>2, <2>1, GoOnKeeps DEF NextTag
    <2>2. CASE Go("over")
      BY <1>2, <2>2, GoOverKeeps DEF NextTag
    <2> QED
      BY <1>1, <1>2, <2>1, <2>2 DEF NextTag
  <1>3. CASE JumpOver
    BY <1>1, <1>3, GoOnKeeps DEF JumpOver
  <1> QED
    BY <1>2, <1>3

----------------------------------------------------------------------------
(* The theorems.                                                           *)

\* Every step keeps the invariant, action by action.
LEMMA CleanupStep ==
    ASSUME 0 \notin Finishers, CleanupInv, [CleanupNext]_cleanupVars PROVE CleanupInv'
  <1>1. SafeInv'
    BY ThreadsStep, SafeStep DEF CleanupInv
  <1> SUFFICES CleanupTypeOK' /\ HeldIsTagged' /\ WalksAreRight'
    BY <1>1 DEF CleanupInv
  <1>2. ASSUME NEW n \in Sizes, Allocate(n) PROVE CleanupTypeOK' /\ HeldIsTagged' /\ WalksAreRight'
    BY <1>2, AllocateKeeps
  <1>3. ASSUME NEW p \in H!Blocks, Free(p) PROVE CleanupTypeOK' /\ HeldIsTagged' /\ WalksAreRight'
    BY <1>3, FreeKeeps
  <1>4. ASSUME NEW t \in Tids, Cancel(t) PROVE CleanupTypeOK' /\ HeldIsTagged' /\ WalksAreRight'
    BY <1>4, CancelKeeps
  <1>5. ASSUME NEW t \in Tids, Start(t) PROVE CleanupTypeOK' /\ HeldIsTagged' /\ WalksAreRight'
    BY <1>5, StartKeeps
  <1>6. CASE Destroy
    BY <1>6, TableStepKeeps DEF Destroy, TableStep, NotOwnedBy, blocks
  <1>7. CASE BeginWalk \/ ReadTag \/ ReadTid \/ ClearTag \/ NextTag \/ JumpOver
    BY <1>7, BeginWalkKeeps, ReadTagKeeps, ReadTidKeeps, ClearTagKeeps, NextTagKeeps
  <1>8. CASE EndWalk
    BY <1>8, TableStepKeeps DEF EndWalk, TableStep, blocks
  <1>9. CASE /\ \/ Working /\ (YieldAny \/ \E armed \in BOOLEAN : SetTimer(armed))
                \/ Working /\ \E destroy \in BOOLEAN : SetKernelConfig(destroy)
                \/ Tick \/ SetFinished \/ YieldAsm \/ Unreachable \/ Halted
             /\ UNCHANGED <<blocks, walk, held>>
    BY <1>9, TableStepKeeps DEF TableStep, blocks
  <1>10. CASE UNCHANGED cleanupVars
    BY <1>10 DEF cleanupVars, blocks, vars, CleanupInv, CleanupTypeOK, HeldIsTagged,
          WalksAreRight, WalkIsRight, Behind, Ended, OwnsNothing, Blk!Delimits
  <1> QED
    BY <1>2, <1>3, <1>4, <1>5, <1>6, <1>7, <1>8, <1>9, <1>10 DEF CleanupNext

\* Allocations that overlap are one allocation: their tags say so.
LEMMA TaggedAreApart ==
    ASSUME CleanupInv, NEW a \in held, NEW b \in held,
           NEW i, i \in a.at .. a.at + a.size - 1, i \in b.at .. b.at + b.size - 1
    PROVE  a = b
  <1>1. /\ tag[a.at] = a.size /\ tid[a.at] = a.owner /\ tag[b.at] = b.size /\ tid[b.at] = b.owner
        /\ a.at \in H!Blocks /\ b.at \in H!Blocks /\ a.size # 0 /\ b.size # 0
        /\ a.at \in Nat /\ b.at \in Nat /\ a.size \in Nat /\ b.size \in Nat
    BY Constants DEF CleanupInv, HeldIsTagged, CleanupTypeOK
  <1>2. /\ \A j \in a.at + 1 .. a.at + tag[a.at] - 1 : tag[j] = 0
        /\ \A j \in b.at + 1 .. b.at + tag[b.at] - 1 : tag[j] = 0
    BY <1>1, Constants DEF CleanupInv, CleanupTypeOK, Blk!Delimits
  <1>3. b.at \notin a.at + 1 .. a.at + a.size - 1 /\ a.at \notin b.at + 1 .. b.at + b.size - 1
    BY <1>1, <1>2
  <1>4. a.at = b.at
    BY <1>1, <1>3
  <1>5. a \in [at : H!Blocks, size : Nat \ {0}, owner : Tids]
        /\ b \in [at : H!Blocks, size : Nat \ {0}, owner : Tids]
    BY DEF CleanupInv, CleanupTypeOK
  <1> QED
    BY <1>1, <1>4, <1>5

\* No thread that ends takes an allocation from a thread that uses it, and no
\* block is given out twice, if thread 0 does not end.
THEOREM EndsTakeNothing == ASSUME 0 \notin Finishers PROVE CleanupSpec => []HeldAllocationsStay
  <1>1. CleanupInv /\ [CleanupNext]_cleanupVars => CleanupInv'
    BY CleanupStep
  <1>2. ASSUME CleanupInv PROVE HeldAllocationsStay
    <2>1. \A a \in held : tag[a.at] = a.size /\ tid[a.at] = a.owner
      BY <1>2 DEF CleanupInv, HeldIsTagged
    <2>2. ASSUME NEW a \in held, NEW b \in held,
                 (a.at .. a.at + a.size - 1) \cap (b.at .. b.at + b.size - 1) # {}
          PROVE  a = b
      <3>1. PICK i : i \in a.at .. a.at + a.size - 1 /\ i \in b.at .. b.at + b.size - 1
        BY <2>2
      <3> QED
        BY <1>2, <3>1, TaggedAreApart
    <2> QED
      BY <2>1, <2>2 DEF HeldAllocationsStay
  <1> QED
    BY CleanupStarts, <1>1, <1>2, PTL DEF CleanupSpec

\* A thread that has finished or was cancelled owns no allocation, if thread 0
\* does not end.
THEOREM EndsLeaveNothing == ASSUME 0 \notin Finishers PROVE CleanupSpec => []DeadThreadsOwnNothing
  <1>1. CleanupInv /\ [CleanupNext]_cleanupVars => CleanupInv'
    BY CleanupStep
  <1>2. CleanupInv => DeadThreadsOwnNothing
    BY DEF CleanupInv, WalksAreRight, OwnsNothing, Ended, Dead, DeadThreadsOwnNothing
  <1> QED
    BY CleanupStarts, <1>1, <1>2, PTL DEF CleanupSpec

----------------------------------------------------------------------------
(* Backing pages: the counts of their users.                               *)

Users(page_of, p) == {t \in Tids : page_of[t] = p}

Counts(counts, page_of) ==
    /\ counts \in [Pages -> Nat]
    /\ page_of \in [Tids -> Pages \cup {INVALID_PAGE}]
    /\ \A p \in Pages : counts[p] = Cardinality(Users(page_of, p))

\* A count is one byte.
FewThreads == MAX_THREADS < 256

\* INVALID_PAGE is no page.
LEMMA NoPage == INVALID_PAGE \notin Pages
  BY DEF INVALID_PAGE, Pages

\* A page has at most all threads as users.
LEMMA UsersAreFew ==
    ASSUME NEW f, NEW p
    PROVE  /\ IsFiniteSet(Users(f, p))
           /\ Cardinality(Users(f, p)) \in 0 .. MAX_THREADS
  <1>1. MAX_THREADS \in Nat \ {0} /\ Tids = 0 .. MAX_THREADS - 1
    BY MaxThreadsAssumption DEF Tids
  <1>2. IsFiniteSet(Tids) /\ Cardinality(Tids) = MAX_THREADS
    <2>1. 0 \in Int /\ MAX_THREADS - 1 \in Int
      BY <1>1
    <2>2. /\ IsFiniteSet(0 .. MAX_THREADS - 1)
          /\ Cardinality(0 .. MAX_THREADS - 1)
               = IF 0 > MAX_THREADS - 1 THEN 0 ELSE (MAX_THREADS - 1) - 0 + 1
      BY <2>1, FS_Interval
    <2> QED
      BY <1>1, <2>2
  <1>3. Users(f, p) \subseteq Tids
    BY DEF Users
  <1>4. IsFiniteSet(Users(f, p)) /\ Cardinality(Users(f, p)) <= Cardinality(Tids)
    BY <1>2, <1>3, FS_Subset
  <1>5. Cardinality(Users(f, p)) \in Nat
    BY <1>4, FS_CardinalityType
  <1> QED
    BY <1>1, <1>2, <1>4, <1>5

\* A thread that gets a page is counted.
LEMMA CountUser ==
    ASSUME FewThreads, NEW c, NEW f, Counts(c, f), NEW t \in Tids, f[t] = INVALID_PAGE,
           NEW p \in Pages
    PROVE  Counts(Counted(c, p, 1), [f EXCEPT ![t] = p])
  <1>1. PICK g, d : g = [f EXCEPT ![t] = p] /\ d = Counted(c, p, 1)
    OBVIOUS
  <1>2. /\ g \in [Tids -> Pages \cup {INVALID_PAGE}]
        /\ g[t] = p /\ \A u \in Tids : u # t => g[u] = f[u]
    BY <1>1 DEF Counts
  <1>3. /\ DOMAIN d = Pages
        /\ d[p] = (c[p] + 1) % 256 /\ \A q \in Pages : q # p => d[q] = c[q]
    BY <1>1 DEF Counts, Counted
  <1>4. t \notin Users(f, p) /\ Users(g, p) = Users(f, p) \cup {t}
    BY <1>2, NoPage DEF Users
  <1>5. \A q \in Pages : q # p => Users(g, q) = Users(f, q)
    BY <1>2, NoPage DEF Users
  <1>6. Cardinality(Users(g, p)) = Cardinality(Users(f, p)) + 1
    BY <1>4, UsersAreFew, FS_AddElement
  <1>7. d[p] = Cardinality(Users(g, p))
    <2>1. c[p] = Cardinality(Users(f, p))
      BY DEF Counts
    <2>2. c[p] \in Nat /\ c[p] + 1 \in 0 .. MAX_THREADS
      BY <1>6, <2>1, UsersAreFew DEF Counts
    <2>3. c[p] + 1 < 256
      BY <2>2, MaxThreadsAssumption DEF FewThreads
    <2>4. (c[p] + 1) % 256 = c[p] + 1
      BY <2>2, <2>3
    <2> QED
      BY <1>3, <1>6, <2>1, <2>4
  <1>8. \A q \in Pages : d[q] = Cardinality(Users(g, q))
    BY <1>3, <1>5, <1>7 DEF Counts
  <1>9. d \in [Pages -> Nat]
    <2>1. \A q \in Pages : d[q] \in Nat
      BY <1>8, UsersAreFew
    <2>2. d = [q \in Pages |-> d[q]]
      BY <1>1 DEF Counts, Counted
    <2> QED
      BY <2>1, <2>2
  <1>10. Counts(d, g)
    BY <1>2, <1>8, <1>9 DEF Counts
  <1> QED
    BY <1>1, <1>10

\* A thread that gives up its page was counted, and is not any more.
LEMMA UncountUser ==
    ASSUME FewThreads, NEW c, NEW f, Counts(c, f), NEW t \in Tids, NEW p \in Pages, f[t] = p
    PROVE  c[p] # 0 /\ Counts(Counted(c, p, -1), [f EXCEPT ![t] = INVALID_PAGE])
  <1>1. PICK g, d : g = [f EXCEPT ![t] = INVALID_PAGE] /\ d = Counted(c, p, -1)
    OBVIOUS
  <1>2. /\ g \in [Tids -> Pages \cup {INVALID_PAGE}]
        /\ g[t] = INVALID_PAGE /\ \A u \in Tids : u # t => g[u] = f[u]
    BY <1>1 DEF Counts
  <1>3. /\ DOMAIN d = Pages
        /\ d[p] = (c[p] + (-1)) % 256 /\ \A q \in Pages : q # p => d[q] = c[q]
    BY <1>1 DEF Counts, Counted
  <1>4. t \in Users(f, p) /\ Users(g, p) = Users(f, p) \ {t}
    BY <1>2, NoPage DEF Users
  <1>5. \A q \in Pages : q # p => Users(g, q) = Users(f, q)
    BY <1>2, NoPage DEF Users
  <1>6. Cardinality(Users(g, p)) = Cardinality(Users(f, p)) - 1
    BY <1>4, UsersAreFew, FS_RemoveElement
  <1>7. c[p] # 0 /\ d[p] = Cardinality(Users(g, p))
    <2>1. c[p] = Cardinality(Users(f, p))
      BY DEF Counts
    <2>2. c[p] \in 0 .. MAX_THREADS /\ c[p] - 1 \in 0 .. MAX_THREADS
      BY <1>6, <2>1, UsersAreFew
    <2>3. c[p] \in Nat /\ c[p] >= 1 /\ c[p] - 1 < 256
      BY <2>2, MaxThreadsAssumption DEF FewThreads
    <2>4. (c[p] + (-1)) % 256 = c[p] - 1
      BY <2>3
    <2> QED
      BY <1>3, <1>6, <2>1, <2>3, <2>4
  <1>8. \A q \in Pages : d[q] = Cardinality(Users(g, q))
    BY <1>3, <1>5, <1>7 DEF Counts
  <1>9. d \in [Pages -> Nat]
    <2>1. \A q \in Pages : d[q] \in Nat
      BY <1>8, UsersAreFew
    <2>2. d = [q \in Pages |-> d[q]]
      BY <1>1 DEF Counts, Counted
    <2> QED
      BY <2>1, <2>2
  <1>10. Counts(d, g)
    BY <1>2, <1>8, <1>9 DEF Counts
  <1> QED
    BY <1>1, <1>7, <1>10

----------------------------------------------------------------------------
(* Backing pages: who has one.                                             *)

Duties == [do : {"nothing", "copy", "restart"}, file : Files]

LoadersTypeOK ==
    /\ program \in [Tids -> Programs \cup {"kernel"}]
    /\ loading \in [Tids -> Duties]
    /\ \A t \in Tids : loading[t] # Nothing =>
                          loading[t].do # "nothing" /\ loading[t].file \in Programs

\* Threads that have ended, and threads of the kernel image that load nothing,
\* have no page.
EndedHaveNone ==
    \A t \in Tids : SlotIsFree(t) \/ stage[t] # "work" => code_backing_page[t] = INVALID_PAGE

KernelHasNone ==
    \A t \in Tids : program[t] = "kernel" /\ loading[t] = Nothing
                        => code_backing_page[t] = INVALID_PAGE

CountInv ==
    /\ SafeInv
    /\ BootInv
    /\ Counts(ref_count, code_backing_page)
    /\ LoadersTypeOK
    /\ EndedHaveNone
    /\ KernelHasNone

\* Programs without files that load others, and without stack errors.
OnlyTheKernelLoads == NoneRemoved /\ ~ProgramsLoad /\ FewThreads /\ "stack_error" \notin Calls

\* It holds before anything is loaded.
LEMMA PagesStart == PagesInit => CountInv
  <1> SUFFICES ASSUME PagesInit PROVE CountInv
    OBVIOUS
  <1>1. SafeInv /\ BootInv
    BY SafeInit DEF PagesInit, Init, BootInv
  <1>2. Counts(ref_count, code_backing_page)
    <2>1. \A p \in Pages : Users(code_backing_page, p) = {}
      BY NoPage DEF Users, PagesInit
    <2> QED
      BY <2>1, FS_EmptySet DEF Counts, PagesInit
  <1>3. LoadersTypeOK /\ EndedHaveNone /\ KernelHasNone
    BY DEF LoadersTypeOK, EndedHaveNone, KernelHasNone, PagesInit, Duties, Nothing, Files
  <1> QED
    BY <1>1, <1>2, <1>3 DEF CountInv

\* A step on pages is one of the threads, or leaves them alone.
LEMMA PagesStep == NoneRemoved /\ [PagesNext]_pagesVars => [Next]_vars
  BY DEF NoneRemoved, PagesNext, pagesVars, LoadElf, RestartAsProgram, Cleanup, Switch, WriteData,
         Create, CancelThread, AddThreadFromFile, Next, UserStep, ThreadEnd

\* A switch from one thread to another frees no slot and takes none.
LEMMA SwitchKeepsSlots ==
    ASSUME SafeInv, "stack_error" \notin Calls, Switch, NEW t \in Tids
    PROVE  /\ SlotIsFree(t)' <=> SlotIsFree(t)
           /\ stage'[t] = stage[t] \/ (stage[t] = "finished" /\ stage'[t] = "returned")
  <1>1. YieldAny \/ ThreadWait \/ Tick \/ YieldAsm
    BY DEF Switch, StackError, Syscall
  <1> QED
    BY <1>1, SwitchingKeepsSlots

\* setup_code_page keeps the counts right.
LEMMA SetupCounts ==
    ASSUME FewThreads, Counts(ref_count, code_backing_page), NEW t \in Tids,
           code_backing_page[t] = INVALID_PAGE, current \in Tids \cup {NULL}, setup_code_page(t)
    PROVE  Counts(ref_count, code_backing_page)'
  <1>1. PICK page : page = IF current = NULL THEN INVALID_PAGE ELSE code_backing_page[current]
    OBVIOUS
  <1>2. /\ code_backing_page' = [code_backing_page EXCEPT ![t] = page]
        /\ ref_count' = IF page = INVALID_PAGE THEN ref_count ELSE Counted(ref_count, page, 1)
    BY <1>1 DEF setup_code_page
  <1>3. page \in Pages \cup {INVALID_PAGE}
    BY <1>1 DEF Counts
  <1>4. CASE page = INVALID_PAGE
    <2>1. code_backing_page' = code_backing_page /\ ref_count' = ref_count
      BY <1>2, <1>4 DEF Counts
    <2> QED
      BY <2>1 DEF Counts, Users
  <1>5. CASE page \in Pages
    <2>1. Counts(Counted(ref_count, page, 1), [code_backing_page EXCEPT ![t] = page])
      BY <1>5, CountUser
    <2>2. Counts(ref_count', code_backing_page')
      BY <1>2, <1>5, <2>1, NoPage
    <2> QED
      BY <2>2
  <1> QED
    BY <1>3, <1>4, <1>5

\* cleanup_thread keeps the counts right, also of a thread without a page.
LEMMA ReleaseCounts ==
    ASSUME FewThreads, Counts(ref_count, code_backing_page), NEW t \in Tids, ReleasePage(t)
    PROVE  /\ Counts(ref_count, code_backing_page)'
           /\ code_backing_page' = [code_backing_page EXCEPT ![t] = INVALID_PAGE]
  <1>1. PICK page : page = code_backing_page[t]
    OBVIOUS
  <1>2. /\ code_backing_page' = [code_backing_page EXCEPT ![t] = INVALID_PAGE]
        /\ ref_count' = IF page = INVALID_PAGE \/ ref_count[page] = 0 THEN ref_count
                        ELSE Counted(ref_count, page, -1)
    BY <1>1 DEF ReleasePage
  <1>3. page \in Pages \cup {INVALID_PAGE}
    BY <1>1 DEF Counts
  <1>4. CASE page = INVALID_PAGE
    <2>1. code_backing_page' = code_backing_page /\ ref_count' = ref_count
      BY <1>1, <1>2, <1>4 DEF Counts
    <2> QED
      BY <1>2, <2>1 DEF Counts, Users
  <1>5. CASE page \in Pages
    <2>1. /\ ref_count[page] # 0
          /\ Counts(Counted(ref_count, page, -1), [code_backing_page EXCEPT ![t] = INVALID_PAGE])
      BY <1>1, <1>5, UncountUser
    <2>2. Counts(ref_count', code_backing_page')
      BY <1>2, <1>5, <2>1, NoPage
    <2> QED
      BY <1>2, <2>2
  <1> QED
    BY <1>3, <1>4, <1>5

\* The facts about who has a page, from those about each thread.
HasDuly(t) ==
    /\ SlotIsFree(t) \/ stage[t] # "work" => code_backing_page[t] = INVALID_PAGE
    /\ program[t] = "kernel" /\ loading[t] = Nothing => code_backing_page[t] = INVALID_PAGE

\* The two say the same.
LEMMA AllHaveDuly == EndedHaveNone /\ KernelHasNone <=> \A t \in Tids : HasDuly(t)
  BY DEF EndedHaveNone, KernelHasNone, HasDuly

\* A thread that keeps its place, its program and its page has it duly.
LEMMA StaysDuly ==
    ASSUME NEW t \in Tids, HasDuly(t), SlotIsFree(t)' => SlotIsFree(t),
           stage'[t] = stage[t] \/ stage[t] # "work",
           program'[t] = program[t], loading'[t] = loading[t] \/ loading'[t] # Nothing,
           code_backing_page'[t] \in {code_backing_page[t], INVALID_PAGE}
    PROVE  HasDuly(t)'
  BY DEF HasDuly

\* A new thread is one more user of the page of its creator.
LEMMA CreateCounts ==
    ASSUME OnlyTheKernelLoads, CountInv, NEW t \in Tids, Create(t)
    PROVE  Counts(ref_count, code_backing_page)' /\ LoadersTypeOK' /\ \A u \in Tids : HasDuly(u)'
  <1>1. /\ current \in Tids \cup {NULL}
        /\ kernel = "up" => current \in Tids
        /\ NULL \notin Tids /\ DOMAIN id = Tids
    BY DEF CountInv, SafeInv, TypeOK, Tids, NULL
  <1>b. BootInv
    BY DEF CountInv
  <1>2. /\ code_backing_page' =
             [code_backing_page EXCEPT ![t] = IF current = NULL THEN INVALID_PAGE
                                                               ELSE code_backing_page[current]]
        /\ program' = [program EXCEPT ![t] = IF current = NULL THEN "kernel"
                                                               ELSE program[current]]
        /\ loading' = [loading EXCEPT ![t] = Nothing]
        /\ setup_code_page(t)
    BY DEF Create, setup_code_page
  <1>3. /\ DOMAIN code_backing_page = Tids /\ DOMAIN program = Tids /\ DOMAIN loading = Tids
        /\ FewThreads /\ Counts(ref_count, code_backing_page) /\ LoadersTypeOK
        /\ \A u \in Tids : HasDuly(u)
    BY AllHaveDuly DEF CountInv, Counts, LoadersTypeOK, OnlyTheKernelLoads
  <1>4. LoadersTypeOK'
    <2>1. program' \in [Tids -> Programs \cup {"kernel"}]
      BY <1>1, <1>2, <1>3 DEF LoadersTypeOK
    <2>2. loading' \in [Tids -> Duties]
      BY <1>2, <1>3 DEF LoadersTypeOK, Nothing, Duties, Files
    <2>3. ASSUME NEW u \in Tids, loading'[u] # Nothing
          PROVE  loading'[u].do # "nothing" /\ loading'[u].file \in Programs
      BY <1>2, <1>3, <2>3 DEF LoadersTypeOK
    <2> QED
      BY <2>1, <2>2, <2>3 DEF LoadersTypeOK
  <1>5. SlotIsFree(t)
    BY <1>1, <1>b DEF Create, SlotIsFree, FirstFreeSlot, Boot, BootInv
  <1>6. Counts(ref_count, code_backing_page)'
    BY <1>1, <1>2, <1>3, <1>5, SetupCounts DEF HasDuly
  <1>7. ASSUME NEW u \in Tids PROVE HasDuly(u)'
    <2>1. CASE t = 0 /\ Boot
      <3>1. code_backing_page[u] = INVALID_PAGE /\ current = NULL
        BY <1>3, <1>b, <2>1 DEF HasDuly, SlotIsFree, BootInv, Boot
      <3> QED
        BY <1>2, <1>3, <3>1 DEF HasDuly
    <2>2. CASE kernel = "up" /\ Idle /\ FirstFreeSlot(t) /\ AddThread({})
      <3>1. /\ current \in Tids /\ current # NULL /\ ~SlotIsFree(t)' /\ stage'[t] = "work"
            /\ u # t => (SlotIsFree(u)' <=> SlotIsFree(u)) /\ stage'[u] = stage[u]
        BY <1>1, <2>2, NewThreadTakesSlot DEF CountInv
      <3>2. CASE u = t
        BY <1>2, <1>3, <2>2, <3>1, <3>2 DEF HasDuly, Idle
      <3>3. CASE u # t
        BY <1>2, <1>3, <3>1, <3>3, StaysDuly
      <3> QED
        BY <3>2, <3>3
    <2> QED
      BY <2>1, <2>2 DEF Create
  <1> QED
    BY <1>4, <1>6, <1>7

\* A loader is the only user of the free page it gets: its creator has none.
LEMMA AddThreadFromFileCounts ==
    ASSUME OnlyTheKernelLoads, CountInv, NEW t \in Tids, NEW file \in Programs,
           AddThreadFromFile(t, file)
    PROVE  Counts(ref_count, code_backing_page)' /\ LoadersTypeOK' /\ \A u \in Tids : HasDuly(u)'
  <1>1. /\ FirstFreeSlot(t) /\ AddThread({}) /\ Idle /\ program[current] = "kernel"
        /\ program' = [program EXCEPT ![t] = "kernel"]
        /\ loading' = [loading EXCEPT ![t] = [do |-> "copy", file |-> file]]
    BY DEF AddThreadFromFile, OnlyTheKernelLoads
  <1>2. /\ DOMAIN code_backing_page = Tids /\ DOMAIN program = Tids /\ DOMAIN loading = Tids
        /\ FewThreads /\ Counts(ref_count, code_backing_page) /\ LoadersTypeOK
        /\ \A u \in Tids : HasDuly(u)
    BY AllHaveDuly DEF CountInv, Counts, LoadersTypeOK, OnlyTheKernelLoads
  <1>3. /\ current \in Tids /\ ~SlotIsFree(t)' /\ stage'[t] = "work"
        /\ \A u \in Tids : u # t => (SlotIsFree(u)' <=> SlotIsFree(u)) /\ stage'[u] = stage[u]
    BY <1>1, NewThreadTakesSlot DEF CountInv
  <1>4. /\ code_backing_page[current] = INVALID_PAGE
        /\ code_backing_page[t] = INVALID_PAGE
    BY <1>1, <1>2, <1>3 DEF HasDuly, Idle, FirstFreeSlot
  <1>5. PICK p \in Pages : /\ ref_count' = Counted(ref_count, p, 1)
                           /\ code_backing_page' = [code_backing_page EXCEPT ![t] = p]
    BY <1>4 DEF AddThreadFromFile
  <1>6. Counts(ref_count, code_backing_page)'
    <2>1. Counts(Counted(ref_count, p, 1), [code_backing_page EXCEPT ![t] = p])
      BY <1>2, <1>4, CountUser
    <2>2. Counts(ref_count', code_backing_page')
      BY <1>5, <2>1
    <2> QED
      BY <2>2
  <1>7. LoadersTypeOK'
    <2>1. program' \in [Tids -> Programs \cup {"kernel"}] /\ loading' \in [Tids -> Duties]
      BY <1>1, <1>2 DEF LoadersTypeOK, Duties, Files
    <2>2. ASSUME NEW u \in Tids, loading'[u] # Nothing
          PROVE  loading'[u].do # "nothing" /\ loading'[u].file \in Programs
      BY <1>1, <1>2, <2>2 DEF LoadersTypeOK
    <2> QED
      BY <2>1, <2>2 DEF LoadersTypeOK
  <1>8. ASSUME NEW u \in Tids PROVE HasDuly(u)'
    <2>1. CASE u = t
      <3>1. loading'[t].do = "copy"
        BY <1>1, <1>2
      <3>2. loading'[t] # Nothing
        BY <3>1 DEF Nothing
      <3> QED
        BY <1>3, <2>1, <3>2 DEF HasDuly
    <2>2. CASE u # t
      BY <1>1, <1>2, <1>3, <1>5, <2>2, StaysDuly
    <2> QED
      BY <2>1, <2>2
  <1> QED
    BY <1>6, <1>7, <1>8

\* A duty with another thing to do.
LEMMA DutyIs ==
    ASSUME NEW d \in Duties, NEW what
    PROVE  [d EXCEPT !.do = what] = [do |-> what, file |-> d.file]
  BY DEF Duties

\* What the step of a loader that has copied its program leaves it to do.
LEMMA LoadElfLeaves ==
    ASSUME LoadersTypeOK, SafeInv, LoadElf
    PROVE  /\ current \in Tids /\ loading[current].file \in Programs
           /\ loading' = [loading EXCEPT ![current] =
                             [do |-> "restart", file |-> loading[current].file]]
  <1>1. current \in Tids
    BY WorkerIsLive DEF LoadElf
  <1>2. loading[current] \in Duties /\ loading[current].do = "copy"
    BY <1>1 DEF LoadElf, LoadersTypeOK
  <1>3. loading[current] # Nothing
    BY <1>2 DEF Nothing
  <1>4. PICK d : d = [loading[current] EXCEPT !.do = "restart"]
    OBVIOUS
  <1>5. d = [do |-> "restart", file |-> loading[current].file]
    BY <1>2, <1>4, DutyIs
  <1>6. loading' = [loading EXCEPT ![current] = d]
    BY <1>4 DEF LoadElf
  <1> QED
    BY <1>1, <1>3, <1>5, <1>6 DEF LoadersTypeOK

\* Loading changes nobody's page.
LEMMA LoadElfCounts ==
    ASSUME CountInv, LoadElf
    PROVE  Counts(ref_count, code_backing_page)' /\ LoadersTypeOK' /\ \A u \in Tids : HasDuly(u)'
  <1>1. /\ LoadersTypeOK /\ Counts(ref_count, code_backing_page)
        /\ \A u \in Tids : HasDuly(u)
    BY AllHaveDuly DEF CountInv
  <1>2. /\ current \in Tids /\ loading[current].file \in Programs
        /\ loading' = [loading EXCEPT ![current] =
                             [do |-> "restart", file |-> loading[current].file]]
    BY <1>1, LoadElfLeaves DEF CountInv
  <1>3. /\ program' = program /\ ref_count' = ref_count /\ code_backing_page' = code_backing_page
        /\ id' = id /\ state' = state /\ stage' = stage
    BY DEF LoadElf, vars
  <1>4. LoadersTypeOK'
    <2>1. loading' \in [Tids -> Duties]
      BY <1>1, <1>2 DEF LoadersTypeOK, Duties, Files
    <2>2. ASSUME NEW u \in Tids, loading'[u] # Nothing
          PROVE  loading'[u].do # "nothing" /\ loading'[u].file \in Programs
      BY <1>1, <1>2, <2>2 DEF LoadersTypeOK
    <2> QED
      BY <1>1, <1>3, <2>1, <2>2 DEF LoadersTypeOK
  <1>5. ASSUME NEW u \in Tids PROVE HasDuly(u)'
    <2>1. loading'[u] = loading[u] \/ loading'[u].do = "restart"
      BY <1>1, <1>2 DEF LoadersTypeOK
    <2>2. loading'[u] = loading[u] \/ loading'[u] # Nothing
      BY <2>1 DEF Nothing
    <2>3. SlotIsFree(u)' <=> SlotIsFree(u)
      BY <1>3 DEF SlotIsFree
    <2> QED
      BY <1>1, <1>3, <2>2, <2>3, StaysDuly
  <1>6. Counts(ref_count, code_backing_page)'
    BY <1>1, <1>3 DEF Counts, Users
  <1> QED
    BY <1>4, <1>5, <1>6

\* The thread that restarts as a program keeps its page.
LEMMA RestartCounts ==
    ASSUME CountInv, RestartAsProgram
    PROVE  Counts(ref_count, code_backing_page)' /\ LoadersTypeOK' /\ \A u \in Tids : HasDuly(u)'
  <1>1. /\ LoadersTypeOK /\ Counts(ref_count, code_backing_page)
        /\ \A u \in Tids : HasDuly(u)
    BY AllHaveDuly DEF CountInv
  <1>2. /\ Restart({}) /\ loading[current].do = "restart"
        /\ program' = [program EXCEPT ![current] = loading[current].file]
        /\ loading' = [loading EXCEPT ![current] = Nothing]
        /\ ref_count' = ref_count /\ code_backing_page' = code_backing_page
    BY DEF RestartAsProgram
  <1>3. /\ current \in Tids
        /\ \A u \in Tids : (SlotIsFree(u)' <=> SlotIsFree(u)) /\ stage'[u] = stage[u]
    <2>1. SafeInv /\ kernel = "up"
      BY DEF CountInv, RestartAsProgram
    <2>2. current \in Tids
      BY <2>1, WorkerIsLive
    <2> QED
      BY <1>2, <2>1, <2>2, RestartKeepsSlots
  <1>4. loading[current].file \in Programs
    <2>1. loading[current] # Nothing
      BY <1>2 DEF Nothing
    <2> QED
      BY <1>1, <1>3, <2>1 DEF LoadersTypeOK
  <1>5. LoadersTypeOK'
    <2>1. program' \in [Tids -> Programs \cup {"kernel"}] /\ loading' \in [Tids -> Duties]
      BY <1>1, <1>2, <1>3, <1>4 DEF LoadersTypeOK, Duties, Files, Nothing
    <2>2. ASSUME NEW u \in Tids, loading'[u] # Nothing
          PROVE  loading'[u].do # "nothing" /\ loading'[u].file \in Programs
      BY <1>1, <1>2, <1>3, <2>2 DEF LoadersTypeOK
    <2> QED
      BY <2>1, <2>2 DEF LoadersTypeOK
  <1>6. ASSUME NEW u \in Tids PROVE HasDuly(u)'
    <2>1. CASE u = current
      <3>1. program'[current] # "kernel"
        BY <1>1, <1>2, <1>3, <1>4, ProgramsAssumption DEF LoadersTypeOK
      <3> QED
        BY <1>1, <1>2, <1>3, <2>1, <3>1 DEF HasDuly
    <2>2. CASE u # current
      BY <1>1, <1>2, <1>3, <2>2, StaysDuly DEF LoadersTypeOK
    <2> QED
      BY <2>1, <2>2
  <1>7. Counts(ref_count, code_backing_page)'
    BY <1>1, <1>2 DEF Counts, Users
  <1> QED
    BY <1>5, <1>6, <1>7

\* A thread that is cancelled gives up its page with its slot.
LEMMA CancelCounts ==
    ASSUME OnlyTheKernelLoads, CountInv, NEW t \in Tids, CancelThread(t)
    PROVE  Counts(ref_count, code_backing_page)' /\ LoadersTypeOK' /\ \A u \in Tids : HasDuly(u)'
  <1>1. /\ LoadersTypeOK /\ Counts(ref_count, code_backing_page) /\ FewThreads /\ SafeInv
        /\ \A u \in Tids : HasDuly(u)
    BY AllHaveDuly DEF CountInv, OnlyTheKernelLoads
  <1>2. ThreadCancel(t) /\ ReleasePage(t) /\ program' = program /\ loading' = loading
    BY DEF CancelThread
  <1>3. /\ Counts(ref_count, code_backing_page)'
        /\ code_backing_page' = [code_backing_page EXCEPT ![t] = INVALID_PAGE]
    BY <1>1, <1>2, ReleaseCounts
  <1>4. ASSUME NEW u \in Tids PROVE HasDuly(u)'
    <2>1. CASE u = t
      BY <1>1, <1>3, <2>1 DEF HasDuly, Counts
    <2>2. CASE u # t
      <3>1. (SlotIsFree(u)' <=> SlotIsFree(u)) /\ stage'[u] = stage[u]
        BY <1>1, <1>2, <2>2, CancelKeepsSlots
      <3>2. code_backing_page'[u] = code_backing_page[u]
        BY <1>1, <1>3, <2>2 DEF Counts
      <3> QED
        BY <1>1, <1>2, <3>1, <3>2, StaysDuly
    <2> QED
      BY <2>1, <2>2
  <1>5. LoadersTypeOK'
    BY <1>1, <1>2 DEF LoadersTypeOK
  <1> QED
    BY <1>3, <1>4, <1>5

\* A thread that returns gives up its page before its slot.
LEMMA CleanupCounts ==
    ASSUME OnlyTheKernelLoads, CountInv, Cleanup
    PROVE  Counts(ref_count, code_backing_page)' /\ LoadersTypeOK' /\ \A u \in Tids : HasDuly(u)'
  <1>1. /\ LoadersTypeOK /\ Counts(ref_count, code_backing_page) /\ FewThreads /\ SafeInv
        /\ \A u \in Tids : HasDuly(u)
    BY AllHaveDuly DEF CountInv, OnlyTheKernelLoads
  <1>2. /\ CleanupThread /\ ReleasePage(current) /\ program' = program /\ loading' = loading
        /\ kernel = "up"
    BY DEF Cleanup
  <1>3. current \in Tids
    BY <1>1, <1>2, WorkerIsLive
  <1>4. /\ Counts(ref_count, code_backing_page)'
        /\ code_backing_page' = [code_backing_page EXCEPT ![current] = INVALID_PAGE]
    BY <1>1, <1>2, <1>3, ReleaseCounts
  <1>5. /\ id' = id /\ state' = state /\ stage' = [stage EXCEPT ![current] = "cleaned"]
        /\ DOMAIN stage = Tids
    BY <1>1, <1>2 DEF CleanupThread, SafeInv, TypeOK
  <1>6. ASSUME NEW u \in Tids PROVE HasDuly(u)'
    <2>1. CASE u = current
      BY <1>1, <1>4, <2>1 DEF HasDuly, Counts
    <2>2. CASE u # current
      <3>1. (SlotIsFree(u)' <=> SlotIsFree(u)) /\ stage'[u] = stage[u]
        BY <1>5, <2>2 DEF SlotIsFree
      <3>2. code_backing_page'[u] = code_backing_page[u]
        BY <1>1, <1>4, <2>2 DEF Counts
      <3> QED
        BY <1>1, <1>2, <3>1, <3>2, StaysDuly
    <2> QED
      BY <2>1, <2>2
  <1>7. LoadersTypeOK'
    BY <1>1, <1>2 DEF LoadersTypeOK
  <1> QED
    BY <1>4, <1>6, <1>7

\* Steps that leave pages and loaders alone, and the slots of the others.
LEMMA OtherCounts ==
    ASSUME CountInv,
           UNCHANGED <<ref_count, code_backing_page, program, loading>>,
           \A u \in Tids : /\ SlotIsFree(u)' => SlotIsFree(u) \/ stage[u] # "work"
                           /\ stage'[u] = stage[u] \/ stage[u] # "work"
    PROVE  Counts(ref_count, code_backing_page)' /\ LoadersTypeOK' /\ \A u \in Tids : HasDuly(u)'
  <1>1. /\ LoadersTypeOK /\ Counts(ref_count, code_backing_page)
        /\ \A u \in Tids : HasDuly(u)
    BY AllHaveDuly DEF CountInv
  <1>2. /\ ref_count' = ref_count /\ code_backing_page' = code_backing_page
        /\ program' = program /\ loading' = loading
    OBVIOUS
  <1>3. ASSUME NEW u \in Tids PROVE HasDuly(u)'
    BY <1>1, <1>2 DEF HasDuly
  <1>4. Counts(ref_count, code_backing_page)'
    BY <1>1, <1>2 DEF Counts, Users
  <1>5. LoadersTypeOK'
    BY <1>1, <1>2 DEF LoadersTypeOK
  <1> QED
    BY <1>3, <1>4, <1>5

\* The steps of the threads that have nothing to do with pages.
Elsewhere ==
    \/ \E t \in Tids : ThreadWake(t)
    \/ \E armed \in BOOLEAN : SetTimer(armed)
    \/ \E destroy \in BOOLEAN : SetKernelConfig(destroy)
    \/ SetFinished \/ Halted

\* They free slots only of threads that have given up their pages.
LEMMA ElsewhereKeepsSlots ==
    ASSUME SafeInv, Elsewhere \/ UNCHANGED vars, NEW u \in Tids
    PROVE  /\ SlotIsFree(u)' => SlotIsFree(u) \/ stage[u] # "work"
           /\ stage'[u] = stage[u] \/ (stage[u] # "work" /\ stage'[u] # "work")
           /\ WakesOnlyWaiting /\ SlotIsFree(u) => SlotIsFree(u)'
           /\ current' = current /\ kernel' = kernel
           /\ "timer" \notin Calls => timer' = timer
  BY StayingKeepsSlots DEF Elsewhere, Halted

\* A step is one of the actions, told apart by what they do to the pages.
LEMMA PagesStepIs ==
    ASSUME [PagesNext]_pagesVars
    PROVE  \/ LoadElf \/ RestartAsProgram \/ Cleanup \/ Switch
           \/ \E v \in {0, 1} : WriteData(v)
           \/ \E t \in Tids : \/ Create(t) \/ CancelThread(t)
                              \/ \E f \in Programs : AddThreadFromFile(t, f)
           \/ Elsewhere /\ UNCHANGED <<pages, program, loading, written>>
           \/ UNCHANGED pagesVars
  BY DEF PagesNext, Elsewhere

\* Every step keeps the counts right, action by action.
LEMMA CountStep ==
    ASSUME OnlyTheKernelLoads, CountInv, [PagesNext]_pagesVars
    PROVE  CountInv'
  <1>1. SafeInv' /\ BootInv'
    <2>1. [Next]_vars /\ SafeInv /\ BootInv
      BY PagesStep DEF CountInv, OnlyTheKernelLoads
    <2> QED
      BY <2>1, SafeStep, BootInvStep
  <1> SUFFICES /\ Counts(ref_count, code_backing_page)' /\ LoadersTypeOK'
               /\ \A u \in Tids : HasDuly(u)'
    BY <1>1 DEF CountInv, EndedHaveNone, KernelHasNone, HasDuly
  <1>2. ASSUME NEW t \in Tids, Create(t)
        PROVE  /\ Counts(ref_count, code_backing_page)' /\ LoadersTypeOK'
               /\ \A u \in Tids : HasDuly(u)'
    BY <1>2, CreateCounts
  <1>3. ASSUME NEW t \in Tids, CancelThread(t)
        PROVE  /\ Counts(ref_count, code_backing_page)' /\ LoadersTypeOK'
               /\ \A u \in Tids : HasDuly(u)'
    BY <1>3, CancelCounts
  <1>4. ASSUME NEW t \in Tids, NEW f \in Programs, AddThreadFromFile(t, f)
        PROVE  /\ Counts(ref_count, code_backing_page)' /\ LoadersTypeOK'
               /\ \A u \in Tids : HasDuly(u)'
    BY <1>4, AddThreadFromFileCounts
  <1>5. CASE LoadElf \/ RestartAsProgram \/ Cleanup
    BY <1>5, LoadElfCounts, RestartCounts, CleanupCounts
  <1>6. CASE Switch
    <2>1. SafeInv /\ "stack_error" \notin Calls
      BY DEF CountInv, OnlyTheKernelLoads
    <2>2. ASSUME NEW u \in Tids
          PROVE  /\ SlotIsFree(u)' => SlotIsFree(u) \/ stage[u] # "work"
                 /\ stage'[u] = stage[u] \/ stage[u] # "work"
      BY <1>6, <2>1, SwitchKeepsSlots
    <2>3. UNCHANGED <<ref_count, code_backing_page, program, loading>>
      BY <1>6 DEF Switch
    <2> QED
      BY <2>2, <2>3, OtherCounts
  <1>7. CASE (\E v \in {0, 1} : WriteData(v)) \/ UNCHANGED pagesVars
    <2>1. UNCHANGED vars /\ UNCHANGED <<ref_count, code_backing_page, program, loading>>
      BY <1>7 DEF WriteData, pagesVars, pages
    <2>2. SafeInv
      BY DEF CountInv
    <2> QED
      BY <2>1, <2>2, ElsewhereKeepsSlots, OtherCounts
  <1>8. CASE Elsewhere /\ UNCHANGED <<pages, program, loading, written>>
    <2>1. UNCHANGED <<ref_count, code_backing_page, program, loading>>
      BY <1>8 DEF pages
    <2>2. SafeInv
      BY DEF CountInv
    <2> QED
      BY <1>8, <2>1, <2>2, ElsewhereKeepsSlots, OtherCounts
  <1>9. \/ LoadElf \/ RestartAsProgram \/ Cleanup \/ Switch
        \/ \E v \in {0, 1} : WriteData(v)
        \/ \E t \in Tids : \/ Create(t) \/ CancelThread(t)
                           \/ \E f \in Programs : AddThreadFromFile(t, f)
        \/ Elsewhere /\ UNCHANGED <<pages, program, loading, written>>
        \/ UNCHANGED pagesVars
    BY PagesStepIs
  <1> QED
    BY <1>2, <1>3, <1>4, <1>5, <1>6, <1>7, <1>8, <1>9

\* A backing page counts exactly the threads that use it, however programs are
\* loaded, create threads, end and are cancelled: one that is used is never
\* loaded into, and one that is not can be.
THEOREM PagesCountTheirUsers ==
    ASSUME OnlyTheKernelLoads PROVE PagesSpec => []CountsItsUsers
  <1>1. CountInv => CountsItsUsers
    <2> SUFFICES ASSUME CountInv, NEW p \in Pages
                 PROVE  ref_count[p] = Cardinality({t \in Tids : is_valid_thread(t) /\ ~Dead(t)
                                                     /\ code_backing_page[t] = p})
      BY DEF CountsItsUsers
    <2>1. \A t \in Tids : code_backing_page[t] = p => is_valid_thread(t) /\ ~Dead(t)
      BY NoPage DEF CountInv, EndedHaveNone, SlotIsFree, is_valid_thread, Dead
    <2>2. Users(code_backing_page, p) = {t \in Tids : is_valid_thread(t) /\ ~Dead(t)
                                                     /\ code_backing_page[t] = p}
      BY <2>1 DEF Users
    <2> QED
      BY <2>2 DEF CountInv, Counts
  <1>2. CountInv /\ [PagesNext]_pagesVars => CountInv'
    BY CountStep
  <1> QED
    BY PagesStart, <1>1, <1>2, PTL DEF PagesSpec

----------------------------------------------------------------------------
(* Backing pages: what is in them.                                         *)

\* Nobody interrupts a loader, or wakes a thread that has ended.
Undisturbed == OnlyTheKernelLoads /\ WakesOnlyWaiting /\ "timer" \notin Calls

PageData == [program : Files, data : {0, 1}]

DataTypeOK ==
    /\ backing \in [Pages -> PageData]
    /\ code_page \in PageData
    /\ written \in [Pages -> {0, 1, Lost}]

HasPage(t) == code_backing_page[t] # INVALID_PAGE
RunsProgram(t) == HasPage(t) /\ program[t] # "kernel"

\* Only threads of one program share a page.
OneProgramPerPage ==
    \A t, u \in Tids :
        t # u /\ HasPage(t) /\ code_backing_page[t] = code_backing_page[u]
            => program[t] = program[u] /\ program[t] # "kernel"

\* The page of a program is of that program, also while the program runs in the
\* code page; a loader that lives has a page, which it fills once, and so has
\* a thread of a program until it ends.
PagedDuly(t) ==
    /\ RunsProgram(t) => backing[code_backing_page[t]].program = program[t]
    /\ loading[t] # Nothing =>
          program[t] = "kernel" /\ stage[t] = "work" /\ (HasPage(t) \/ SlotIsFree(t))
    /\ loading[t].do = "restart" /\ HasPage(t) =>
          /\ backing[code_backing_page[t]] = Fresh(loading[t].file)
          /\ written[code_backing_page[t]] = 0
    /\ program[t] # "kernel" /\ stage[t] = "work" => HasPage(t) \/ SlotIsFree(t)

\* The data of a program are in the code page when one of its threads runs.
DataOf(p) == IF code_backing_page[current] = p THEN code_page.data ELSE backing[p].data

CodePageIsRight ==
    kernel = "up" =>
        /\ RunsProgram(current) => code_page.program = program[current]
        /\ \A t \in Tids : RunsProgram(t) =>
              written[code_backing_page[t]] \in {DataOf(code_backing_page[t]), Lost}

DataOK ==
    /\ DataTypeOK
    /\ OneProgramPerPage
    /\ \A t \in Tids : PagedDuly(t)
    /\ CodePageIsRight

DataInv == CountInv /\ timer = FALSE /\ DataOK

\* It holds before anything is loaded.
LEMMA DataStart == PagesInit => DataInv
  <1> SUFFICES ASSUME PagesInit PROVE DataInv
    OBVIOUS
  <1>1. CountInv /\ timer = FALSE /\ kernel = "boot"
    BY PagesStart DEF PagesInit, Init
  <1>2. DataTypeOK
    BY DEF DataTypeOK, PagesInit, PageData, Fresh, Files
  <1>3. ASSUME NEW t \in Tids PROVE PagedDuly(t) /\ ~HasPage(t)
    BY DEF PagedDuly, HasPage, RunsProgram, PagesInit, Nothing
  <1> QED
    BY <1>1, <1>2, <1>3 DEF DataInv, DataOK, OneProgramPerPage, CodePageIsRight

\* Threads that give up their pages, or none, leave the pages of others to them.
LEMMA SharingStays ==
    ASSUME OneProgramPerPage, program' = program,
           \A u \in Tids : code_backing_page'[u] \in {code_backing_page[u], INVALID_PAGE}
    PROVE  OneProgramPerPage'
  BY DEF OneProgramPerPage, HasPage

\* A thread whose page others leave alone, or only write programs' data to.
LEMMA PagedStays ==
    ASSUME NEW u \in Tids, PagedDuly(u), program'[u] = program[u], loading'[u] = loading[u],
           code_backing_page'[u] = code_backing_page[u],
           SlotIsFree(u) => SlotIsFree(u)',
           stage'[u] = stage[u] \/ (stage[u] # "work" /\ stage'[u] # "work"),
           RunsProgram(u) => backing'[code_backing_page[u]].program
                                = backing[code_backing_page[u]].program,
           loading[u].do = "restart" /\ HasPage(u) =>
               /\ backing'[code_backing_page[u]] = backing[code_backing_page[u]]
               /\ written'[code_backing_page[u]] = written[code_backing_page[u]]
    PROVE  PagedDuly(u)'
  BY DEF PagedDuly, HasPage, RunsProgram

\* Nobody else uses the page of a loader.
LEMMA LoaderIsAlone ==
    ASSUME OneProgramPerPage, NEW t \in Tids, HasPage(t), program[t] = "kernel",
           NEW u \in Tids, u # t
    PROVE  code_backing_page[u] # code_backing_page[t]
  BY DEF OneProgramPerPage

\* A page that nobody is counted for is nobody's.
LEMMA UncountedIsFree ==
    ASSUME Counts(ref_count, code_backing_page), NEW p \in Pages, ref_count[p] = 0, NEW t \in Tids
    PROVE  code_backing_page[t] # p
  <1>1. Cardinality(Users(code_backing_page, p)) = 0
    BY DEF Counts
  <1>2. Users(code_backing_page, p) = {}
    BY <1>1, UsersAreFew, FS_EmptySet
  <1> QED
    BY <1>2 DEF Users

\* A thread in a call, when no loader calls.
LEMMA CallerIsPaged ==
    ASSUME CountInv, DataOK, kernel = "up", stage[current] = "work", Idle
    PROVE  /\ current \in Tids /\ current # NULL /\ ~SlotIsFree(current)
           /\ HasPage(current) <=> program[current] # "kernel"
  <1>1. current \in Tids /\ current # NULL /\ ~SlotIsFree(current)
    BY WorkerIsLive DEF CountInv
  <1> QED
    BY <1>1 DEF CountInv, KernelHasNone, Idle, HasPage, DataOK, PagedDuly

----------------------------------------------------------------------------
(* Each action keeps what is in the pages right.                           *)

\* A new thread joins its creator, in the program and on the page.
LEMMA CreateData ==
    ASSUME CountInv, DataOK, NEW t \in Tids, Create(t), kernel = "up" PROVE DataOK'
  <1>1. /\ Idle /\ FirstFreeSlot(t) /\ AddThread({}) /\ stage[current] = "work"
        /\ code_page' = code_page /\ backing' = backing /\ written' = written
    BY DEF Create, Boot, AddThread, Syscall, AtStage
  <1>2. /\ current \in Tids /\ current # NULL
        /\ HasPage(current) <=> program[current] # "kernel"
    BY <1>1, CallerIsPaged
  <1>3. /\ t # current /\ current' = current /\ kernel' = kernel
        /\ ~SlotIsFree(t)' /\ stage'[t] = "work"
        /\ \A u \in Tids : u # t => (SlotIsFree(u)' <=> SlotIsFree(u)) /\ stage'[u] = stage[u]
    BY <1>1, NewThreadTakesSlot DEF CountInv
  <1>4. /\ DOMAIN code_backing_page = Tids /\ DOMAIN program = Tids /\ DOMAIN loading = Tids
    BY DEF CountInv, Counts, LoadersTypeOK
  <1>5. /\ code_backing_page' = [code_backing_page EXCEPT ![t] = code_backing_page[current]]
        /\ program' = [program EXCEPT ![t] = program[current]]
        /\ loading' = [loading EXCEPT ![t] = Nothing]
    BY <1>2 DEF Create, setup_code_page
  <1>6. /\ code_backing_page'[t] = code_backing_page[current] /\ program'[t] = program[current]
        /\ loading'[t] = Nothing
        /\ \A u \in Tids : u # t => /\ code_backing_page'[u] = code_backing_page[u]
                                    /\ program'[u] = program[u] /\ loading'[u] = loading[u]
    BY <1>4, <1>5
  <1>7. PICK as \in [Tids -> Tids] : as = [u \in Tids |-> IF u = t THEN current ELSE u]
    BY <1>2
  <1>8. \A u \in Tids : /\ as[u] \in Tids
                        /\ code_backing_page'[u] = code_backing_page[as[u]]
                        /\ program'[u] = program[as[u]]
    BY <1>2, <1>6, <1>7
  <1>9. OneProgramPerPage'
    <2>1. SUFFICES ASSUME NEW u \in Tids, NEW v \in Tids, u # v,
                          code_backing_page'[u] # INVALID_PAGE,
                          code_backing_page'[u] = code_backing_page'[v]
                   PROVE  program'[u] = program'[v] /\ program'[u] # "kernel"
      BY DEF OneProgramPerPage, HasPage
    <2>2. PICK x, y \in Tids : x = as[u] /\ y = as[v]
      BY <1>8
    <2>3. x # y \/ (x = current /\ y = current)
      BY <1>2, <1>7, <2>1, <2>2
    <2>4. /\ code_backing_page[x] # INVALID_PAGE /\ code_backing_page[x] = code_backing_page[y]
          /\ program'[u] = program[x] /\ program'[v] = program[y]
      BY <1>8, <2>1, <2>2
    <2>5. program[x] = program[y] /\ program[x] # "kernel"
      BY <1>2, <2>3, <2>4 DEF DataOK, OneProgramPerPage, HasPage
    <2> QED
      BY <2>4, <2>5
  <1>10. ASSUME NEW u \in Tids PROVE PagedDuly(u)'
    <2>1. CASE u = t
      <3>1. loading'[t] = Nothing /\ Nothing.do # "restart"
        BY <1>6 DEF Nothing
      <3>2. RunsProgram(current) => backing[code_backing_page[current]].program = program[current]
        BY <1>2 DEF DataOK, PagedDuly
      <3> QED
        BY <1>1, <1>2, <1>6, <2>1, <3>1, <3>2 DEF PagedDuly, RunsProgram, HasPage
    <2>2. CASE u # t
      BY <1>1, <1>3, <1>6, <2>2, PagedStays DEF DataOK
    <2> QED
      BY <2>1, <2>2
  <1>11. CodePageIsRight'
    <2>1. ASSUME NEW u \in Tids, RunsProgram(u)', NEW q, q = code_backing_page'[u]
          PROVE  written'[q] \in {IF code_backing_page'[current'] = q THEN code_page'.data
                                                                   ELSE backing'[q].data, Lost}
      <3>1. PICK x \in Tids : x = as[u]
        BY <1>8
      <3>2. RunsProgram(x) /\ q = code_backing_page[x]
        BY <1>8, <2>1, <3>1 DEF RunsProgram, HasPage
      <3>3. written[q] \in {IF code_backing_page[current] = q THEN code_page.data
                                                            ELSE backing[q].data, Lost}
        BY <1>1, <3>2 DEF DataOK, CodePageIsRight, DataOf, Create, AddThread, Syscall, AtStage
      <3>4. code_backing_page'[current'] = code_backing_page[current]
        BY <1>2, <1>3, <1>6
      <3> QED
        BY <1>1, <3>3, <3>4
    <2>2. RunsProgram(current)' => code_page'.program = program'[current']
      <3>1. /\ code_backing_page'[current'] = code_backing_page[current]
            /\ program'[current'] = program[current]
        BY <1>2, <1>3, <1>6
      <3> QED
        BY <1>1, <3>1 DEF DataOK, CodePageIsRight, RunsProgram, HasPage
    <2> QED
      BY <2>1, <2>2 DEF CodePageIsRight, DataOf
  <1> QED
    BY <1>1, <1>9, <1>10, <1>11 DEF DataOK, DataTypeOK

\* The kernel starts with one thread, of the kernel image.
LEMMA BootData ==
    ASSUME CountInv, DataOK, NEW t \in Tids, Create(t), kernel # "up" PROVE DataOK'
  <1>1. /\ t = 0 /\ Boot /\ kernel = "boot"
        /\ code_page' = code_page /\ backing' = backing /\ written' = written
    BY DEF Create, Boot
  <1>2. current = NULL /\ \A u \in Tids : id[u] = INVALID_THREAD
    BY <1>1 DEF CountInv, BootInv
  <1>3. \A u \in Tids : SlotIsFree(u) /\ code_backing_page[u] = INVALID_PAGE
    BY <1>2 DEF SlotIsFree, CountInv, EndedHaveNone
  <1>4. /\ DOMAIN code_backing_page = Tids /\ DOMAIN program = Tids /\ DOMAIN loading = Tids
        /\ DOMAIN id = Tids /\ DOMAIN stage = Tids
    BY DEF CountInv, Counts, LoadersTypeOK, SafeInv, TypeOK
  <1>5. /\ code_backing_page' = [code_backing_page EXCEPT ![t] = INVALID_PAGE]
        /\ program' = [program EXCEPT ![t] = "kernel"]
        /\ loading' = [loading EXCEPT ![t] = Nothing]
        /\ id' = [id EXCEPT ![t] = t] /\ stage' = [stage EXCEPT ![t] = "work"]
    BY <1>1, <1>2 DEF Create, setup_code_page, Boot, init_thread
  <1>6. \A u \in Tids : ~HasPage(u)'
    BY <1>3, <1>4, <1>5 DEF HasPage
  <1>7. ASSUME NEW u \in Tids PROVE PagedDuly(u)'
    <2>1. CASE u = t
      BY <1>4, <1>5, <1>6, <2>1 DEF PagedDuly, RunsProgram, Nothing
    <2>2. CASE u # t
      <3>1. /\ SlotIsFree(u)' /\ stage'[u] = stage[u] /\ program'[u] = program[u]
            /\ loading'[u] = loading[u]
        BY <1>2, <1>4, <1>5, <2>2 DEF SlotIsFree
      <3> QED
        BY <1>6, <3>1 DEF PagedDuly, RunsProgram, DataOK
    <2> QED
      BY <2>1, <2>2
  <1>8. \A u \in Tids : ~RunsProgram(u)'
    BY <1>6 DEF RunsProgram
  <1>9. kernel' = "up" => current' \in Tids
    BY <1>1 DEF Boot, do_scheduler, SwitchTo
  <1>10. kernel' = "up" => ~RunsProgram(current)'
    BY <1>5, <1>6, <1>9 DEF RunsProgram, HasPage
  <1> QED
    BY <1>1, <1>6, <1>7, <1>8, <1>10
       DEF DataOK, DataTypeOK, OneProgramPerPage, CodePageIsRight

\* A loader gets a page that is nobody's, and does not run in it yet.
LEMMA AddThreadFromFileData ==
    ASSUME OnlyTheKernelLoads, CountInv, DataOK, NEW t \in Tids, NEW file \in Programs,
           AddThreadFromFile(t, file)
    PROVE  DataOK'
  <1>1. /\ FirstFreeSlot(t) /\ AddThread({}) /\ Idle /\ kernel = "up" /\ stage[current] = "work"
        /\ program[current] = "kernel"
        /\ program' = [program EXCEPT ![t] = "kernel"]
        /\ loading' = [loading EXCEPT ![t] = [do |-> "copy", file |-> file]]
        /\ code_page' = code_page /\ backing' = backing /\ written' = written
    BY DEF AddThreadFromFile, OnlyTheKernelLoads, AddThread, Syscall, AtStage
  <1>2. current \in Tids /\ ~HasPage(current)
    BY <1>1, CallerIsPaged
  <1>3. /\ t # current /\ current' = current /\ kernel' = kernel
        /\ ~SlotIsFree(t)' /\ stage'[t] = "work"
        /\ \A u \in Tids : u # t => (SlotIsFree(u)' <=> SlotIsFree(u)) /\ stage'[u] = stage[u]
    BY <1>1, NewThreadTakesSlot DEF CountInv
  <1>4. PICK p \in Pages : /\ ref_count[p] = 0
                           /\ code_backing_page' = [code_backing_page EXCEPT ![t] = p]
    BY DEF AddThreadFromFile
  <1>5. \A u \in Tids : code_backing_page[u] # p
    BY <1>4, UncountedIsFree DEF CountInv
  <1>6. /\ DOMAIN code_backing_page = Tids /\ DOMAIN program = Tids /\ DOMAIN loading = Tids
    BY DEF CountInv, Counts, LoadersTypeOK
  <1>7. /\ code_backing_page'[t] = p /\ program'[t] = "kernel"
        /\ loading'[t] = [do |-> "copy", file |-> file]
        /\ \A u \in Tids : u # t => /\ code_backing_page'[u] = code_backing_page[u]
                                    /\ program'[u] = program[u] /\ loading'[u] = loading[u]
    BY <1>1, <1>4, <1>6
  <1>8. OneProgramPerPage'
    BY <1>5, <1>7 DEF DataOK, OneProgramPerPage, HasPage
  <1>9. ASSUME NEW u \in Tids PROVE PagedDuly(u)'
    <2>1. CASE u = t
      <3>1. loading'[t].do = "copy"
        BY <1>7
      <3> QED
        BY <1>3, <1>4, <1>7, <2>1, <3>1, NoPage DEF PagedDuly, RunsProgram, HasPage
    <2>2. CASE u # t
      BY <1>1, <1>3, <1>7, <2>2, PagedStays DEF DataOK
    <2> QED
      BY <2>1, <2>2
  <1>10. CodePageIsRight'
    <2>1. code_backing_page'[current'] = code_backing_page[current]
      BY <1>2, <1>3, <1>7
    <2>2. ASSUME NEW u \in Tids, RunsProgram(u)', NEW q, q = code_backing_page'[u]
          PROVE  written'[q] \in {IF code_backing_page'[current'] = q THEN code_page'.data
                                                                   ELSE backing'[q].data, Lost}
      <3>1. u # t /\ RunsProgram(u) /\ q = code_backing_page[u]
        BY <1>7, <2>2 DEF RunsProgram, HasPage
      <3> QED
        BY <1>1, <2>1, <3>1 DEF DataOK, CodePageIsRight, DataOf
    <2>3. ~RunsProgram(current)'
      BY <1>2, <2>1 DEF RunsProgram, HasPage
    <2> QED
      BY <2>2, <2>3 DEF CodePageIsRight, DataOf
  <1> QED
    BY <1>1, <1>8, <1>9, <1>10 DEF DataOK, DataTypeOK

\* A loader writes into its own page only.
LEMMA LoadElfData ==
    ASSUME CountInv, DataOK, LoadElf PROVE DataOK'
  <1>1. /\ current \in Tids /\ loading[current].file \in Programs
        /\ loading' = [loading EXCEPT ![current] =
                             [do |-> "restart", file |-> loading[current].file]]
    BY LoadElfLeaves DEF CountInv
  <1>2. PICK c, p, file : c = current /\ p = code_backing_page[c] /\ file = loading[c].file
    OBVIOUS
  <1>3. /\ kernel = "up" /\ loading[c].do = "copy" /\ vars' = vars
        /\ current' = current /\ kernel' = kernel
        /\ code_page' = code_page /\ code_backing_page' = code_backing_page /\ program' = program
        /\ backing' = [backing EXCEPT ![p] = Fresh(file)]
        /\ written' = [written EXCEPT ![p] = 0]
    BY <1>2 DEF LoadElf, vars
  <1>4. /\ program[c] = "kernel" /\ stage[c] = "work" /\ p \in Pages
    <2>1. loading[c] # Nothing
      BY <1>3 DEF Nothing
    <2>2. program[c] = "kernel" /\ stage[c] = "work" /\ (HasPage(c) \/ SlotIsFree(c))
      BY <1>1, <1>2, <2>1 DEF DataOK, PagedDuly
    <2>3. ~SlotIsFree(c)
      BY <1>2, <1>3, <2>2, WorkerIsLive DEF CountInv
    <2> QED
      BY <1>1, <1>2, <2>2, <2>3 DEF HasPage, CountInv, Counts
  <1>5. \A u \in Tids : u # c => code_backing_page[u] # p
    BY <1>1, <1>2, <1>4, LoaderIsAlone, NoPage DEF DataOK, HasPage
  <1>6. DataTypeOK'
    <2>1. Fresh(file) \in PageData
      BY <1>1, <1>2 DEF Fresh, PageData, Files
    <2> QED
      BY <1>3, <2>1 DEF DataOK, DataTypeOK
  <1>7. /\ backing'[p] = Fresh(file) /\ written'[p] = 0
        /\ \A q : q \in Pages /\ q # p => backing'[q] = backing[q] /\ written'[q] = written[q]
    BY <1>3, <1>4 DEF DataOK, DataTypeOK
  <1>8. /\ loading'[c] = [do |-> "restart", file |-> file]
        /\ \A u \in Tids : u # c => loading'[u] = loading[u]
    BY <1>1, <1>2 DEF CountInv, LoadersTypeOK
  <1>9. \A u \in Tids : (SlotIsFree(u)' <=> SlotIsFree(u)) /\ stage' = stage
    BY <1>3 DEF vars, SlotIsFree
  <1>10. \A u \in Tids : HasPage(u) => code_backing_page[u] \in Pages
    BY DEF HasPage, CountInv, Counts
  <1>11. ASSUME NEW u \in Tids PROVE PagedDuly(u)'
    <2>1. CASE u = c
      <3>1. loading'[c].file = file
        BY <1>8
      <3> QED
        BY <1>2, <1>3, <1>4, <1>7, <1>9, <2>1, <3>1, NoPage DEF PagedDuly, RunsProgram, HasPage
    <2>2. CASE u # c
      <3>1. HasPage(u) => /\ backing'[code_backing_page[u]] = backing[code_backing_page[u]]
                          /\ written'[code_backing_page[u]] = written[code_backing_page[u]]
        BY <1>5, <1>7, <1>10, <2>2
      <3> QED
        BY <1>3, <1>8, <1>9, <2>2, <3>1, PagedStays DEF DataOK, RunsProgram
    <2> QED
      BY <2>1, <2>2
  <1>12. OneProgramPerPage'
    BY <1>3, SharingStays DEF DataOK
  <1>13. CodePageIsRight'
    <2>1. ASSUME NEW u \in Tids, RunsProgram(u)', NEW q, q = code_backing_page'[u]
          PROVE  written'[q] \in {IF code_backing_page'[current'] = q THEN code_page'.data
                                                                   ELSE backing'[q].data, Lost}
      <3>1. RunsProgram(u) /\ q = code_backing_page[u] /\ u # c
        BY <1>3, <1>4, <2>1 DEF RunsProgram, HasPage
      <3>2. written'[q] = written[q] /\ backing'[q] = backing[q]
        BY <1>5, <1>7, <1>10, <3>1 DEF RunsProgram
      <3> QED
        BY <1>3, <3>1, <3>2 DEF DataOK, CodePageIsRight, DataOf
    <2>2. ~RunsProgram(current)'
      BY <1>2, <1>3, <1>4 DEF RunsProgram
    <2> QED
      BY <2>1, <2>2 DEF CodePageIsRight, DataOf
  <1> QED
    BY <1>6, <1>11, <1>12, <1>13 DEF DataOK

\* The loader becomes the program that it has put in its page.
LEMMA RestartData ==
    ASSUME CountInv, DataOK, RestartAsProgram PROVE DataOK'
  <1>1. kernel = "up" /\ current \in Tids /\ ~SlotIsFree(current)
    <2>1. kernel = "up" /\ stage[current] = "work"
      BY DEF RestartAsProgram, Restart, Syscall, AtStage
    <2> QED
      BY <2>1, WorkerIsLive DEF CountInv
  <1>2. PICK c, p, file : c = current /\ p = code_backing_page[c] /\ file = loading[c].file
    OBVIOUS
  <1>3. /\ c \in Tids /\ loading[c].do = "restart" /\ Restart({})
        /\ program' = [program EXCEPT ![c] = file] /\ loading' = [loading EXCEPT ![c] = Nothing]
        /\ code_page' = backing[p] /\ backing' = backing /\ written' = written
        /\ code_backing_page' = code_backing_page
    BY <1>1, <1>2 DEF RestartAsProgram
  <1>4. loading[c] # Nothing
    BY <1>3 DEF Nothing
  <1>5. /\ program[c] = "kernel" /\ HasPage(c)
        /\ backing[p] = Fresh(file) /\ written[p] = 0
    BY <1>1, <1>2, <1>3, <1>4 DEF DataOK, PagedDuly
  <1>6. file \in Programs /\ file # "kernel"
    BY <1>2, <1>3, <1>4, ProgramsAssumption DEF CountInv, LoadersTypeOK
  <1>7. /\ current' = c /\ kernel' = kernel
        /\ \A u \in Tids : (SlotIsFree(u)' <=> SlotIsFree(u)) /\ stage'[u] = stage[u]
    <2>1. SafeInv
      BY DEF CountInv
    <2> QED
      BY <1>2, <1>3, <2>1, RestartKeepsSlots
  <1>8. /\ program'[c] = file /\ loading'[c] = Nothing
        /\ \A u \in Tids : u # c => program'[u] = program[u] /\ loading'[u] = loading[u]
    BY <1>3 DEF CountInv, LoadersTypeOK
  <1>9. \A u \in Tids : u # c => code_backing_page[u] # p
    BY <1>2, <1>3, <1>5, LoaderIsAlone DEF DataOK
  <1>10. ASSUME NEW u \in Tids PROVE PagedDuly(u)'
    <2>1. CASE u = c
      <3>1. backing[p].program = file /\ Nothing.do # "restart"
        BY <1>5 DEF Fresh, Nothing
      <3> QED
        BY <1>2, <1>3, <1>5, <1>8, <2>1, <3>1 DEF PagedDuly, RunsProgram, HasPage
    <2>2. CASE u # c
      BY <1>3, <1>7, <1>8, <2>2, PagedStays DEF DataOK
    <2> QED
      BY <2>1, <2>2
  <1>11. OneProgramPerPage'
    <2>1. SUFFICES ASSUME NEW u \in Tids, NEW v \in Tids, u # v,
                          code_backing_page[u] # INVALID_PAGE,
                          code_backing_page[u] = code_backing_page[v]
                   PROVE  program'[u] = program'[v] /\ program'[u] # "kernel"
      BY <1>3 DEF OneProgramPerPage, HasPage
    <2>2. u # c /\ v # c
      BY <1>2, <1>9, <2>1
    <2> QED
      BY <1>8, <2>1, <2>2 DEF DataOK, OneProgramPerPage, HasPage
  <1>12. CodePageIsRight'
    <2>1. ASSUME NEW u \in Tids, RunsProgram(u)', NEW q, q = code_backing_page'[u]
          PROVE  written'[q] \in {IF code_backing_page'[current'] = q THEN code_page'.data
                                                                   ELSE backing'[q].data, Lost}
      <3>1. CASE u = c
        BY <1>2, <1>3, <1>5, <1>7, <2>1, <3>1 DEF Fresh
      <3>2. CASE u # c
        <4>1. RunsProgram(u) /\ q = code_backing_page[u] /\ q # p
          BY <1>3, <1>8, <1>9, <2>1, <3>2 DEF RunsProgram, HasPage
        <4>2. written[q] \in {IF code_backing_page[current] = q THEN code_page.data
                                                              ELSE backing[q].data, Lost}
          BY <1>1, <4>1 DEF DataOK, CodePageIsRight, DataOf
        <4> QED
          BY <1>2, <1>3, <1>7, <4>1, <4>2
      <3> QED
        BY <3>1, <3>2
    <2>2. code_page'.program = program'[current']
      BY <1>3, <1>5, <1>7, <1>8 DEF Fresh
    <2> QED
      BY <2>1, <2>2 DEF CodePageIsRight, DataOf
  <1>13. DataTypeOK'
    <2>1. p \in Pages
      BY <1>2, <1>3, <1>5 DEF HasPage, CountInv, Counts
    <2> QED
      BY <1>3, <2>1 DEF DataOK, DataTypeOK
  <1> QED
    BY <1>10, <1>11, <1>12, <1>13 DEF DataOK

\* What a program writes is in the code page until another one runs.
LEMMA WriteDataData ==
    ASSUME CountInv, DataOK, NEW v \in {0, 1}, WriteData(v) PROVE DataOK'
  <1>1. /\ kernel = "up" /\ stage[current] = "work" /\ Idle /\ program[current] # "kernel"
        /\ vars' = vars /\ current' = current /\ kernel' = kernel /\ stage' = stage
        /\ backing' = backing /\ code_backing_page' = code_backing_page
        /\ program' = program /\ loading' = loading
    BY DEF WriteData, Syscall, AtStage, vars
  <1>2. PICK c, p : c = current /\ p = code_backing_page[c]
    OBVIOUS
  <1>3. c \in Tids /\ HasPage(c) /\ RunsProgram(c) /\ p \in Pages
    BY <1>1, <1>2, CallerIsPaged DEF RunsProgram, HasPage, CountInv, Counts
  <1>4. /\ code_page' = [code_page EXCEPT !.data = v]
        /\ written' = [written EXCEPT ![p] = v]
    BY <1>2 DEF WriteData
  <1>5. code_page' \in PageData /\ code_page'.data = v /\ code_page'.program = code_page.program
    BY <1>4 DEF DataOK, DataTypeOK, PageData
  <1>6. /\ written' \in [Pages -> {0, 1, Lost}] /\ written'[p] = v
        /\ \A q \in Pages : q # p => written'[q] = written[q]
    BY <1>3, <1>4 DEF DataOK, DataTypeOK
  <1>7. \A u \in Tids : (SlotIsFree(u)' <=> SlotIsFree(u))
    BY <1>1 DEF vars, SlotIsFree
  <1>8. ASSUME NEW u \in Tids PROVE PagedDuly(u)'
    <2>1. loading[u].do = "restart" /\ HasPage(u) =>
              written'[code_backing_page[u]] = written[code_backing_page[u]]
      <3>1. SUFFICES ASSUME loading[u].do = "restart", HasPage(u)
                     PROVE  code_backing_page[u] # p /\ code_backing_page[u] \in Pages
        BY <1>6
      <3>2. loading[u] # Nothing
        BY <3>1 DEF Nothing
      <3>3. u # c /\ program[u] = "kernel"
        BY <1>1, <1>2, <3>2 DEF Idle, DataOK, PagedDuly
      <3>4. code_backing_page[c] # code_backing_page[u]
        BY <1>3, <3>1, <3>3, LoaderIsAlone DEF DataOK
      <3> QED
        BY <1>2, <3>1, <3>4 DEF HasPage, CountInv, Counts
    <2> QED
      BY <1>1, <1>7, <2>1, PagedStays DEF DataOK
  <1>9. OneProgramPerPage'
    BY <1>1, SharingStays DEF DataOK
  <1>10. CodePageIsRight'
    <2>1. ASSUME NEW u \in Tids, RunsProgram(u)', NEW q, q = code_backing_page'[u]
          PROVE  written'[q] \in {IF code_backing_page'[current'] = q THEN code_page'.data
                                                                   ELSE backing'[q].data, Lost}
      <3>1. RunsProgram(u) /\ q = code_backing_page[u] /\ q \in Pages
        BY <1>1, <2>1 DEF RunsProgram, HasPage, CountInv, Counts
      <3>2. CASE q = p
        BY <1>1, <1>2, <1>5, <1>6, <3>2
      <3>3. CASE q # p
        <4>1. written[q] \in {IF code_backing_page[current] = q THEN code_page.data
                                                              ELSE backing[q].data, Lost}
          BY <1>1, <3>1 DEF DataOK, CodePageIsRight, DataOf
        <4> QED
          BY <1>1, <1>2, <1>6, <3>1, <3>3, <4>1
      <3> QED
        BY <3>2, <3>3
    <2>2. code_page'.program = program'[current']
      BY <1>1, <1>2, <1>3, <1>5 DEF DataOK, CodePageIsRight
    <2> QED
      BY <2>1, <2>2 DEF CodePageIsRight, DataOf
  <1> QED
    BY <1>1, <1>5, <1>6, <1>8, <1>9, <1>10 DEF DataOK, DataTypeOK

\* What is lost of the data of a page when the current thread ends: nothing,
\* or what it wrote since it was last switched to.
LEMMA LeavingData ==
    ASSUME CountInv, DataOK, kernel = "up", current \in Tids, LeaveUnsaved
    PROVE  /\ written' \in [Pages -> {0, 1, Lost}]
           /\ \A u \in Tids : u # current /\ RunsProgram(u) =>
                 written'[code_backing_page[u]] \in {backing[code_backing_page[u]].data, Lost}
           /\ \A u \in Tids : u # current /\ HasPage(u) /\ program[u] = "kernel" =>
                 written'[code_backing_page[u]] = written[code_backing_page[u]]
  <1>1. PICK c, p : c = current /\ p = code_backing_page[c]
    OBVIOUS
  <1>2. PICK lost \in BOOLEAN : lost <=> /\ p # INVALID_PAGE /\ program[c] # "kernel"
                                         /\ backing[p].data # code_page.data
    OBVIOUS
  <1>3. written' = IF lost THEN [written EXCEPT ![p] = Lost] ELSE written
    BY <1>1, <1>2 DEF LeaveUnsaved
  <1>4. written \in [Pages -> {0, 1, Lost}] /\ p \in Pages \cup {INVALID_PAGE}
    BY <1>1 DEF DataOK, DataTypeOK, CountInv, Counts
  <1>5. /\ written' \in [Pages -> {0, 1, Lost}]
        /\ lost => written'[p] = Lost
        /\ \A q \in Pages : q # p \/ ~lost => written'[q] = written[q]
    BY <1>2, <1>3, <1>4
  <1>6. ASSUME NEW u \in Tids, u # current, RunsProgram(u), NEW q, q = code_backing_page[u]
        PROVE  written'[q] \in {backing[q].data, Lost}
    <2>1. q \in Pages
      BY <1>6 DEF RunsProgram, HasPage, CountInv, Counts
    <2>2. written[q] \in {IF p = q THEN code_page.data ELSE backing[q].data, Lost}
      BY <1>1, <1>6 DEF DataOK, CodePageIsRight, DataOf
    <2>3. CASE q = p
      <3>1. program[c] # "kernel" /\ p # INVALID_PAGE
        BY <1>1, <1>6, <2>1, <2>3, NoPage DEF DataOK, OneProgramPerPage, RunsProgram, HasPage
      <3>2. lost \/ backing[q].data = code_page.data
        BY <1>2, <2>3, <3>1
      <3> QED
        BY <1>5, <2>1, <2>2, <2>3, <3>2
    <2>4. CASE q # p
      BY <1>5, <2>1, <2>2, <2>4
    <2> QED
      BY <2>3, <2>4
  <1>7. ASSUME NEW u \in Tids, u # current, HasPage(u), program[u] = "kernel",
               NEW q, q = code_backing_page[u]
        PROVE  written'[q] = written[q]
    <2>1. q \in Pages /\ q # p
      <3>1. code_backing_page[c] # code_backing_page[u]
        BY <1>1, <1>7, LoaderIsAlone DEF DataOK
      <3> QED
        BY <1>1, <1>7, <3>1 DEF HasPage, CountInv, Counts
    <2> QED
      BY <1>5, <2>1
  <1> QED
    BY <1>5, <1>6, <1>7

\* A thread that returns leaves its page to the others that use it.
LEMMA CleanupData ==
    ASSUME CountInv, DataOK, OnlyTheKernelLoads, Cleanup PROVE DataOK'
  <1>1. /\ kernel = "up" /\ stage[current] = "work" /\ Idle
        /\ id' = id /\ state' = state /\ stage' = [stage EXCEPT ![current] = "cleaned"]
        /\ current' = current /\ kernel' = kernel
        /\ code_page' = code_page /\ backing' = backing /\ program' = program /\ loading' = loading
        /\ LeaveUnsaved /\ ReleasePage(current)
    BY DEF Cleanup, CleanupThread, AtStage
  <1>2. current \in Tids
    BY <1>1, CallerIsPaged
  <1>3. code_backing_page' = [code_backing_page EXCEPT ![current] = INVALID_PAGE]
    BY <1>1, <1>2, ReleaseCounts DEF CountInv, OnlyTheKernelLoads
  <1>4. /\ code_backing_page'[current] = INVALID_PAGE /\ stage'[current] = "cleaned"
        /\ \A u \in Tids : u # current => /\ code_backing_page'[u] = code_backing_page[u]
                                          /\ stage'[u] = stage[u]
    BY <1>1, <1>2, <1>3 DEF CountInv, Counts, SafeInv, TypeOK
  <1>5. /\ written' \in [Pages -> {0, 1, Lost}]
        /\ \A u \in Tids : u # current /\ RunsProgram(u) =>
              written'[code_backing_page[u]] \in {backing[code_backing_page[u]].data, Lost}
        /\ \A u \in Tids : u # current /\ HasPage(u) /\ program[u] = "kernel" =>
              written'[code_backing_page[u]] = written[code_backing_page[u]]
    BY <1>1, <1>2, LeavingData
  <1>6. ASSUME NEW u \in Tids PROVE PagedDuly(u)'
    <2>1. CASE u = current
      <3>1. loading'[u] = Nothing /\ Nothing.do # "restart"
        BY <1>1, <2>1 DEF Idle, Nothing
      <3> QED
        BY <1>4, <2>1, <3>1 DEF PagedDuly, RunsProgram, HasPage
    <2>2. CASE u # current
      <3>1. loading[u].do = "restart" => program[u] = "kernel"
        <4>1. loading[u].do = "restart" => loading[u] # Nothing
          BY DEF Nothing
        <4> QED
          BY <4>1 DEF DataOK, PagedDuly
      <3>2. SlotIsFree(u)' <=> SlotIsFree(u)
        BY <1>1 DEF SlotIsFree
      <3> QED
        BY <1>1, <1>4, <1>5, <2>2, <3>1, <3>2, PagedStays DEF DataOK
    <2> QED
      BY <2>1, <2>2
  <1>7. OneProgramPerPage'
    BY <1>1, <1>4, SharingStays DEF DataOK
  <1>8. CodePageIsRight'
    <2>1. ASSUME NEW u \in Tids, RunsProgram(u)', NEW q, q = code_backing_page'[u]
          PROVE  written'[q] \in {IF code_backing_page'[current'] = q THEN code_page'.data
                                                                   ELSE backing'[q].data, Lost}
      <3>1. u # current /\ RunsProgram(u) /\ q = code_backing_page[u] /\ q # INVALID_PAGE
        BY <1>1, <1>4, <2>1 DEF RunsProgram, HasPage
      <3> QED
        BY <1>1, <1>4, <1>5, <3>1
    <2>2. ~RunsProgram(current)'
      BY <1>1, <1>4 DEF RunsProgram, HasPage
    <2> QED
      BY <2>1, <2>2 DEF CodePageIsRight, DataOf
  <1> QED
    BY <1>1, <1>5, <1>6, <1>7, <1>8 DEF DataOK, DataTypeOK

\* What a switch does to the pages, when it goes by the pages of f.
LEMMA SwapIs ==
    ASSUME NEW f, current # NULL, swap_paged_threads(f)
    PROVE  /\ current' = current => code_page' = code_page /\ backing' = backing
           /\ current' # current =>
                /\ backing' = IF f[current] = INVALID_PAGE THEN backing
                              ELSE [backing EXCEPT ![f[current]] = code_page]
                /\ code_page' = IF f[current'] = INVALID_PAGE THEN code_page
                                                              ELSE backing'[f[current']]
  BY DEF swap_paged_threads

\* A thread that is cancelled by another one has its data in its page, or
\* shares the code page with the one that cancels it.
LEMMA CancelOtherData ==
    ASSUME CountInv, DataOK, OnlyTheKernelLoads, NEW t \in Tids, CancelThread(t), t # current
    PROVE  DataOK'
  <1>1. /\ kernel = "up" /\ stage[current] = "work" /\ Idle /\ ThreadCancel(t)
        /\ current' = current /\ kernel' = kernel
        /\ program' = program /\ loading' = loading /\ written' = written
        /\ ReleasePage(t)
    BY DEF CancelThread, ThreadCancel, Syscall, AtStage
  <1>2. current \in Tids /\ current # NULL
    BY <1>1, CallerIsPaged
  <1>3. code_page' = code_page /\ backing' = backing
    BY <1>1 DEF CancelThread, swap_paged_threads
  <1>4. code_backing_page' = [code_backing_page EXCEPT ![t] = INVALID_PAGE]
    BY <1>1, ReleaseCounts DEF CountInv, OnlyTheKernelLoads
  <1>5. /\ code_backing_page'[t] = INVALID_PAGE
        /\ \A u \in Tids : u # t => code_backing_page'[u] = code_backing_page[u]
    BY <1>4 DEF CountInv, Counts
  <1>6. /\ SlotIsFree(t)' /\ stage'[t] = stage[t]
        /\ \A u \in Tids : u # t => (SlotIsFree(u)' <=> SlotIsFree(u)) /\ stage'[u] = stage[u]
    BY <1>1, CancelKeepsSlots DEF CountInv
  <1>7. ASSUME NEW u \in Tids PROVE PagedDuly(u)'
    <2>1. CASE u = t
      BY <1>1, <1>5, <1>6, <2>1 DEF PagedDuly, RunsProgram, HasPage, DataOK
    <2>2. CASE u # t
      BY <1>1, <1>3, <1>5, <1>6, <2>2, PagedStays DEF DataOK
    <2> QED
      BY <2>1, <2>2
  <1>8. OneProgramPerPage'
    BY <1>1, <1>5, SharingStays DEF DataOK
  <1>9. CodePageIsRight'
    <2>0. code_backing_page'[current'] = code_backing_page[current]
      BY <1>1, <1>2, <1>5
    <2>1. ASSUME NEW u \in Tids, RunsProgram(u)', NEW q, q = code_backing_page'[u]
          PROVE  written'[q] \in {IF code_backing_page'[current'] = q THEN code_page'.data
                                                                   ELSE backing'[q].data, Lost}
      <3>1. RunsProgram(u) /\ q = code_backing_page[u]
        BY <1>1, <1>5, <2>1 DEF RunsProgram, HasPage
      <3> QED
        BY <1>1, <1>3, <2>0, <3>1 DEF DataOK, CodePageIsRight, DataOf
    <2>2. RunsProgram(current)' => code_page'.program = program'[current']
      BY <1>1, <1>3, <2>0 DEF DataOK, CodePageIsRight, RunsProgram, HasPage
    <2> QED
      BY <2>1, <2>2 DEF CodePageIsRight, DataOf
  <1> QED
    BY <1>1, <1>3, <1>7, <1>8, <1>9 DEF DataOK, DataTypeOK

\* A thread that cancels itself gives up its page, and the next one's comes in.
LEMMA CancelSelfData ==
    ASSUME CountInv, DataOK, OnlyTheKernelLoads, CancelThread(current) PROVE DataOK'
  <1>1. /\ kernel = "up" /\ stage[current] = "work" /\ Idle /\ ThreadCancel(current)
        /\ program' = program /\ loading' = loading
        /\ ReleasePage(current) /\ LeaveUnsaved
    BY DEF CancelThread, ThreadCancel, Syscall, AtStage
  <1>2. current \in Tids /\ current # NULL
    BY <1>1, CallerIsPaged
  <1>3. code_backing_page' = [code_backing_page EXCEPT ![current] = INVALID_PAGE]
    BY <1>1, <1>2, ReleaseCounts DEF CountInv, OnlyTheKernelLoads
  <1>4. /\ code_backing_page'[current] = INVALID_PAGE
        /\ \A u \in Tids : u # current => code_backing_page'[u] = code_backing_page[u]
        /\ code_backing_page' \in [Tids -> Pages \cup {INVALID_PAGE}]
    BY <1>2, <1>3 DEF CountInv, Counts
  <1>0. PICK c : c = current
    OBVIOUS
  <1>5. /\ SlotIsFree(c)'
        /\ \A u \in Tids : /\ u # c => (SlotIsFree(u)' <=> SlotIsFree(u))
                           /\ stage'[u] = stage[u]
    <2>1. c \in Tids /\ ThreadCancel(c) /\ SafeInv
      BY <1>0, <1>1, <1>2 DEF CountInv
    <2> QED
      BY <2>1, CancelKeepsSlots
  <1>6. /\ written' \in [Pages -> {0, 1, Lost}]
        /\ \A u \in Tids : u # current /\ RunsProgram(u) =>
              written'[code_backing_page[u]] \in {backing[code_backing_page[u]].data, Lost}
        /\ \A u \in Tids : u # current /\ HasPage(u) /\ program[u] = "kernel" =>
              written'[code_backing_page[u]] = written[code_backing_page[u]]
    BY <1>1, <1>2, LeavingData
  <1>7. /\ kernel' = "up" => current' \in Tids /\ current' # current
        /\ kernel' # "up" => current' = current
    <2>1. DOMAIN state = Tids
      BY DEF CountInv, SafeInv, TypeOK
    <2>2. PICK st : st = [state EXCEPT ![current] = "cancelled"] /\ do_scheduler(id, st, NULL)
      BY <1>1 DEF ThreadCancel
    <2>3. st[current] = "cancelled"
      BY <1>2, <2>1, <2>2
    <2> QED
      BY <2>2, <2>3 DEF do_scheduler, SwitchTo, choose_next_thread, can_schedule_thread
  <1>8. PICK f : f = code_backing_page'
    OBVIOUS
  <1>9. /\ backing' = backing
        /\ current' = current => code_page' = code_page
        /\ current' # current => code_page' = IF f[current'] = INVALID_PAGE THEN code_page
                                                                       ELSE backing[f[current']]
    <2>1. swap_paged_threads(f)
      BY <1>8 DEF CancelThread
    <2> QED
      BY <1>2, <1>4, <1>8, <2>1, SwapIs
  <1>10. ASSUME NEW u \in Tids PROVE PagedDuly(u)'
    <2>1. CASE u = current
      <3>1. loading'[u] = Nothing /\ Nothing.do # "restart"
        BY <1>1, <2>1 DEF Idle, Nothing
      <3> QED
        BY <1>0, <1>4, <1>5, <2>1, <3>1 DEF PagedDuly, RunsProgram, HasPage
    <2>2. CASE u # current
      <3>1. loading[u].do = "restart" => program[u] = "kernel"
        <4>1. loading[u].do = "restart" => loading[u] # Nothing
          BY DEF Nothing
        <4> QED
          BY <4>1 DEF DataOK, PagedDuly
      <3> QED
        BY <1>0, <1>1, <1>4, <1>5, <1>6, <1>9, <2>2, <3>1, PagedStays DEF DataOK
    <2> QED
      BY <2>1, <2>2
  <1>11. OneProgramPerPage'
    BY <1>1, <1>4, SharingStays DEF DataOK
  <1>12. CodePageIsRight'
    <2> SUFFICES ASSUME kernel' = "up"
                 PROVE  /\ RunsProgram(current)' => code_page'.program = program'[current']
                        /\ \A u \in Tids : RunsProgram(u)' =>
                              written'[code_backing_page'[u]]
                                  \in {DataOf(code_backing_page[u])', Lost}
      BY DEF CodePageIsRight
    <2>1. PICK n \in Tids : n = current' /\ n # current
      BY <1>7
    <2>2. /\ f[n] = code_backing_page[n] /\ code_backing_page'[n] = code_backing_page[n]
          /\ HasPage(n) => code_page' = backing[code_backing_page[n]]
      BY <1>4, <1>8, <1>9, <2>1 DEF HasPage
    <2>3. ASSUME NEW u \in Tids, RunsProgram(u)', NEW q, q = code_backing_page'[u]
          PROVE  written'[q] \in {IF code_backing_page'[current'] = q THEN code_page'.data
                                                                   ELSE backing'[q].data, Lost}
      <3>1. u # current /\ RunsProgram(u) /\ q = code_backing_page[u] /\ q # INVALID_PAGE
        BY <1>1, <1>4, <2>3 DEF RunsProgram, HasPage
      <3>2. written'[q] \in {backing[q].data, Lost}
        BY <1>6, <3>1
      <3>3. code_backing_page[n] = q => code_page' = backing[q]
        BY <2>2, <3>1 DEF HasPage
      <3> QED
        BY <1>9, <2>1, <2>2, <3>2, <3>3
    <2>4. RunsProgram(current)' => code_page'.program = program'[current']
      <3>1. RunsProgram(n) => backing[code_backing_page[n]].program = program[n]
        BY DEF DataOK, PagedDuly
      <3> QED
        BY <1>1, <2>1, <2>2, <3>1 DEF RunsProgram, HasPage
    <2> QED
      BY <2>3, <2>4 DEF DataOf
  <1>13. DataTypeOK'
    <2>1. current' # current => current' \in Tids
      BY <1>7
    <2>2. code_page' \in PageData
      BY <1>4, <1>8, <1>9, <2>1 DEF DataOK, DataTypeOK
    <2> QED
      BY <1>6, <1>9, <2>2 DEF DataOK, DataTypeOK
  <1> QED
    BY <1>10, <1>11, <1>12, <1>13 DEF DataOK

\* What a switch is where no timer interrupts: the current thread gives up the
\* processor itself, and it is not loading.
LEMMA SwitchIsWanted ==
    ASSUME CountInv, DataOK, timer = FALSE, Undisturbed, Switch
    PROVE  /\ kernel = "up" /\ current \in Tids /\ current # NULL /\ loading[current] = Nothing
           /\ kernel' = "up" => current' \in Tids
           /\ kernel' # "up" => current' = current
  <1>1. kernel = "up" /\ (Idle \/ stage[current] = "finished")
    BY DEF Switch, Tick, YieldAsm, AtStage
  <1>2. current \in Tids /\ current # NULL
    BY <1>1, WorkerIsLive DEF CountInv
  <1>3. loading[current] = Nothing
    BY <1>1, <1>2 DEF Idle, DataOK, PagedDuly
  <1>4. PICK st : do_scheduler(id, st, NULL)
    <2>1. CASE YieldAny \/ YieldAsm
      BY <2>1 DEF YieldAny, YieldAsm
    <2>2. CASE ThreadWait
      BY <2>2 DEF ThreadWait
    <2> QED
      BY <2>1, <2>2 DEF Switch, Tick, StackError, Syscall, Undisturbed, OnlyTheKernelLoads
  <1>5. /\ kernel' = "up" => current' \in Tids
        /\ kernel' # "up" => current' = current
    BY <1>4 DEF do_scheduler, SwitchTo, choose_next_thread, can_schedule_thread
  <1> QED
    BY <1>1, <1>2, <1>3, <1>5

\* The page of a thread that is left holds what the code page held, and the
\* page of the next one is copied in.
LEMMA SwitchData ==
    ASSUME CountInv, DataOK, timer = FALSE, Undisturbed, Switch PROVE DataOK'
  <1>1. /\ kernel = "up" /\ current \in Tids /\ current # NULL /\ loading[current] = Nothing
        /\ kernel' = "up" => current' \in Tids
        /\ kernel' # "up" => current' = current
    BY SwitchIsWanted
  <1>2. PICK c, p : c = current /\ p = code_backing_page[c]
    OBVIOUS
  <1>3. /\ code_backing_page' = code_backing_page /\ program' = program /\ loading' = loading
        /\ written' = written /\ swap_paged_threads(code_backing_page)
    BY DEF Switch
  <1>4. /\ p \in Pages \cup {INVALID_PAGE} /\ INVALID_PAGE \notin Pages
        /\ code_backing_page \in [Tids -> Pages \cup {INVALID_PAGE}]
    BY <1>1, <1>2, NoPage DEF CountInv, Counts
  <1>5. /\ current' = c => code_page' = code_page /\ backing' = backing
        /\ current' # c =>
             /\ backing' = IF p = INVALID_PAGE THEN backing ELSE [backing EXCEPT ![p] = code_page]
             /\ code_page' = IF code_backing_page[current'] = INVALID_PAGE THEN code_page
                                               ELSE backing'[code_backing_page[current']]
    BY <1>1, <1>2, <1>3, SwapIs
  <1>6. DataTypeOK'
    <2>1. backing' \in [Pages -> PageData] /\ code_page' \in PageData
      <3>1. backing' \in [Pages -> PageData]
        BY <1>4, <1>5 DEF DataOK, DataTypeOK
      <3>2. current' # c => current' \in Tids
        BY <1>1, <1>2
      <3> QED
        BY <1>4, <1>5, <3>1, <3>2 DEF DataOK, DataTypeOK
    <2> QED
      BY <1>3, <2>1 DEF DataOK, DataTypeOK
  <1>7. ASSUME NEW q \in Pages, current' # c
        PROVE  backing'[q] = IF q = p THEN code_page ELSE backing[q]
    BY <1>4, <1>5, <1>7 DEF DataOK, DataTypeOK
  <1>8. ASSUME NEW u \in Tids, RunsProgram(u), NEW q, q = code_backing_page[u]
        PROVE  backing'[q].program = program[u]
    <2>1. q \in Pages /\ backing[q].program = program[u]
      BY <1>4, <1>8 DEF RunsProgram, HasPage, DataOK, PagedDuly
    <2>2. q = p => code_page.program = program[u]
      <3>1. q = p => program[c] = program[u] /\ RunsProgram(c)
        BY <1>1, <1>2, <1>8 DEF DataOK, OneProgramPerPage, RunsProgram, HasPage
      <3> QED
        BY <1>1, <1>2, <3>1 DEF DataOK, CodePageIsRight
    <2> QED
      BY <1>5, <1>7, <2>1, <2>2
  <1>9. ASSUME NEW u \in Tids, loading[u].do = "restart", HasPage(u)
        PROVE  backing'[code_backing_page[u]] = backing[code_backing_page[u]]
    <2>1. loading[u] # Nothing
      BY <1>9 DEF Nothing
    <2>2. program[u] = "kernel" /\ u # c
      BY <1>1, <1>2, <2>1 DEF DataOK, PagedDuly
    <2>3. p # code_backing_page[u]
      BY <1>1, <1>2, <1>9, <2>2, LoaderIsAlone DEF DataOK
    <2>4. code_backing_page[u] \in Pages
      BY <1>4, <1>9 DEF HasPage
    <2> QED
      BY <1>5, <1>7, <2>3, <2>4
  <1>10. ASSUME NEW u \in Tids PROVE PagedDuly(u)'
    <2>1. (SlotIsFree(u)' <=> SlotIsFree(u)) /\ (stage'[u] = stage[u]
               \/ (stage[u] = "finished" /\ stage'[u] = "returned"))
      BY SwitchKeepsSlots DEF CountInv, Undisturbed, OnlyTheKernelLoads
    <2>2. RunsProgram(u) => backing'[code_backing_page[u]].program
                               = backing[code_backing_page[u]].program
      BY <1>8 DEF DataOK, PagedDuly
    <2> QED
      BY <1>3, <1>9, <2>1, <2>2, PagedStays DEF DataOK
  <1>11. OneProgramPerPage'
    BY <1>3, SharingStays DEF DataOK
  <1>12. CodePageIsRight'
    <2>1. ASSUME kernel' = "up", NEW u \in Tids, RunsProgram(u), NEW q, q = code_backing_page[u]
          PROVE  written'[q] \in {IF code_backing_page'[current'] = q THEN code_page'.data
                                                                   ELSE backing'[q].data, Lost}
      <3>1. q \in Pages /\ q # INVALID_PAGE
        BY <1>4, <2>1 DEF RunsProgram, HasPage
      <3>2. written[q] \in {IF p = q THEN code_page.data ELSE backing[q].data, Lost}
        BY <1>1, <1>2, <2>1 DEF DataOK, CodePageIsRight, DataOf
      <3>3. CASE current' = c
        BY <1>2, <1>3, <1>5, <3>2, <3>3
      <3>4. CASE current' # c
        <4>1. written[q] \in {backing'[q].data, Lost}
          BY <1>7, <3>1, <3>2, <3>4
        <4>2. code_backing_page[current'] = q => code_page' = backing'[q]
          BY <1>5, <3>1, <3>4
        <4> QED
          BY <1>3, <4>1, <4>2
      <3> QED
        BY <3>3, <3>4
    <2>2. ASSUME kernel' = "up", RunsProgram(current)'
          PROVE  code_page'.program = program'[current']
      <3>1. PICK n \in Tids : n = current'
        BY <1>1, <2>2
      <3>2. RunsProgram(n)
        BY <1>3, <2>2, <3>1 DEF RunsProgram, HasPage
      <3>3. CASE n = c
        BY <1>1, <1>2, <1>3, <1>5, <3>1, <3>2, <3>3 DEF DataOK, CodePageIsRight
      <3>4. CASE n # c
        <4>1. code_page' = backing'[code_backing_page[n]]
          BY <1>5, <3>1, <3>2, <3>4 DEF RunsProgram, HasPage
        <4> QED
          BY <1>3, <1>8, <3>1, <3>2, <4>1
      <3> QED
        BY <3>3, <3>4
    <2>3. \A u \in Tids : RunsProgram(u)' <=> RunsProgram(u)
      BY <1>3 DEF RunsProgram, HasPage
    <2> QED
      BY <1>3, <2>1, <2>2, <2>3 DEF CodePageIsRight, DataOf
  <1> QED
    BY <1>6, <1>10, <1>11, <1>12 DEF DataOK

\* Steps that have nothing to do with pages.
LEMMA ElsewhereData ==
    ASSUME CountInv, DataOK, Undisturbed, Elsewhere \/ UNCHANGED vars,
           UNCHANGED <<pages, program, loading, written>>
    PROVE  DataOK'
  <1>1. /\ code_page' = code_page /\ backing' = backing /\ code_backing_page' = code_backing_page
        /\ program' = program /\ loading' = loading /\ written' = written
    BY DEF pages
  <1>2. ASSUME NEW u \in Tids
        PROVE  /\ stage'[u] = stage[u] \/ (stage[u] # "work" /\ stage'[u] # "work")
               /\ SlotIsFree(u) => SlotIsFree(u)'
               /\ current' = current /\ kernel' = kernel
    BY ElsewhereKeepsSlots DEF CountInv, Undisturbed
  <1>3. current' = current /\ kernel' = kernel
    <2>1. 0 \in Tids
      BY MaxThreadsAssumption DEF Tids
    <2> QED
      BY <1>2, <2>1
  <1>4. ASSUME NEW u \in Tids PROVE PagedDuly(u)'
    BY <1>1, <1>2, PagedStays DEF DataOK
  <1>5. OneProgramPerPage'
    BY <1>1, SharingStays DEF DataOK
  <1>6. CodePageIsRight'
    BY <1>1, <1>3 DEF DataOK, CodePageIsRight, RunsProgram, HasPage, DataOf
  <1> QED
    BY <1>1, <1>4, <1>5, <1>6 DEF DataOK, DataTypeOK

\* Only a call arms the timer.
LEMMA TimerStaysOff ==
    ASSUME "timer" \notin Calls, timer = FALSE, [Next]_vars PROVE timer' = FALSE
  BY DEF Next, UserStep, ThreadEnd, vars, config, Boot, AddThread, Restart, YieldAny, YieldTo,
         ThreadWake, ThreadCancel, ThreadWait, SetTimer, SetChild, SetPermissions,
         SetKernelConfig, StackError, Exit, CleanupThread, SetFinished, YieldAsm, Unreachable,
         Tick, Halted, Syscall

\* Every step keeps what is in the pages right, action by action.
LEMMA DataStep ==
    ASSUME Undisturbed, DataInv, [PagesNext]_pagesVars PROVE DataInv'
  <1>0. /\ OnlyTheKernelLoads /\ CountInv /\ DataOK /\ timer = FALSE
        /\ NoneRemoved /\ "timer" \notin Calls
    BY DEF DataInv, Undisturbed, OnlyTheKernelLoads
  <1>1. CountInv' /\ timer' = FALSE
    BY <1>0, CountStep, PagesStep, TimerStaysOff
  <1> SUFFICES DataOK'
    BY <1>1 DEF DataInv
  <1>2. ASSUME NEW t \in Tids, Create(t) PROVE DataOK'
    BY <1>0, <1>2, CreateData, BootData
  <1>3. ASSUME NEW t \in Tids, CancelThread(t) PROVE DataOK'
    <2>1. CASE t = current
      <3>1. CancelThread(current)
        BY <1>3, <2>1
      <3> QED
        BY <1>0, <3>1, CancelSelfData
    <2>2. CASE t # current
      BY <1>0, <1>3, <2>2, CancelOtherData
    <2> QED
      BY <2>1, <2>2
  <1>4. ASSUME NEW t \in Tids, NEW f \in Programs, AddThreadFromFile(t, f) PROVE DataOK'
    BY <1>0, <1>4, AddThreadFromFileData
  <1>5. CASE LoadElf \/ RestartAsProgram \/ Cleanup \/ Switch
    BY <1>0, <1>5, LoadElfData, RestartData, CleanupData, SwitchData
  <1>6. CASE \E v \in {0, 1} : WriteData(v)
    BY <1>0, <1>6, WriteDataData
  <1>7. CASE (Elsewhere /\ UNCHANGED <<pages, program, loading, written>>) \/ UNCHANGED pagesVars
    <2>1. Elsewhere \/ UNCHANGED vars
      BY <1>7 DEF pagesVars
    <2>2. UNCHANGED <<pages, program, loading, written>>
      BY <1>7 DEF pagesVars
    <2> QED
      BY <1>0, <2>1, <2>2, ElsewhereData
  <1>8. \/ LoadElf \/ RestartAsProgram \/ Cleanup \/ Switch
        \/ \E v \in {0, 1} : WriteData(v)
        \/ \E t \in Tids : \/ Create(t) \/ CancelThread(t)
                           \/ \E f \in Programs : AddThreadFromFile(t, f)
        \/ Elsewhere /\ UNCHANGED <<pages, program, loading, written>>
        \/ UNCHANGED pagesVars
    BY PagesStepIs
  <1> QED
    BY <1>2, <1>3, <1>4, <1>5, <1>6, <1>7, <1>8

\* The code page holds the program of the thread that runs, whatever was
\* loaded, swapped, cancelled or started since the thread last ran.
THEOREM ProgramsFindTheirPage ==
    ASSUME Undisturbed PROVE PagesSpec => []RunsItsOwnProgram
  <1>1. DataInv => RunsItsOwnProgram
    <2> SUFFICES ASSUME DataInv, kernel = "up", program[current] # "kernel",
                        stage[current] = "work"
                 PROVE  code_page.program = program[current]
      BY DEF RunsItsOwnProgram
    <2>1. current \in Tids /\ ~SlotIsFree(current)
      BY WorkerIsLive DEF DataInv, CountInv
    <2>2. RunsProgram(current)
      BY <2>1 DEF DataInv, DataOK, PagedDuly, RunsProgram
    <2> QED
      BY <2>2 DEF DataInv, DataOK, CodePageIsRight
  <1>2. DataInv /\ [PagesNext]_pagesVars => DataInv'
    BY DataStep
  <1> QED
    BY DataStart, <1>1, <1>2, PTL DEF PagesSpec

\* What one thread of a program writes the others of its page read, also when
\* other programs run in between, unless the one that wrote it has ended.
THEOREM ProgramsKeepTheirData ==
    ASSUME Undisturbed PROVE PagesSpec => []ProgramDataIsKept
  <1>1. DataInv => ProgramDataIsKept
    <2> SUFFICES ASSUME DataInv, kernel = "up", program[current] # "kernel",
                        stage[current] = "work"
                 PROVE  written[code_backing_page[current]] \in {code_page.data, Lost}
      BY DEF ProgramDataIsKept
    <2>1. current \in Tids /\ ~SlotIsFree(current)
      BY WorkerIsLive DEF DataInv, CountInv
    <2>2. RunsProgram(current)
      BY <2>1 DEF DataInv, DataOK, PagedDuly, RunsProgram
    <2> QED
      BY <2>1, <2>2 DEF DataInv, DataOK, CodePageIsRight, DataOf
  <1>2. DataInv /\ [PagesNext]_pagesVars => DataInv'
    BY DataStep
  <1> QED
    BY DataStart, <1>1, <1>2, PTL DEF PagesSpec
=============================================================================
