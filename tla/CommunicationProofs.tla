------------------------- MODULE CommunicationProofs -------------------------
(***************************************************************************)
(* What threads communicate with, for every number of threads and          *)
(* messages.  The message rings keep their shape, a new thread finds its   *)
(* ring empty, and the rings implement the mailboxes of the abstract       *)
(* specification.  A mutex excludes, with threads that are cancelled,      *)
(* destroyed, woken or replaced at any time.                               *)
(***************************************************************************)
EXTENDS Messages, Synchronisation, ThreadsProofs, SequenceTheorems, FiniteSetTheorems

----------------------------------------------------------------------------
(* Rings of N slots, as the message queues and the condition variables     *)
(* have them: n is where the first element is, e where the next one goes.  *)

Slots(N) == 0 .. N - 1
Onward(N, i) == IF i + 1 = N THEN 0 ELSE i + 1

IsRing(N, E, slots, n, e, fl) ==
    /\ N \in Nat \ {0} /\ slots \in [Slots(N) -> E] /\ n \in Slots(N) /\ e \in Slots(N)
    /\ fl \in BOOLEAN /\ (fl => n = e)

\* Where an index that goes past an end of the ring comes out.
LEMMA Wrap ==
    ASSUME NEW N \in Nat \ {0}, NEW x \in Int, -N <= x, x < 2 * N
    PROVE  x % N = IF x < 0 THEN x + N ELSE IF x < N THEN x ELSE x - N
  <1>1. \A y \in 0 .. N - 1 :
            /\ y % N = y
            /\ (y + N) % N = y
            /\ (y - N) % N = y
    OBVIOUS
  <1>2. CASE x < 0
    <2>1. PICK y \in 0 .. N - 1 : y = x + N
      BY <1>2
    <2>2. x = y - N
      BY <2>1
    <2>3. x % N = y
      BY <1>1, <2>2
    <2> QED
      BY <1>2, <2>1, <2>3
  <1>3. CASE 0 <= x /\ x < N
    <2>1. x \in 0 .. N - 1
      BY <1>3
    <2> QED
      BY <1>1, <1>3, <2>1
  <1>4. CASE x >= N
    <2>1. PICK y \in 0 .. N - 1 : y = x - N
      BY <1>4
    <2>2. x = y + N /\ ~(x < 0) /\ ~(x < N)
      BY <1>4, <2>1
    <2>3. x % N = y
      BY <1>1, <2>2
    <2> QED
      BY <2>1, <2>2, <2>3
  <1> QED
    BY <1>2, <1>3, <1>4

\* The slot of the i-th element of a ring whose first is in slot n.
Place(N, n, i) == IF n + i - 1 < N THEN n + i - 1 ELSE n + i - 1 - N

\* The elements there are in a ring.
Filled(N, n, e, fl) == IF fl THEN N ELSE IF n <= e THEN e - n ELSE e - n + N

RingQueue(N, slots, n, e, fl) == [i \in 1 .. Filled(N, n, e, fl) |-> slots[Place(N, n, i)]]

\* The slots of a queue are slots of the ring.
LEMMA PlaceStays ==
    ASSUME NEW N \in Nat \ {0}, NEW n \in Slots(N), NEW i \in 1 .. N
    PROVE  Place(N, n, i) \in Slots(N) /\ (n + i - 1) % N = Place(N, n, i)
  <1>1. PICK x \in Int : x = n + i - 1
    BY DEF Slots
  <1>2. /\ 0 <= x /\ x < 2 * N
        /\ -N <= x /\ ~(x < 0)
    BY <1>1 DEF Slots
  <1>3. x % N = IF x < N THEN x ELSE x - N
    BY <1>2, Wrap
  <1>4. Place(N, n, i) = IF x < N THEN x ELSE x - N
    BY <1>1 DEF Place, Slots
  <1>5. Place(N, n, i) \in Slots(N)
    BY <1>2, <1>4 DEF Slots
  <1>6. x % N = Place(N, n, i)
    BY <1>3, <1>4
  <1>7. (n + i - 1) % N = Place(N, n, i)
    BY <1>1, <1>6
  <1> QED
    BY <1>5, <1>7

\* A ring is as long as its pointers say.
LEMMA FilledIs ==
    ASSUME NEW N \in Nat \ {0}, NEW n \in Slots(N), NEW e \in Slots(N), NEW fl \in BOOLEAN
    PROVE  /\ Filled(N, n, e, fl) \in 0 .. N
           /\ ~fl => (e - n) % N = Filled(N, n, e, fl)
  <1>1. Filled(N, n, e, fl) \in 0 .. N
    BY DEF Filled, Slots
  <1>2. PICK x \in Int : x = e - n
    BY DEF Slots
  <1>3. /\ -N <= x /\ x < N
        /\ x < 2 * N /\ (x < 0 <=> ~(n <= e))
    BY <1>2 DEF Slots
  <1>4. x % N = IF n <= e THEN x ELSE x + N
    BY <1>3, Wrap
  <1>5. ~fl => x % N = Filled(N, n, e, fl)
    BY <1>2, <1>4 DEF Filled
  <1> QED
    BY <1>1, <1>2, <1>5

\* The queue of a ring is a sequence of its elements.
LEMMA RingQueueIs ==
    ASSUME NEW N, NEW E, NEW slots, NEW n, NEW e, NEW fl, IsRing(N, E, slots, n, e, fl)
    PROVE  /\ RingQueue(N, slots, n, e, fl) \in Seq(E)
           /\ Len(RingQueue(N, slots, n, e, fl)) = Filled(N, n, e, fl)
           /\ \A i \in 1 .. Filled(N, n, e, fl) :
                  RingQueue(N, slots, n, e, fl)[i] = slots[Place(N, n, i)]
  <1> USE DEF IsRing
  <1>1. PICK L \in Nat : L = Filled(N, n, e, fl) /\ L <= N
    BY FilledIs
  <1>2. PICK q : q = RingQueue(N, slots, n, e, fl)
    OBVIOUS
  <1>3. ASSUME NEW i \in 1 .. L PROVE slots[Place(N, n, i)] \in E
    <2>1. i \in 1 .. N
      BY <1>1
    <2> QED
      BY <2>1, PlaceStays
  <1>4. q = [i \in 1 .. L |-> slots[Place(N, n, i)]]
    BY <1>1, <1>2 DEF RingQueue
  <1>5. q \in [1 .. L -> E]
    BY <1>3, <1>4
  <1>6. q \in Seq(E)
    BY <1>5, SeqDef
  <1>7. Len(q) = L
    BY <1>5, <1>6, LenProperties
  <1> QED
    BY <1>1, <1>2, <1>4, <1>6, <1>7

\* The length and the slots of a queue as the models define them, without the
\* remainders.
LEMMA QueueIs ==
    ASSUME NEW N \in Nat \ {0}, NEW n \in Slots(N), NEW e \in Slots(N), NEW fl \in BOOLEAN, NEW L,
           L = IF fl THEN N ELSE (e - n) % N
    PROVE  /\ L = Filled(N, n, e, fl)
           /\ \A i \in 1 .. L : (n + i - 1) % N = Place(N, n, i)
  <1>1. L = Filled(N, n, e, fl) /\ L \in 0 .. N
    BY FilledIs DEF Filled
  <1>2. ASSUME NEW i \in 1 .. L PROVE (n + i - 1) % N = Place(N, n, i)
    <2>1. i \in 1 .. N
      BY <1>1
    <2> QED
      BY <2>1, PlaceStays
  <1> QED
    BY <1>1, <1>2

\* The end of a ring goes on from e to e2, with L messages before.
Extends(N, n, e, e2, fl, fl2, L) ==
    /\ L = Filled(N, n, e, fl)
    /\ Filled(N, n, e2, fl2) = L + 1
    /\ L < N
    /\ Place(N, n, L + 1) = e
    /\ \A i \in 1 .. L : Place(N, n, i) # e

\* slots2 is slots but for slot e.
Writes(N, slots, slots2, e, letter) ==
    slots2[e] = letter /\ \A i \in Slots(N) : i # e => slots2[i] = slots[i]

\* Going on at the end of a ring that is not full adds one element...
LEMMA EndAdvances ==
    ASSUME NEW N \in Nat \ {0}, NEW n \in Slots(N), NEW e \in Slots(N), NEW fl \in BOOLEAN, ~fl,
           NEW L, L = Filled(N, n, e, fl),
           NEW e2, e2 = Onward(N, e), NEW fl2 \in BOOLEAN, fl2 <=> n = e2
    PROVE  Extends(N, n, e, e2, fl, fl2, L)
  <1>1. /\ Filled(N, n, e2, fl2) = L + 1
        /\ L < N
        /\ Place(N, n, L + 1) = e
        /\ \A i \in 1 .. L : Place(N, n, i) # e
    BY DEF Slots, Filled, Onward, Place
  <1> QED
    BY <1>1 DEF Extends

\* ... and at the front of one that is not empty takes the first away.
LEMMA FrontAdvances ==
    ASSUME NEW N \in Nat \ {0}, NEW n \in Slots(N), NEW e \in Slots(N),
           NEW fl \in BOOLEAN, fl => n = e,
           n # e \/ fl, NEW L, L = Filled(N, n, e, fl), NEW n2, n2 = Onward(N, n),
           NEW fl2 \in BOOLEAN, ~fl2
    PROVE  /\ L > 0
           /\ Filled(N, n2, e, fl2) = L - 1
           /\ Place(N, n, 1) = n
           /\ \A i \in 1 .. L - 1 : Place(N, n2, i) = Place(N, n, i + 1)
  BY DEF Slots, Filled, Onward, Place

\* An element at the end of a ring that is not full is appended to its queue.
LEMMA RingSend ==
    ASSUME NEW N, NEW E, NEW slots, NEW slots2, NEW n, NEW e, NEW e2, NEW fl, NEW fl2,
           IsRing(N, E, slots, n, e, fl), IsRing(N, E, slots2, n, e2, fl2),
           NEW letter \in E, NEW L, Extends(N, n, e, e2, fl, fl2, L),
           Writes(N, slots, slots2, e, letter)
    PROVE  /\ Len(RingQueue(N, slots, n, e, fl)) < N
           /\ RingQueue(N, slots2, n, e2, fl2) = Append(RingQueue(N, slots, n, e, fl), letter)
  <1>a. /\ L = Filled(N, n, e, fl) /\ Filled(N, n, e2, fl2) = L + 1
        /\ L < N
        /\ Place(N, n, L + 1) = e /\ \A i \in 1 .. L : Place(N, n, i) # e
    BY DEF Extends
  <1>b. /\ N \in Nat \ {0} /\ slots \in [Slots(N) -> E] /\ slots2 \in [Slots(N) -> E]
        /\ n \in Slots(N) /\ e \in Slots(N) /\ e2 \in Slots(N)
        /\ fl \in BOOLEAN /\ fl2 \in BOOLEAN
    BY DEF IsRing
  <1>1. PICK q, q2, p : /\ q = RingQueue(N, slots, n, e, fl)
                        /\ q2 = RingQueue(N, slots2, n, e2, fl2) /\ p = Append(q, letter)
    OBVIOUS
  <1>2. /\ q \in Seq(E) /\ Len(q) = L /\ \A i \in 1 .. L : q[i] = slots[Place(N, n, i)]
    BY <1>1, <1>a, RingQueueIs
  <1>4. L \in 0 .. N
    <2>1. Filled(N, n, e, fl) \in 0 .. N
      BY <1>b, FilledIs
    <2> QED
      BY <1>a, <2>1
  <1>5. /\ q2 \in Seq(E) /\ Len(q2) = L + 1
        /\ \A i \in 1 .. L + 1 : q2[i] = slots2[Place(N, n, i)]
    BY <1>1, <1>a, RingQueueIs
  <1>6. L \in Nat
    BY <1>2
  <1>7. ASSUME NEW i \in 1 .. L PROVE slots2[Place(N, n, i)] = slots[Place(N, n, i)]
    <2>1. i \in 1 .. N
      BY <1>4, <1>6, <1>b
    <2>2. Place(N, n, i) \in Slots(N) /\ Place(N, n, i) # e
      BY <1>a, <1>b, <2>1, PlaceStays
    <2> QED
      BY <2>2 DEF Writes
  <1>8. q2[L + 1] = letter
    <2>1. L + 1 \in 1 .. L + 1
      BY <1>6
    <2>2. q2[L + 1] = slots2[e]
      BY <1>a, <1>5, <2>1
    <2> QED
      BY <2>2 DEF Writes
  <1>9. /\ p \in Seq(E) /\ Len(p) = L + 1
        /\ \A i \in 1 .. L : p[i] = q[i]
        /\ p[L + 1] = letter
    BY <1>1, <1>2, AppendProperties
  <1>10. ASSUME NEW i \in 1 .. L + 1 PROVE q2[i] = p[i]
    <2>1. CASE i = L + 1
      BY <1>8, <1>9, <2>1
    <2>2. CASE i # L + 1
      <3>1. i \in 1 .. L
        BY <1>6, <2>2
      <3>2. q2[i] = slots2[Place(N, n, i)]
        BY <1>5
      <3>3. p[i] = q[i] /\ q[i] = slots[Place(N, n, i)]
        BY <1>2, <1>9, <3>1
      <3> QED
        BY <1>7, <3>1, <3>2, <3>3
    <2> QED
      BY <2>1, <2>2
  <1>11. q2 = p
    BY <1>5, <1>9, <1>10, SeqEqual
  <1> QED
    BY <1>1, <1>2, <1>11, <1>a

\* Taking the element at the front of a ring leaves the tail of its queue.
LEMMA RingGet ==
    ASSUME NEW N, NEW E, NEW slots, NEW n, NEW e, NEW fl, IsRing(N, E, slots, n, e, fl),
           n # e \/ fl, NEW n2, n2 = Onward(N, n), NEW fl2 \in BOOLEAN, ~fl2
    PROVE  /\ RingQueue(N, slots, n, e, fl) # <<>>
           /\ Head(RingQueue(N, slots, n, e, fl)) = slots[n]
           /\ RingQueue(N, slots, n2, e, fl2) = Tail(RingQueue(N, slots, n, e, fl))
  <1>b. /\ N \in Nat \ {0} /\ slots \in [Slots(N) -> E] /\ n \in Slots(N) /\ e \in Slots(N)
        /\ fl \in BOOLEAN /\ (fl => n = e)
    BY DEF IsRing
  <1>1. PICK q, L, q2, p : /\ q = RingQueue(N, slots, n, e, fl) /\ L = Filled(N, n, e, fl)
                           /\ q2 = RingQueue(N, slots, n2, e, fl2) /\ p = Tail(q)
    OBVIOUS
  <1>2. /\ q \in Seq(E) /\ Len(q) = L /\ \A i \in 1 .. L : q[i] = slots[Place(N, n, i)]
    BY <1>1, RingQueueIs
  <1>3. n2 \in Slots(N)
    BY <1>b DEF Slots, Onward
  <1>4. /\ L > 0 /\ Filled(N, n2, e, fl2) = L - 1 /\ Place(N, n, 1) = n
        /\ \A i \in 1 .. L - 1 : Place(N, n2, i) = Place(N, n, i + 1)
    BY <1>1, <1>b, FrontAdvances
  <1>5. /\ q2 \in Seq(E) /\ Len(q2) = L - 1
        /\ \A i \in 1 .. L - 1 : q2[i] = slots[Place(N, n2, i)]
    <2>1. IsRing(N, E, slots, n2, e, fl2)
      BY <1>b, <1>3 DEF IsRing
    <2> QED
      BY <1>1, <1>4, <2>1, RingQueueIs
  <1>6. L \in Nat
    BY <1>2
  <1>7. q # <<>> /\ Head(q) = q[1]
    BY <1>2, <1>4, <1>6
  <1>8. q[1] = slots[n]
    <2>1. 1 \in 1 .. L
      BY <1>4, <1>6
    <2> QED
      BY <1>2, <1>4, <2>1
  <1>9. p \in Seq(E) /\ Len(p) = L - 1 /\ \A i \in 1 .. L - 1 : p[i] = q[i + 1]
    BY <1>1, <1>2, <1>7, HeadTailProperties
  <1>10. ASSUME NEW i \in 1 .. L - 1 PROVE q2[i] = p[i]
    <2>1. i + 1 \in 1 .. L
      BY <1>6
    <2> QED
      BY <1>2, <1>4, <1>5, <1>9, <2>1
  <1>11. q2 = p
    BY <1>5, <1>9, <1>10, SeqEqual
  <1> QED
    BY <1>1, <1>7, <1>8, <1>11

----------------------------------------------------------------------------
(* The rings of messages.                                                  *)

RingInv == SafeInv /\ RingTypeOK

\* The rings are empty at first.
LEMMA RingInit == MessagesInit => RingInv
  <1>1. ASSUME MessagesInit PROVE RingTypeOK
    <2>1. 0 \in MsgSlots /\ 0 \in Tids
      BY QueueSizeAssumption, MaxThreadsAssumption DEF MsgSlots, Tids
    <2>2. QED
      BY <1>1, <2>1, ContentsAssumption DEF MessagesInit, RingTypeOK, Message
  <1>2. QED
    BY <1>1, SafeInit DEF MessagesInit, RingInv

\* What happens to the threads is a step of Threads.
LEMMA ThreadsStep == [MessagesNext]_messageVars => [Next]_vars
  BY DEF MessagesNext, messageVars, GetMsg, SendMsg, StartIn, Next, UserStep, ThreadEnd

\* A pointer that advances stays inside the ring.
LEMMA PointerStays ==
    ASSUME NEW ptr \in MsgSlots PROVE inc_msg_pointer(ptr) \in MsgSlots
  BY QueueSizeAssumption DEF MsgSlots, inc_msg_pointer

\* Every step keeps the rings in shape, action by action.
LEMMA RingStep == RingInv /\ [MessagesNext]_messageVars => RingInv'
  <1> SUFFICES ASSUME RingInv, [MessagesNext]_messageVars PROVE RingTypeOK'
    BY ThreadsStep, SafeStep DEF RingInv
  <1> USE DEF RingInv, RingTypeOK
  <1>a. 0 \in MsgSlots
    BY QueueSizeAssumption DEF MsgSlots
  <1>b. kernel = "up" => current \in Tids
    BY DEF SafeInv, TypeOK
  <1>1. CASE GetMsg
    <2>1. current \in Tids
      BY <1>1, <1>b DEF GetMsg, Syscall, AtStage
    <2>2. inc_msg_pointer(next_msg[current]) \in MsgSlots
      BY <2>1, PointerStays
    <2>3. QED
      BY <1>1, <2>1, <2>2 DEF GetMsg
  <1>2. ASSUME NEW t \in Tids, NEW c \in Contents, SendMsg(t, c) PROVE RingTypeOK'
    <2>1. [src |-> current, content |-> c] \in Message
      BY <1>2, <1>b DEF SendMsg, Syscall, AtStage, Message
    <2>2. inc_msg_pointer(end_msgs[t]) \in MsgSlots
      BY PointerStays
    <2>3. messages' \in [Tids -> [MsgSlots -> Message]]
      BY <1>2, <2>1 DEF SendMsg
    <2>4. /\ end_msgs' \in [Tids -> MsgSlots]
          /\ next_msg' \in [Tids -> MsgSlots]
          /\ msgs_full' \in [Tids -> BOOLEAN]
          /\ \A u \in Tids : msgs_full'[u] => next_msg'[u] = end_msgs'[u]
      BY <1>2, <2>2 DEF SendMsg
    <2>5. QED
      BY <2>3, <2>4
  <1>3. ASSUME NEW t \in Tids, EmptyMessageBuffer(t) PROVE RingTypeOK'
    BY <1>3, <1>a DEF EmptyMessageBuffer
  <1>4. CASE UNCHANGED ring
    BY <1>4 DEF ring
  <1>5. QED
    BY <1>1, <1>2, <1>3, <1>4 DEF MessagesNext, messageVars

\* The pointers of a ring stay in it, and a ring is only full where they meet.
THEOREM RingsAreTyped == MessagesSpec => []RingTypeOK
  <1>1. RingInv => RingTypeOK
    BY DEF RingInv
  <1>2. QED
    BY RingInit, RingStep, <1>1, PTL DEF MessagesSpec

----------------------------------------------------------------------------
\* A slot that is free is only taken by a thread that starts in it.
LEMMA OnlyStartsFill ==
    ASSUME RingInv, MessagesNext, NEW t \in Tids, SlotIsFree(t), ~SlotIsFree(t)'
    PROVE  EmptyMessageBuffer(t)
  <1> USE DEF RingInv, SafeInv
  <1>a. kernel = "up" => current \in Tids
    BY DEF TypeOK
  <1>n. NULL \in Tids \cup {NULL}
    OBVIOUS
  <1>1. CASE GetMsg \/ \E u \in Tids, c \in Contents : SendMsg(u, c)
    BY <1>1 DEF GetMsg, SendMsg, vars, SlotIsFree
  <1>2. ASSUME NEW u \in Tids, StartIn(u), EmptyMessageBuffer(u)
        PROVE  t = u
    <2>1. CASE u = 0 /\ Boot
      <3>1. CASE t = 0
        BY <2>1, <3>1
      <3>2. CASE t # 0
        <4> DEFINE st == [state EXCEPT ![0] = "init"]
        <4>1. st[t] = state[t] /\ id'[t] = id[t]
          BY <2>1, <3>2 DEF Boot, init_thread, TypeOK
        <4>2. do_scheduler(id', st, NULL)
          BY <2>1 DEF Boot
        <4>3. SlotIsFree(t)'
          BY <4>1, <4>2 DEF do_scheduler, SwitchTo, choose_next_thread,
                            can_schedule_thread, SlotIsFree
        <4>4. QED
          BY <4>3
      <3>3. QED
        BY <3>1, <3>2
    <2>2. CASE FirstFreeSlot(u) /\ \E remove \in RemoveSets : AddThread(remove)
      <3>1. PICK v \in Tids : /\ FirstFreeSlot(v)
                              /\ id' = [id EXCEPT ![v] = v]
                              /\ state' = [state EXCEPT ![v] = "init"]
        BY <2>2 DEF AddThread, init_thread
      <3>2. v = u
        BY <2>2, <3>1 DEF FirstFreeSlot, Tids
      <3>3. QED
        BY <3>1, <3>2 DEF SlotIsFree, TypeOK
    <2>3. CASE u = current /\ \E remove \in RemoveSets : Restart(remove)
      BY <2>3, <1>a DEF Restart, init_thread, SlotIsFree, TypeOK
    <2>4. QED
      BY <1>2, <2>1, <2>2, <2>3 DEF StartIn
  <1>3. CASE YieldAny \/ Tick \/ YieldAsm
    BY <1>3, <1>n, SchedulerKeepsFree DEF YieldAny, Tick, YieldAsm, SlotIsFree
  <1>4. ASSUME NEW u \in Tids, ThreadCancel(u) PROVE FALSE
    <2> DEFINE st == [state EXCEPT ![u] = "cancelled"]
    <2>1. id[t] = INVALID_THREAD \/ st[t] \in {"cancelled", "finished"}
      BY DEF SlotIsFree, TypeOK
    <2>2. CASE do_scheduler(id, st, NULL)
      BY <1>4, <1>n, <2>1, <2>2, SchedulerKeepsFree DEF ThreadCancel
    <2>3. CASE state' = st
      BY <1>4, <2>1, <2>3 DEF ThreadCancel, SlotIsFree
    <2>4. QED
      BY <1>4, <2>2, <2>3 DEF ThreadCancel
  <1>5. CASE \/ CleanupThread \/ SetFinished \/ Unreachable \/ Halted
             \/ \E armed \in BOOLEAN : SetTimer(armed)
    BY <1>5, <1>a DEF CleanupThread, SetFinished, Unreachable, Halted, SetTimer, vars,
                      SlotIsFree, TypeOK
  <1>6. QED
    BY <1>1, <1>2, <1>3, <1>4, <1>5 DEF MessagesNext, ThreadEnd

\* A ring that was emptied stands for the empty queue.
LEMMA EmptyRing ==
    ASSUME RingInv, NEW t \in Tids, EmptyMessageBuffer(t) PROVE Queue(t)' = <<>>
  <1>1. msgs_full'[t] = FALSE /\ end_msgs'[t] = 0 /\ next_msg'[t] = 0
    BY DEF EmptyMessageBuffer, RingInv, RingTypeOK
  <1>2. QueueLength(t)' = 0
    BY <1>1, QueueSizeAssumption DEF QueueLength
  <1>3. QED
    BY <1>2 DEF Queue

\* A new thread never receives what was sent to an earlier thread of its slot.
THEOREM NewThreadsStartEmpty == MessagesSpec => NewThreadsHaveNoMessages
  <1> DEFINE Emptied == \A t \in Tids : SlotIsFree(t) /\ ~SlotIsFree(t)' => Queue(t)' = <<>>
  <1>1. RingInv /\ [MessagesNext]_messageVars => [Emptied]_messageVars
    BY OnlyStartsFill, EmptyRing
  <1>2. QED
    BY RingInit, RingStep, <1>1, PTL DEF MessagesSpec, NewThreadsHaveNoMessages

----------------------------------------------------------------------------
(* The rings implement mailboxes.                                          *)

\* What the lemmas about rings are used with.
LEMMA MessageRing ==
    /\ THREAD_MSG_QUEUE_SIZE \in Nat \ {0} /\ MsgSlots = Slots(THREAD_MSG_QUEUE_SIZE)
    /\ \A i : inc_msg_pointer(i) = Onward(THREAD_MSG_QUEUE_SIZE, i)
  BY QueueSizeAssumption DEF MsgSlots, Slots, inc_msg_pointer, Onward

\* The queue of thread t, ...
LEMMA QueueOf ==
    ASSUME RingTypeOK, NEW t \in Tids
    PROVE  Queue(t) = RingQueue(THREAD_MSG_QUEUE_SIZE, messages[t], next_msg[t], end_msgs[t],
                                msgs_full[t])
  <1>1. PICK slots, n, e, fl, L :
            /\ slots = messages[t] /\ n = next_msg[t] /\ e = end_msgs[t] /\ fl = msgs_full[t]
            /\ L = QueueLength(t)
    OBVIOUS
  <1>2. n \in MsgSlots /\ e \in MsgSlots /\ fl \in BOOLEAN
    BY <1>1 DEF RingTypeOK
  <1>3. L = IF fl THEN THREAD_MSG_QUEUE_SIZE ELSE (e - n) % THREAD_MSG_QUEUE_SIZE
    BY <1>1 DEF QueueLength
  <1>4. Queue(t) = [i \in 1 .. L |-> slots[(n + i - 1) % THREAD_MSG_QUEUE_SIZE]]
    BY <1>1 DEF Queue
  <1>5. /\ L = Filled(THREAD_MSG_QUEUE_SIZE, n, e, fl)
        /\ \A i \in 1 .. L :
               (n + i - 1) % THREAD_MSG_QUEUE_SIZE = Place(THREAD_MSG_QUEUE_SIZE, n, i)
    BY <1>2, <1>3, MessageRing, QueueIs
  <1>6. Queue(t) = [i \in 1 .. L |-> slots[Place(THREAD_MSG_QUEUE_SIZE, n, i)]]
    BY <1>4, <1>5
  <1>7. Queue(t) = RingQueue(THREAD_MSG_QUEUE_SIZE, slots, n, e, fl)
    BY <1>5, <1>6 DEF RingQueue
  <1> QED
    BY <1>1, <1>7

\* ... and after a step.
LEMMA QueueOfNext ==
    ASSUME RingTypeOK', NEW t \in Tids
    PROVE  Queue(t)' = RingQueue(THREAD_MSG_QUEUE_SIZE, messages'[t], next_msg'[t], end_msgs'[t],
                                 msgs_full'[t])
  <1>1. PICK slots, n, e, fl, L :
            /\ slots = messages'[t] /\ n = next_msg'[t] /\ e = end_msgs'[t]
            /\ fl = msgs_full'[t] /\ L = QueueLength(t)'
    OBVIOUS
  <1>2. n \in MsgSlots /\ e \in MsgSlots /\ fl \in BOOLEAN
    BY <1>1 DEF RingTypeOK
  <1>3. L = IF fl THEN THREAD_MSG_QUEUE_SIZE ELSE (e - n) % THREAD_MSG_QUEUE_SIZE
    BY <1>1 DEF QueueLength
  <1>4. Queue(t)' = [i \in 1 .. L |-> slots[(n + i - 1) % THREAD_MSG_QUEUE_SIZE]]
    BY <1>1 DEF Queue
  <1>5. /\ L = Filled(THREAD_MSG_QUEUE_SIZE, n, e, fl)
        /\ \A i \in 1 .. L :
               (n + i - 1) % THREAD_MSG_QUEUE_SIZE = Place(THREAD_MSG_QUEUE_SIZE, n, i)
    BY <1>2, <1>3, MessageRing, QueueIs
  <1>6. Queue(t)' = [i \in 1 .. L |-> slots[Place(THREAD_MSG_QUEUE_SIZE, n, i)]]
    BY <1>4, <1>5
  <1>7. Queue(t)' = RingQueue(THREAD_MSG_QUEUE_SIZE, slots, n, e, fl)
    BY <1>5, <1>6 DEF RingQueue
  <1> QED
    BY <1>1, <1>7

\* Before the first thread runs, nobody has sent anything.
BoxesInv ==
    /\ RingInv
    /\ kernel = "boot" => \A t \in Tids : end_msgs[t] = next_msg[t] /\ ~msgs_full[t]

\* The rings start empty.
LEMMA BoxesInit == MessagesInit => BoxesInv
  BY RingInit DEF BoxesInv, MessagesInit

\* No step goes back to before the first thread.
LEMMA BoxesStep == BoxesInv /\ [MessagesNext]_messageVars => BoxesInv'
  <1> SUFFICES ASSUME BoxesInv, [MessagesNext]_messageVars PROVE BoxesInv'
    OBVIOUS
  <1>1. RingInv'
    BY RingStep DEF BoxesInv
  <1>2. CASE UNCHANGED messageVars
    BY <1>1, <1>2 DEF BoxesInv, messageVars, ring, vars
  <1>3. CASE MessagesNext
    <2>1. kernel' # "boot"
      BY <1>3 DEF MessagesNext, GetMsg, SendMsg, StartIn, Boot, AddThread, Restart, YieldAny,
                  Tick, ThreadEnd, CleanupThread, SetFinished, YieldAsm, Unreachable, Halted,
                  SetTimer, ThreadCancel, Syscall, AtStage, do_scheduler, SwitchTo, vars
    <2> QED
      BY <1>1, <2>1 DEF BoxesInv
  <1> QED
    BY <1>2, <1>3

\* The queue of a thread that no message comes to or leaves.
LEMMA QueueStays ==
    ASSUME RingTypeOK, RingTypeOK', NEW t \in Tids,
           messages'[t] = messages[t], next_msg'[t] = next_msg[t],
           end_msgs'[t] = end_msgs[t], msgs_full'[t] = msgs_full[t]
    PROVE  Queue(t)' = Queue(t)
  BY QueueOf, QueueOfNext

\* send_msg puts the message at the end of the mailbox.
LEMMA SendRefines ==
    ASSUME RingInv, RingInv', NEW t \in Tids, NEW c \in Contents, SendMsg(t, c)
    PROVE  Boxes!MailboxNext
  <1> USE DEF RingInv
  <1>1. current \in Tids
    BY DEF SafeInv, TypeOK, SendMsg, Syscall, AtStage
  <1>2. PICK letter : letter = [src |-> current, content |-> c]
    OBVIOUS
  <1>3. letter \in Message
    BY <1>1, <1>2 DEF Message
  <1>4. PICK slots, n, e, fl : /\ slots = messages[t] /\ n = next_msg[t]
                                 /\ e = end_msgs[t] /\ fl = msgs_full[t]
    OBVIOUS
  <1>5. PICK slots2, e2, fl2 : /\ slots2 = messages'[t] /\ e2 = end_msgs'[t]
                                 /\ fl2 = msgs_full'[t]
    OBVIOUS
  <1>6. /\ slots \in [MsgSlots -> Message] /\ n \in MsgSlots /\ e \in MsgSlots
        /\ fl \in BOOLEAN /\ fl2 \in BOOLEAN
    BY <1>4, <1>5 DEF RingTypeOK
  <1>7. /\ ~fl /\ slots2 = [slots EXCEPT ![e] = letter] /\ e2 = inc_msg_pointer(e)
        /\ n = next_msg'[t]
    BY <1>2, <1>4, <1>5 DEF SendMsg, RingTypeOK
  <1>8. fl2 <=> n = e2
    BY <1>4, <1>5, <1>6 DEF SendMsg, RingTypeOK
  <1>s. slots2 \in [MsgSlots -> Message] /\ Writes(THREAD_MSG_QUEUE_SIZE, slots, slots2, e, letter)
    BY <1>3, <1>6, <1>7, MessageRing DEF Writes
  <1>e. PICK L : L = Filled(THREAD_MSG_QUEUE_SIZE, n, e, fl)
    OBVIOUS
  <1>p. Extends(THREAD_MSG_QUEUE_SIZE, n, e, e2, fl, fl2, L)
    <2>1. /\ THREAD_MSG_QUEUE_SIZE \in Nat \ {0} /\ ~fl
          /\ n \in Slots(THREAD_MSG_QUEUE_SIZE) /\ e \in Slots(THREAD_MSG_QUEUE_SIZE)
      BY ONLY <1>6, <1>7, MessageRing
    <2>2. e2 = Onward(THREAD_MSG_QUEUE_SIZE, e)
      BY ONLY <1>7, MessageRing
    <2> QED
      BY ONLY <1>6, <1>8, <1>e, <2>1, <2>2, EndAdvances
  <1>x. e2 \in MsgSlots
    <2>1. inc_msg_pointer(e) \in MsgSlots
      BY ONLY <1>6, PointerStays
    <2> QED
      BY ONLY <1>7, <2>1
  <1>9. /\ Len(RingQueue(THREAD_MSG_QUEUE_SIZE, slots, n, e, fl)) < THREAD_MSG_QUEUE_SIZE
        /\ RingQueue(THREAD_MSG_QUEUE_SIZE, slots2, n, e2, fl2)
               = Append(RingQueue(THREAD_MSG_QUEUE_SIZE, slots, n, e, fl), letter)
    <2>1. /\ IsRing(THREAD_MSG_QUEUE_SIZE, Message, slots, n, e, fl)
          /\ IsRing(THREAD_MSG_QUEUE_SIZE, Message, slots2, n, e2, fl2)
      BY <1>6, <1>7, <1>8, <1>s, <1>x, MessageRing DEF IsRing
    <2> QED
      BY <1>3, <1>s, <1>p, <2>1, RingSend
  <1>10. Queue(t) = RingQueue(THREAD_MSG_QUEUE_SIZE, slots, n, e, fl)
    BY <1>4, QueueOf
  <1>11. Queue(t)' = RingQueue(THREAD_MSG_QUEUE_SIZE, slots2, n, e2, fl2)
    BY <1>5, <1>7, QueueOfNext
  <1>12. ASSUME NEW u \in Tids, u # t PROVE Queue(u)' = Queue(u)
    BY <1>12, QueueStays DEF SendMsg, RingTypeOK
  <1>13. PICK b, b2 : b = [u \in Tids |-> Queue(u)] /\ b2 = [u \in Tids |-> Queue(u)']
    OBVIOUS
  <1>14. Len(b[t]) < THREAD_MSG_QUEUE_SIZE /\ b2 = [b EXCEPT ![t] = Append(@, letter)]
    BY <1>9, <1>10, <1>11, <1>12, <1>13
  <1>15. state' = state /\ delivered' = delivered
    BY DEF SendMsg, vars
  <1>16. Boxes!Send(t, letter)
    BY <1>13, <1>14, <1>15 DEF Boxes!Send
  <1> QED
    BY <1>3, <1>16 DEF Boxes!MailboxNext

\* get_msg takes the message at the front of the mailbox.
LEMMA GetRefines ==
    ASSUME RingInv, RingInv', GetMsg
    PROVE  Boxes!MailboxNext
  <1> USE DEF RingInv
  <1>1. PICK t \in Tids : t = current
    BY DEF SafeInv, TypeOK, GetMsg, Syscall, AtStage
  <1>2. PICK slots, n, e, fl : /\ slots = messages[t] /\ n = next_msg[t]
                                 /\ e = end_msgs[t] /\ fl = msgs_full[t]
    OBVIOUS
  <1>3. PICK n2, fl2 : n2 = next_msg'[t] /\ fl2 = msgs_full'[t]
    OBVIOUS
  <1>4. /\ slots \in [MsgSlots -> Message] /\ n \in MsgSlots /\ e \in MsgSlots
        /\ fl \in BOOLEAN /\ fl2 \in BOOLEAN /\ (fl => n = e)
    BY <1>2, <1>3 DEF RingTypeOK
  <1>5. /\ n # e \/ fl
        /\ n2 = inc_msg_pointer(n) /\ ~fl2
        /\ slots = messages'[t] /\ e = end_msgs'[t]
    BY <1>1, <1>2, <1>3 DEF GetMsg, HasMessage, RingTypeOK
  <1>6. /\ RingQueue(THREAD_MSG_QUEUE_SIZE, slots, n, e, fl) # <<>>
        /\ Head(RingQueue(THREAD_MSG_QUEUE_SIZE, slots, n, e, fl)) = slots[n]
        /\ RingQueue(THREAD_MSG_QUEUE_SIZE, slots, n2, e, fl2)
               = Tail(RingQueue(THREAD_MSG_QUEUE_SIZE, slots, n, e, fl))
    <2>1. IsRing(THREAD_MSG_QUEUE_SIZE, Message, slots, n, e, fl)
      BY <1>4, MessageRing DEF IsRing
    <2>2. n2 = Onward(THREAD_MSG_QUEUE_SIZE, n)
      BY <1>5, MessageRing
    <2> QED
      BY <1>4, <1>5, <2>1, <2>2, RingGet
  <1>7. Queue(t) = RingQueue(THREAD_MSG_QUEUE_SIZE, slots, n, e, fl)
    BY <1>2, QueueOf
  <1>8. Queue(t)' = RingQueue(THREAD_MSG_QUEUE_SIZE, slots, n2, e, fl2)
    BY <1>3, <1>5, QueueOfNext
  <1>9. ASSUME NEW u \in Tids, u # t PROVE Queue(u)' = Queue(u)
    BY <1>1, <1>9, QueueStays DEF GetMsg, RingTypeOK
  <1>10. PICK b, b2 : b = [u \in Tids |-> Queue(u)] /\ b2 = [u \in Tids |-> Queue(u)']
    OBVIOUS
  <1>11. b[t] # <<>> /\ Head(b[t]) = slots[n] /\ b2 = [b EXCEPT ![t] = Tail(@)]
    BY <1>6, <1>7, <1>8, <1>9, <1>10
  <1>12. delivered' = [by |-> t, letter |-> slots[n]]
    BY <1>1, <1>2 DEF GetMsg
  <1>13. state' = state
    BY DEF GetMsg, vars
  <1>14. Boxes!Receive(t)
    BY <1>10, <1>11, <1>12, <1>13 DEF Boxes!Receive
  <1> QED
    BY <1>14 DEF Boxes!MailboxNext

\* A thread that starts begins with an empty mailbox.
LEMMA StartRefines ==
    ASSUME BoxesInv, BoxesInv', NEW t \in Tids, StartIn(t), EmptyMessageBuffer(t),
           UNCHANGED delivered
    PROVE  Boxes!MailboxNext
  <1> USE DEF BoxesInv, RingInv
  <1>1. Queue(t)' = <<>>
    BY EmptyRing
  <1>2. ASSUME NEW u \in Tids, u # t PROVE Queue(u)' = Queue(u)
    BY <1>2, QueueStays DEF EmptyMessageBuffer, RingTypeOK
  <1>3. CASE t = 0 /\ Boot
    <2>1. Queue(t) = <<>>
      <3>1. QueueLength(t) = 0
        BY <1>3, QueueSizeAssumption DEF Boot, QueueLength, RingTypeOK, MsgSlots
      <3> QED
        BY <3>1 DEF Queue
    <2>2. [u \in Tids |-> Queue(u)'] = [u \in Tids |-> Queue(u)]
      BY <1>1, <1>2, <2>1
    <2>3. Boxes!Run
      BY <2>2 DEF Boxes!Run
    <2> QED
      BY <2>3 DEF Boxes!MailboxNext
  <1>4. CASE ~(t = 0 /\ Boot)
    <2>1. state' = [state EXCEPT ![t] = "init"]
      <3>1. CASE FirstFreeSlot(t) /\ \E remove \in RemoveSets : AddThread(remove)
        <4>1. PICK v \in Tids : FirstFreeSlot(v) /\ state' = [state EXCEPT ![v] = "init"]
          BY <3>1 DEF AddThread
        <4>2. v = t
          BY <3>1, <4>1 DEF FirstFreeSlot, Tids
        <4> QED
          BY <4>1, <4>2
      <3>2. CASE t = current /\ \E remove \in RemoveSets : Restart(remove)
        BY <3>2 DEF Restart
      <3> QED
        BY <1>4, <3>1, <3>2 DEF StartIn
    <2>2. PICK st, st2 : /\ st = [u \in Tids |-> state[u] = "init"]
                         /\ st2 = [u \in Tids |-> state'[u] = "init"]
      OBVIOUS
    <2>3. st2 = [st EXCEPT ![t] = TRUE]
      BY <2>1, <2>2 DEF SafeInv, TypeOK
    <2>4. PICK b, b2 : b = [u \in Tids |-> Queue(u)] /\ b2 = [u \in Tids |-> Queue(u)']
      OBVIOUS
    <2>5. b2 = [b EXCEPT ![t] = <<>>]
      BY <1>1, <1>2, <2>4
    <2>6. Boxes!Begin(t)
      BY <2>2, <2>3, <2>4, <2>5 DEF Boxes!Begin
    <2> QED
      BY <2>6 DEF Boxes!MailboxNext
  <1> QED
    BY <1>3, <1>4

\* The rings of messages, of any size and for any number of threads, are
\* bounded queues: each message is received once, whole, in the order sent.
THEOREM RingsAreMailboxes == MessagesSpec => ImplementsMailboxes
  <1>1. MessagesInit => Boxes!MailboxInit
    <2> SUFFICES ASSUME MessagesInit PROVE Boxes!MailboxInit
      OBVIOUS
    <2>1. ASSUME NEW t \in Tids PROVE Queue(t) = <<>>
      <3>1. QueueLength(t) = 0
        BY QueueSizeAssumption DEF MessagesInit, QueueLength
      <3> QED
        BY <3>1 DEF Queue
    <2>2. [t \in Tids |-> Queue(t)] = [t \in Tids |-> <<>>]
      BY <2>1
    <2>3. [t \in Tids |-> state[t] = "init"] = [t \in Tids |-> TRUE]
      BY DEF MessagesInit, Init
    <2> QED
      BY <2>2, <2>3 DEF Boxes!MailboxInit
  <1>2. BoxesInv /\ BoxesInv' /\ [MessagesNext]_messageVars
            => [Boxes!MailboxNext]_(Boxes!mailboxVars)
    <2> SUFFICES ASSUME BoxesInv, BoxesInv', [MessagesNext]_messageVars
                 PROVE  [Boxes!MailboxNext]_(Boxes!mailboxVars)
      OBVIOUS
    <2>1. CASE GetMsg
      BY <2>1, GetRefines DEF BoxesInv
    <2>2. ASSUME NEW t \in Tids, NEW c \in Contents, SendMsg(t, c)
          PROVE  Boxes!MailboxNext
      BY <2>2, SendRefines DEF BoxesInv
    <2>3. ASSUME NEW t \in Tids, StartIn(t), EmptyMessageBuffer(t), UNCHANGED delivered
          PROVE  Boxes!MailboxNext
      BY <2>3, StartRefines
    <2>4. CASE UNCHANGED <<ring, delivered>>
      <3>1. ASSUME NEW t \in Tids PROVE Queue(t)' = Queue(t)
        BY <2>4, QueueStays DEF ring, BoxesInv, RingInv
      <3>2. [t \in Tids |-> Queue(t)'] = [t \in Tids |-> Queue(t)]
        BY <3>1
      <3>3. Boxes!Run
        BY <2>4, <3>2 DEF Boxes!Run
      <3> QED
        BY <3>3 DEF Boxes!MailboxNext
    <2> QED
      BY <2>1, <2>2, <2>3, <2>4 DEF MessagesNext, messageVars
  <1>3. QED
    BY BoxesInit, BoxesStep, <1>1, <1>2, PTL DEF MessagesSpec, ImplementsMailboxes,
                                                 Boxes!MailboxSpec

----------------------------------------------------------------------------
(* The mutex.                                                              *)

\* Why nobody else gets the mutex: a thread that has locked and not unlocked
\* it is named in it, even when the thread is dead.  MutualExclusion alone is
\* not inductive, as it allows a holder that the mutex does not name.
HoldersAreNamed ==
    \A t \in Tids : holds[t] => mutex = t /\ "mutex" \in ready

HoldInv == holds \in [Tids -> BOOLEAN] /\ HoldersAreNamed

\* Nobody holds the mutex at first.
LEMMA HoldInit == SyncInit => HoldInv
  BY DEF SyncInit, HoldInv, HoldersAreNamed

\* Nobody has the mutex before it is initialised, and a lock finds it free.
LEMMA MutexStep ==
    ASSUME HoldInv, k_mutex PROVE HoldInv'
  <1> USE DEF HoldInv, HoldersAreNamed
  <1>0. INVALID_THREAD \notin Tids
    BY DEF Tids, INVALID_THREAD
  <1>1. CASE InitMutex
    BY <1>1 DEF InitMutex
  <1>2. CASE LockMutex
    BY <1>0, <1>2 DEF LockMutex, Use
  <1>3. CASE UnlockMutex
    BY <1>3 DEF UnlockMutex
  <1>4. QED
    BY <1>1, <1>2, <1>3 DEF k_mutex

\* Every step keeps the holder the one the mutex names.
LEMMA HoldStep == HoldInv /\ [SyncNext]_syncVars => HoldInv'
  <1> SUFFICES ASSUME HoldInv, [SyncNext]_syncVars PROVE HoldInv'
    OBVIOUS
  <1> USE DEF HoldInv, HoldersAreNamed
  <1>1. CASE k_mutex
    BY <1>1, MutexStep
  <1>2. CASE k_condition_variable
    BY <1>2 DEF k_condition_variable, InitConditionVariable, Signal, Broadcast, Wait
  <1>3. CASE /\ \E t \in Tids : NewThread(t)
             /\ UNCHANGED <<mutex, condition, ready>>
    BY <1>3 DEF NewThread
  <1>4. CASE UNCHANGED <<mutex, ready, holds>>
    BY <1>4
  <1>5. QED
    BY <1>1, <1>2, <1>3, <1>4 DEF SyncNext, syncVars

\* Two live threads never both have the mutex.
THEOREM MutexExcludes == SyncSpec => []MutualExclusion
  <1>1. HoldInv => MutualExclusion
    BY DEF HoldInv, HoldersAreNamed, MutualExclusion
  <1>2. QED
    BY HoldInit, HoldStep, <1>1, PTL DEF SyncSpec

----------------------------------------------------------------------------
(* The types of the objects that the programs share.                       *)

SyncInv == SafeInv /\ SyncTypeOK

\* What happens to the threads is a step of the table, but for a wait and the
\* wakes of a condition variable.
LEMMA SyncThreadsStep ==
    ASSUME [SyncNext]_syncVars
    PROVE  [Next]_vars \/ Signal \/ Broadcast \/ Wait
  BY DEF SyncNext, syncVars, k_mutex, k_condition_variable, InitMutex, LockMutex, UnlockMutex,
         InitConditionVariable, NewThread, Next, UserStep, ThreadEnd

\* A wake leaves a thread schedulable, and never touches the current one's life.
LEMMA WakesAreSafe ==
    ASSUME SafeInv, SyncTypeOK, Signal \/ Broadcast PROVE SafeInv'
  <1>1. current \in Tids /\ kernel = "up"
    BY DEF Signal, Broadcast, Syscall, AtStage, SafeInv, TypeOK
  <1>2. /\ state' \in [Tids -> ThreadStates]
        /\ \A t \in Tids : state'[t] = state[t] \/ state'[t] = "suspended"
    <2>1. CASE Signal
      <3>1. PICK t : state' = IF is_valid_thread(t) THEN [state EXCEPT ![t] = "suspended"]
                                              ELSE state
        BY <2>1 DEF Signal
      <3> QED
        BY <3>1 DEF SafeInv, TypeOK, ThreadStates
    <2>2. CASE Broadcast
      BY <2>2 DEF Broadcast, SafeInv, TypeOK, ThreadStates
    <2> QED
      BY <2>1, <2>2
  <1>3. UNCHANGED <<id, parent, child, permissions, stage, current, timer,
                    destroy_on_stack_err, kernel>>
    BY DEF Signal, Broadcast, family, config
  <1>4. TypeOK'
    BY <1>2, <1>3 DEF SafeInv, TypeOK
  <1>5. OnlyCurrentRuns'
    BY <1>2, <1>3 DEF SafeInv, OnlyCurrentRuns
  <1>6. CurrentIsLive'
    BY <1>1, <1>2, <1>3 DEF SafeInv, CurrentIsLive
  <1> QED
    BY <1>4, <1>5, <1>6 DEF SafeInv

\* A thread that waits gives the processor to one that the table has.
LEMMA WaitIsSafe ==
    ASSUME SafeInv, Wait PROVE SafeInv'
  <1>1. current \in Tids
    BY DEF Wait, Syscall, AtStage, SafeInv, TypeOK
  <1>2. PICK st : st = [state EXCEPT ![current] = "waiting"]
    OBVIOUS
  <1>3. st \in [Tids -> ThreadStates] /\ \A t \in Tids : st[t] = "running" => t = current
    BY <1>1, <1>2 DEF SafeInv, TypeOK, OnlyCurrentRuns, ThreadStates
  <1>4. /\ id' = id /\ parent' = parent /\ child' = child /\ permissions' = permissions
        /\ stage' = stage /\ timer' = timer /\ destroy_on_stack_err' = destroy_on_stack_err
        /\ do_scheduler(id', st, NULL)
    BY <1>2 DEF Wait, family, config
  <1> QED
    BY <1>3, <1>4, ScheduledIsSafe DEF SafeInv, TypeOK

\* Before they are initialised the objects hold anything that fits in them.
LEMMA SyncInvInit == SyncInit => SyncInv
  <1> SUFFICES ASSUME SyncInit PROVE SyncTypeOK
    BY SafeInit DEF SyncInv, SyncInit
  <1> QED
    BY DEF SyncInit, SyncTypeOK, Ids

\* The ring's positions wrap inside it, and it only ever has the IDs of threads.
LEMMA SyncInvStep == SyncInv /\ [SyncNext]_syncVars => SyncInv'
  <1> SUFFICES ASSUME SyncInv, [SyncNext]_syncVars PROVE SyncInv'
    OBVIOUS
  <1>1. SafeInv'
    BY SyncThreadsStep, SafeStep, WakesAreSafe, WaitIsSafe DEF SyncInv
  <1>2. kernel = "up" => current \in Tids
    BY DEF SyncInv, SafeInv, TypeOK
  <1>3. 0 \in Tids /\ \A i \in Tids : After(i) \in Tids
    BY MaxThreadsAssumption DEF Tids, After
  <1>4. SyncTypeOK'
    <2> USE DEF SyncInv, SyncTypeOK
    <2>1. CASE k_mutex
      BY <2>1, <1>2 DEF k_mutex, InitMutex, LockMutex, UnlockMutex, Syscall, AtStage, Ids,
            condition
    <2>2. CASE InitConditionVariable
      BY <2>2, <1>3 DEF InitConditionVariable
    <2>3. CASE Signal \/ Broadcast
      BY <2>3, <1>3 DEF Signal, Broadcast
    <2>4. CASE Wait
      BY <2>4, <1>2, <1>3 DEF Wait, Syscall, AtStage, Ids
    <2>5. CASE UNCHANGED <<mutex, condition, ready>> /\ UNCHANGED holds
      BY <2>5 DEF condition
    <2>6. ASSUME NEW t \in Tids, NewThread(t), UNCHANGED <<mutex, condition, ready>>
          PROVE  SyncTypeOK'
      BY <2>6 DEF NewThread, condition
    <2> QED
      BY <2>1, <2>2, <2>3, <2>4, <2>5, <2>6
         DEF SyncNext, k_condition_variable, syncVars
  <1> QED
    BY <1>1, <1>4 DEF SyncInv

\* The shared objects keep their types, whatever is in them at first: the ring
\* is never indexed past its end.
THEOREM SharedObjectsAreTyped == SyncSpec => []SyncTypeOK
  <1>1. SyncInv => SyncTypeOK
    BY DEF SyncInv
  <1> QED
    BY SyncInvInit, SyncInvStep, <1>1, PTL DEF SyncSpec

----------------------------------------------------------------------------
(* The ring of a condition variable implements a queue.                    *)

\* The threads that wait, those that the queue has to have.
Blocked == {t \in Tids : is_valid_thread(t) /\ state[t] = "waiting"}

\* Queue q has each thread of B once and nothing else.
Describes(q, B) ==
    /\ B \subseteq Tids
    /\ \A i \in 1 .. Len(q) : q[i] \in B
    /\ \A i, j \in 1 .. Len(q) : q[i] = q[j] => i = j
    /\ \A t \in B : \E i \in 1 .. Len(q) : q[i] = t

\* The inductive invariant: the ring has exactly the threads that wait, so that
\* it has room for the current thread, which does not ask whether it has.
QueueInv ==
    /\ SyncInv
    /\ BootInv
    /\ "cv" \notin ready => Blocked = {}
    /\ "cv" \in ready => (full => first = last) /\ Describes(Ring, Blocked)

\* A thread that waits is new in the queue and goes to its end.
LEMMA AppendDescribes ==
    ASSUME NEW S, NEW q \in Seq(S), NEW B, Describes(q, B), NEW t \in S, t \in Tids, t \notin B
    PROVE  Describes(Append(q, t), B \cup {t})
  <1>1. PICK p, L, C : p = Append(q, t) /\ L = Len(q) /\ C = B \cup {t}
    OBVIOUS
  <1>2. /\ L \in Nat /\ Len(p) = L + 1
        /\ \A i \in 1 .. L : p[i] = q[i]
        /\ p[L + 1] = t
    BY <1>1, AppendProperties
  <1>3. ASSUME NEW i \in 1 .. L + 1 PROVE i \in 1 .. L \/ i = L + 1
    BY <1>2
  <1>4. 1 .. L \subseteq 1 .. L + 1 /\ L + 1 \in 1 .. L + 1
    BY <1>2
  <1>5. \A i \in 1 .. L : q[i] \in B
    BY <1>1 DEF Describes
  <1>6. \A i \in 1 .. L + 1 : p[i] \in C
    BY <1>1, <1>2, <1>3, <1>5
  <1>7. ASSUME NEW i \in 1 .. L + 1, NEW j \in 1 .. L + 1, p[i] = p[j] PROVE i = j
    <2>1. CASE i \in 1 .. L /\ j \in 1 .. L
      BY <1>1, <1>2, <1>7, <2>1 DEF Describes
    <2>2. CASE i = L + 1 /\ j = L + 1
      BY <2>2
    <2>3. CASE i \in 1 .. L /\ j = L + 1
      BY <1>2, <1>5, <1>7, <2>3
    <2>4. CASE i = L + 1 /\ j \in 1 .. L
      BY <1>2, <1>5, <1>7, <2>4
    <2> QED
      BY <1>3, <2>1, <2>2, <2>3, <2>4
  <1>8. ASSUME NEW u \in C PROVE \E i \in 1 .. L + 1 : p[i] = u
    <2>1. CASE u = t
      BY <1>2, <1>4, <2>1
    <2>2. CASE u \in B
      <3>1. PICK i \in 1 .. L : q[i] = u
        BY <1>1, <2>2 DEF Describes
      <3> QED
        BY <1>2, <1>4, <3>1
    <2> QED
      BY <1>1, <2>1, <2>2
  <1>9. C \subseteq Tids
    BY <1>1 DEF Describes
  <1> QED
    BY <1>1, <1>2, <1>6, <1>7, <1>8, <1>9 DEF Describes

\* The first of the queue leaves it, and the threads that wait.
LEMMA TailDescribes ==
    ASSUME NEW S, NEW q \in Seq(S), NEW B, Describes(q, B), q # <<>>
    PROVE  Head(q) \in B /\ Describes(Tail(q), B \ {Head(q)})
  <1>1. PICK p, L, h, C : p = Tail(q) /\ L = Len(q) /\ h = Head(q) /\ C = B \ {Head(q)}
    OBVIOUS
  <1>2. /\ L \in Nat /\ L > 0 /\ h = q[1]
        /\ Len(p) = L - 1 /\ \A i \in 1 .. L - 1 : p[i] = q[i + 1]
    BY <1>1, HeadTailProperties, EmptySeq
  <1>3. /\ B \subseteq Tids
        /\ \A i \in 1 .. L : q[i] \in B
        /\ \A i, j \in 1 .. L : q[i] = q[j] => i = j
        /\ \A t \in B : \E i \in 1 .. L : q[i] = t
    BY <1>1 DEF Describes
  <1>4. 1 \in 1 .. L /\ \A i \in 1 .. L - 1 : i + 1 \in 1 .. L /\ i + 1 # 1
    BY <1>2
  <1>5. h \in B
    BY <1>2, <1>3, <1>4
  <1>6. \A i \in 1 .. L - 1 : p[i] \in C
    BY <1>1, <1>2, <1>3, <1>4
  <1>7. ASSUME NEW i \in 1 .. L - 1, NEW j \in 1 .. L - 1, p[i] = p[j] PROVE i = j
    <2>1. i + 1 = j + 1
      BY <1>2, <1>3, <1>4, <1>7
    <2> QED
      BY <2>1
  <1>8. ASSUME NEW u \in C PROVE \E i \in 1 .. L - 1 : p[i] = u
    <2>1. PICK j \in 1 .. L : q[j] = u
      BY <1>1, <1>3
    <2>2. j # 1
      BY <1>1, <1>2, <2>1
    <2>3. PICK i \in 1 .. L - 1 : i + 1 = j
      <3>1. j - 1 \in 1 .. L - 1 /\ (j - 1) + 1 = j
        BY <1>2, <2>2
      <3> QED
        BY <3>1
    <2> QED
      BY <1>2, <2>1, <2>3
  <1>9. C \subseteq Tids
    BY <1>1, <1>3
  <1>10. Describes(p, C)
    BY <1>2, <1>6, <1>7, <1>8, <1>9 DEF Describes
  <1> QED
    BY <1>1, <1>5, <1>10

\* A queue of threads that misses one is shorter than the table.
LEMMA MissesOne ==
    ASSUME NEW q, Len(q) = MAX_THREADS, NEW B, Describes(q, B), NEW t \in Tids, t \notin B
    PROVE  FALSE
  <1>1. PICK N \in Nat \ {0} : N = MAX_THREADS
    BY MaxThreadsAssumption
  <1>2. IsFiniteSet(Tids) /\ Cardinality(Tids) = N
    <2>1. /\ IsFiniteSet(0 .. N - 1)
          /\ Cardinality(0 .. N - 1) = IF 0 > N - 1 THEN 0 ELSE N - 1 - 0 + 1
      BY FS_Interval
    <2>2. Tids = 0 .. N - 1
      BY <1>1 DEF Tids
    <2>3. (IF 0 > N - 1 THEN 0 ELSE N - 1 - 0 + 1) = N
      OBVIOUS
    <2> QED
      BY <2>1, <2>2, <2>3
  <1>3. IsFiniteSet(1 .. N) /\ Cardinality(1 .. N) = N
    <2>1. IsFiniteSet(1 .. N) /\ Cardinality(1 .. N) = IF 1 > N THEN 0 ELSE N - 1 + 1
      BY FS_Interval
    <2>2. (IF 1 > N THEN 0 ELSE N - 1 + 1) = N
      OBVIOUS
    <2> QED
      BY <2>1, <2>2
  <1>4. IsFiniteSet(Tids \ {t}) /\ Cardinality(Tids \ {t}) = N - 1
    BY <1>2, FS_RemoveElement
  <1>5. PICK f : f = [i \in 1 .. N |-> q[i]]
    OBVIOUS
  <1>6. f \in [1 .. N -> Tids \ {t}]
    BY <1>1, <1>5 DEF Describes
  <1>7. Cardinality(Tids \ {t}) < Cardinality(1 .. N)
    BY <1>3, <1>4
  <1>8. PICK x, y \in 1 .. N : x # y /\ f[x] = f[y]
    BY <1>3, <1>4, <1>6, <1>7, FS_PigeonHole
  <1> QED
    BY <1>1, <1>5, <1>8 DEF Describes

\* What the lemmas about rings are used with.
LEMMA WaitingRing ==
    /\ MAX_THREADS \in Nat \ {0} /\ Tids = Slots(MAX_THREADS)
    /\ \A i \in Tids : After(i) = Onward(MAX_THREADS, i)
  <1>1. PICK N \in Nat \ {0} : N = MAX_THREADS
    BY MaxThreadsAssumption
  <1>2. Tids = Slots(N)
    BY <1>1 DEF Tids, Slots
  <1>3. ASSUME NEW i \in Slots(N) PROVE (i + 1) % N = IF i + 1 = N THEN 0 ELSE i + 1
    <2>1. PICK x \in Int : x = i + 1
      BY DEF Slots
    <2>2. -N <= x /\ x < 2 * N /\ ~(x < 0) /\ x <= N
      BY <2>1 DEF Slots
    <2>3. x % N = IF x < N THEN x ELSE x - N
      BY <2>2, Wrap
    <2> QED
      BY <2>1, <2>2, <2>3
  <1> QED
    BY <1>1, <1>2, <1>3 DEF After, Onward

\* The queue in the ring, ...
LEMMA RingIs ==
    ASSUME SyncTypeOK PROVE Ring = RingQueue(MAX_THREADS, waiting, first, last, full)
  <1>1. PICK L : L = RingLength
    OBVIOUS
  <1>2. L = IF full THEN MAX_THREADS ELSE (last - first) % MAX_THREADS
    BY <1>1 DEF RingLength
  <1>3. /\ L = Filled(MAX_THREADS, first, last, full)
        /\ \A i \in 1 .. L : (first + i - 1) % MAX_THREADS = Place(MAX_THREADS, first, i)
    BY <1>2, WaitingRing, QueueIs DEF SyncTypeOK
  <1>4. Ring = [i \in 1 .. L |-> waiting[(first + i - 1) % MAX_THREADS]]
    BY <1>1 DEF Ring
  <1> QED
    BY <1>3, <1>4 DEF RingQueue

\* ... and after a step.
LEMMA RingIsNext ==
    ASSUME SyncTypeOK'
    PROVE  Ring' = RingQueue(MAX_THREADS, waiting', first', last', full')
  <1>1. PICK L : L = RingLength'
    OBVIOUS
  <1>2. L = IF full' THEN MAX_THREADS ELSE (last' - first') % MAX_THREADS
    BY <1>1 DEF RingLength
  <1>3. /\ L = Filled(MAX_THREADS, first', last', full')
        /\ \A i \in 1 .. L : (first' + i - 1) % MAX_THREADS = Place(MAX_THREADS, first', i)
    BY <1>2, WaitingRing, QueueIs DEF SyncTypeOK
  <1>4. Ring' = [i \in 1 .. L |-> waiting'[(first' + i - 1) % MAX_THREADS]]
    BY <1>1 DEF Ring
  <1> QED
    BY <1>3, <1>4 DEF RingQueue

\* The scheduler only picks a thread that does not wait, and makes none wait.
LEMMA SchedulerKeepsWaiting ==
    ASSUME NEW ids, NEW st, do_scheduler(ids, st, NULL), NEW t \in Tids
    PROVE  state'[t] = "waiting" <=> st[t] = "waiting"
  BY DEF do_scheduler, SwitchTo, choose_next_thread, can_schedule_thread

\* A thread that has the processor does not wait, and has its slot.
LEMMA CurrentDoesNotWait ==
    ASSUME SyncInv, kernel = "up"
    PROVE  /\ current \in Tids /\ id[current] # INVALID_THREAD
           /\ state[current] # "waiting" /\ current \notin Blocked
  <1>1. current \in Tids /\ id[current] = current /\ state[current] # "waiting"
    BY DEF SyncInv, SafeInv, TypeOK, CurrentIsLive
  <1> QED
    BY <1>1 DEF Blocked, Tids, INVALID_THREAD

\* Whether thread t waits depends on its slot alone.
Waits(ids, st, t) == ids[t] # INVALID_THREAD /\ st[t] = "waiting"

\* A step that makes nobody wait or wake leaves the threads that wait.
LEMMA BlockedIs ==
    /\ Blocked = {t \in Tids : Waits(id, state, t)}
    /\ Blocked' = {t \in Tids : Waits(id', state', t)}
  BY DEF Blocked, Waits, is_valid_thread

\* Nothing else that the programs do changes which threads wait: neither the
\* scheduler, nor a thread that ends, nor one that starts.
LEMMA BlockedStays ==
    ASSUME SyncInv, BootInv,
           \/ k_mutex \/ InitConditionVariable \/ (\E t \in Tids : NewThread(t))
           \/ Boot \/ YieldAny \/ Tick \/ StackError \/ ThreadEnd \/ Halted
           \/ \E armed \in BOOLEAN : SetTimer(armed)
    PROVE  Blocked' = Blocked
  <1> SUFFICES ASSUME NEW t \in Tids PROVE Waits(id', state', t) <=> Waits(id, state, t)
    BY BlockedIs
  <1> USE DEF SyncInv, SafeInv, TypeOK
  <1>1. CASE k_mutex \/ InitConditionVariable
    BY <1>1 DEF k_mutex, InitMutex, LockMutex, UnlockMutex, InitConditionVariable, vars, Waits
  <1>2. ASSUME NEW u \in Tids, NewThread(u)
        PROVE  Waits(id', state', t) <=> Waits(id, state, t)
    <2>1. PICK v \in Tids : /\ FirstFreeSlot(v) /\ id' = [id EXCEPT ![v] = v]
                            /\ state' = [state EXCEPT ![v] = "init"]
      BY <1>2 DEF NewThread, AddThread, init_thread
    <2> QED
      BY <2>1 DEF FirstFreeSlot, SlotIsFree, Waits
  <1>3. CASE Boot
    <2>1. PICK st : st = [state EXCEPT ![0] = "init"] /\ do_scheduler(id', st, NULL)
      BY <1>3 DEF Boot
    <2>2. state'[t] = "waiting" <=> st[t] = "waiting"
      BY <2>1, SchedulerKeepsWaiting
    <2>3. id[t] = INVALID_THREAD /\ (t # 0 => id'[t] = id[t])
      BY <1>3 DEF Boot, BootInv, init_thread
    <2> QED
      BY <2>1, <2>2, <2>3 DEF Waits
  <1>4. CASE YieldAny \/ Tick \/ YieldAsm
    BY <1>4, SchedulerKeepsWaiting DEF YieldAny, Tick, YieldAsm, Waits
  <1>5. CASE StackError
    <2>1. /\ id' = [id EXCEPT ![current] = INVALID_THREAD]
          /\ do_scheduler(id', state, NULL) \/ state' = state
          /\ kernel = "up"
      BY <1>5 DEF StackError, Syscall, AtStage
    <2>2. state'[t] = "waiting" <=> state[t] = "waiting"
      BY <2>1, SchedulerKeepsWaiting
    <2>3. state[current] # "waiting"
      BY <2>1, CurrentDoesNotWait
    <2> QED
      BY <2>1, <2>2, <2>3 DEF Waits
  <1>6. CASE SetFinished
    <2>1. state[current] # "waiting" /\ state' = [state EXCEPT ![current] = "finished"] /\ id' = id
      BY <1>6, CurrentDoesNotWait DEF SetFinished, AtStage
    <2> QED
      BY <2>1 DEF Waits
  <1>7. CASE \/ CleanupThread \/ Unreachable \/ Halted
             \/ \E armed \in BOOLEAN : SetTimer(armed)
    BY <1>7 DEF CleanupThread, Unreachable, Halted, SetTimer, vars, Waits
  <1> QED
    BY <1>1, <1>2, <1>3, <1>4, <1>5, <1>6, <1>7 DEF ThreadEnd

\* What wait does with the processor: the current thread is one more to wait.
LEMMA WaitBlocks ==
    ASSUME SyncInv, Wait
    PROVE  current \in Tids /\ current \notin Blocked /\ Blocked' = Blocked \cup {current}
  <1>1. current \in Tids /\ id[current] # INVALID_THREAD /\ current \notin Blocked
    BY CurrentDoesNotWait DEF Wait, Syscall, AtStage
  <1>2. PICK st : st = [state EXCEPT ![current] = "waiting"] /\ do_scheduler(id, st, NULL)
    BY DEF Wait
  <1>3. id' = id
    BY DEF Wait
  <1>4. ASSUME NEW t \in Tids PROVE Waits(id', state', t) <=> Waits(id, state, t) \/ t = current
    <2>1. state'[t] = "waiting" <=> st[t] = "waiting"
      BY <1>2, SchedulerKeepsWaiting
    <2> QED
      BY <1>1, <1>2, <1>3, <2>1 DEF Waits, SyncInv, SafeInv, TypeOK
  <1> QED
    BY <1>1, <1>4, BlockedIs

\* The ring before and after a step, as the lemmas about rings have it.
LEMMA RingShape ==
    ASSUME QueueInv, SyncInv', "cv" \in ready
    PROVE  /\ IsRing(MAX_THREADS, Ids, waiting, first, last, full)
           /\ Ring = RingQueue(MAX_THREADS, waiting, first, last, full)
           /\ Ring \in Seq(Ids)
           /\ Describes(Ring, Blocked)
           /\ Ring' = RingQueue(MAX_THREADS, waiting', first', last', full')
  <1>1. IsRing(MAX_THREADS, Ids, waiting, first, last, full)
    BY WaitingRing DEF QueueInv, SyncInv, SyncTypeOK, IsRing
  <1>2. Ring = RingQueue(MAX_THREADS, waiting, first, last, full)
    BY RingIs DEF QueueInv, SyncInv
  <1>3. Ring \in Seq(Ids)
    BY <1>1, <1>2, RingQueueIs
  <1>4. Ring' = RingQueue(MAX_THREADS, waiting', first', last', full')
    BY RingIsNext DEF SyncInv
  <1> QED
    BY <1>1, <1>2, <1>3, <1>4 DEF QueueInv

\* The thread that waits stands at the end of the queue: there is room, as it
\* is not in the ring itself.
LEMMA WaitAppends ==
    ASSUME QueueInv, SyncInv', Wait
    PROVE  /\ Ring' = Append(Ring, current)
           /\ full' => first' = last'
           /\ Describes(Ring', Blocked')
  <1>1. "cv" \in ready
    BY DEF Wait, Use
  <1>2. /\ IsRing(MAX_THREADS, Ids, waiting, first, last, full)
        /\ Ring = RingQueue(MAX_THREADS, waiting, first, last, full)
        /\ Ring \in Seq(Ids)
        /\ Describes(Ring, Blocked)
        /\ Ring' = RingQueue(MAX_THREADS, waiting', first', last', full')
    BY <1>1, RingShape
  <1>3. current \in Tids /\ current \notin Blocked /\ Blocked' = Blocked \cup {current}
    BY WaitBlocks DEF QueueInv
  <1>4. PICK w, n, e, fl, w2, e2, fl2 :
            /\ w = waiting /\ n = first /\ e = last /\ fl = full
            /\ w2 = waiting' /\ e2 = last' /\ fl2 = full'
    OBVIOUS
  <1>5. /\ w \in [Tids -> Ids] /\ w2 \in [Tids -> Ids] /\ n \in Tids /\ e \in Tids /\ e2 \in Tids
        /\ fl \in BOOLEAN /\ fl2 \in BOOLEAN
    BY <1>4 DEF QueueInv, SyncInv, SyncTypeOK
  <1>6. /\ first' = n /\ e2 = Onward(MAX_THREADS, e) /\ (fl2 <=> n = e2)
        /\ w2 = [w EXCEPT ![e] = current]
    BY <1>4, <1>5, WaitingRing DEF Wait
  <1>7. ~fl
    <2>1. SUFFICES ASSUME fl PROVE FALSE
      BY <1>5
    <2>2. Filled(MAX_THREADS, first, last, full) = MAX_THREADS
      BY <1>4, <2>1 DEF Filled
    <2>3. Len(Ring) = MAX_THREADS
      BY <1>2, <2>2, RingQueueIs
    <2> QED
      BY <1>2, <1>3, <2>3, MissesOne
  <1>8. PICK L : L = Filled(MAX_THREADS, n, e, fl)
    OBVIOUS
  <1>9. Extends(MAX_THREADS, n, e, e2, fl, fl2, L)
    <2>1. PICK N : N = MAX_THREADS /\ N \in Nat \ {0}
      BY WaitingRing
    <2>2. n \in Slots(N) /\ e \in Slots(N) /\ L = Filled(N, n, e, fl) /\ e2 = Onward(N, e)
      BY <1>5, <1>6, <1>8, <2>1, WaitingRing
    <2>3. Extends(N, n, e, e2, fl, fl2, L)
      BY <1>5, <1>6, <1>7, <2>1, <2>2, EndAdvances
    <2> QED
      BY <2>1, <2>3
  <1>10. Writes(MAX_THREADS, w, w2, e, current)
    BY <1>5, <1>6, WaitingRing DEF Writes
  <1>11. IsRing(MAX_THREADS, Ids, w, n, e, fl) /\ IsRing(MAX_THREADS, Ids, w2, n, e2, fl2)
    BY <1>2, <1>4, <1>5, <1>6, WaitingRing DEF IsRing
  <1>12. current \in Ids
    BY <1>3 DEF Ids
  <1>13. RingQueue(MAX_THREADS, w2, n, e2, fl2)
             = Append(RingQueue(MAX_THREADS, w, n, e, fl), current)
    BY <1>9, <1>10, <1>11, <1>12, RingSend
  <1>14. Ring' = Append(Ring, current)
    BY <1>2, <1>4, <1>6, <1>13
  <1>15. Describes(Append(Ring, current), Blocked \cup {current})
    BY <1>2, <1>3, <1>12, AppendDescribes
  <1> QED
    BY <1>3, <1>4, <1>6, <1>14, <1>15

\* Signal wakes the first of the queue, which leaves it.
LEMMA SignalTakesFirst ==
    ASSUME QueueInv, SyncInv', Signal
    PROVE  /\ Ring # <<>> /\ Ring' = Tail(Ring) /\ Blocked' = Blocked \ {Head(Ring)}
           /\ full' => first' = last'
           /\ Describes(Ring', Blocked')
  <1>1. "cv" \in ready
    BY DEF Signal, Use
  <1>2. /\ IsRing(MAX_THREADS, Ids, waiting, first, last, full)
        /\ Ring = RingQueue(MAX_THREADS, waiting, first, last, full)
        /\ Ring \in Seq(Ids)
        /\ Describes(Ring, Blocked)
        /\ Ring' = RingQueue(MAX_THREADS, waiting', first', last', full')
    BY <1>1, RingShape
  <1>3. first # last \/ full
    BY DEF Signal, Empty
  <1>4. /\ first \in Tids /\ waiting' = waiting /\ last' = last
        /\ first' = Onward(MAX_THREADS, first) /\ full' \in BOOLEAN /\ ~full'
    BY WaitingRing DEF Signal, condition, QueueInv, SyncInv, SyncTypeOK
  <1>5. PICK n2, fl2 : n2 = first' /\ fl2 = full'
    OBVIOUS
  <1>6. /\ RingQueue(MAX_THREADS, waiting, first, last, full) # <<>>
        /\ Head(RingQueue(MAX_THREADS, waiting, first, last, full)) = waiting[first]
        /\ RingQueue(MAX_THREADS, waiting, n2, last, fl2)
               = Tail(RingQueue(MAX_THREADS, waiting, first, last, full))
    <2>1. n2 = Onward(MAX_THREADS, first) /\ fl2 \in BOOLEAN /\ ~fl2
      BY <1>4, <1>5
    <2> QED
      BY <1>2, <1>3, <2>1, RingGet
  <1>7. Ring # <<>> /\ Ring' = Tail(Ring) /\ Head(Ring) = waiting[first]
    BY <1>2, <1>4, <1>5, <1>6
  <1>8. Head(Ring) \in Blocked /\ Describes(Tail(Ring), Blocked \ {Head(Ring)})
    BY <1>2, <1>7, TailDescribes
  <1>9. PICK h : h = waiting[first]
    OBVIOUS
  <1>10. h \in Tids /\ is_valid_thread(h)
    BY <1>7, <1>8, <1>9 DEF Blocked
  <1>11. id' = id /\ state' = [state EXCEPT ![h] = "suspended"]
    BY <1>9, <1>10 DEF Signal
  <1>12. ASSUME NEW t \in Tids
         PROVE  Waits(id', state', t) <=> Waits(id, state, t) /\ t # h
    BY <1>10, <1>11 DEF Waits, QueueInv, SyncInv, SafeInv, TypeOK
  <1>13. Blocked' = Blocked \ {h}
    BY <1>12, BlockedIs
  <1> QED
    BY <1>4, <1>7, <1>8, <1>9, <1>13

\* The slots of the ring that broadcast reads are those of the queue.
LEMMA PlacesAreUsed ==
    ASSUME SyncTypeOK, full => first = last, NEW i \in 1 .. Filled(MAX_THREADS, first, last, full)
    PROVE  Place(MAX_THREADS, first, i) \in Used
  <1>1. PICK N, L, n, e, k : /\ N = MAX_THREADS /\ n = first /\ e = last
                             /\ L = Filled(N, n, e, full) /\ k = Place(N, n, i)
    OBVIOUS
  <1>2. /\ N \in Nat \ {0} /\ n \in Slots(N) /\ e \in Slots(N) /\ full \in BOOLEAN
    BY <1>1, WaitingRing DEF SyncTypeOK
  <1>3. L \in 0 .. N
    BY <1>1, <1>2, FilledIs
  <1>4. i \in 1 .. N /\ i <= L
    BY <1>1, <1>2, <1>3
  <1>5. k \in Slots(N)
    BY <1>1, <1>2, <1>4, PlaceStays
  <1>6. Filled(N, n, k, FALSE) = i - 1
    BY <1>1, <1>2, <1>4, <1>5 DEF Filled, Place, Slots
  <1>7. (k - n) % N = i - 1
    BY <1>2, <1>5, <1>6, FilledIs
  <1>8. ~full => (e - n) % N = L
    BY <1>1, <1>2, FilledIs
  <1>9. i - 1 < L
    BY <1>3, <1>4
  <1>10. k \in Tids
    BY <1>1, <1>5, WaitingRing
  <1>11. full \/ (k - n) % N < (e - n) % N
    BY <1>7, <1>8, <1>9
  <1> QED
    BY <1>1, <1>10, <1>11 DEF Used

\* Broadcast wakes the whole queue.
LEMMA BroadcastTakesAll ==
    ASSUME QueueInv, SyncInv', Broadcast
    PROVE  /\ Ring' = <<>> /\ Blocked' = {}
           /\ full' => first' = last'
           /\ Describes(Ring', Blocked')
  <1>1. "cv" \in ready
    BY DEF Broadcast, Use
  <1>2. /\ IsRing(MAX_THREADS, Ids, waiting, first, last, full)
        /\ Ring = RingQueue(MAX_THREADS, waiting, first, last, full)
        /\ Describes(Ring, Blocked)
        /\ Ring' = RingQueue(MAX_THREADS, waiting', first', last', full')
    BY <1>1, RingShape
  <1>3. PICK L : L = Filled(MAX_THREADS, first, last, full)
    OBVIOUS
  <1>4. Len(Ring) = L /\ \A i \in 1 .. L : Ring[i] = waiting[Place(MAX_THREADS, first, i)]
    BY <1>2, <1>3, RingQueueIs
  <1>5. ASSUME NEW t \in Blocked PROVE \E i \in Used : waiting[i] = t
    <2>1. PICK i \in 1 .. L : waiting[Place(MAX_THREADS, first, i)] = t
      BY <1>2, <1>4 DEF Describes
    <2>2. Place(MAX_THREADS, first, i) \in Used
      BY <1>1, <1>3, PlacesAreUsed DEF QueueInv, SyncInv
    <2> QED
      BY <2>1, <2>2
  <1>6. ASSUME NEW t \in Tids PROVE ~Waits(id', state', t)
    <2>1. id' = id /\ state'[t] = IF \E i \in Used : waiting[i] = t /\ is_valid_thread(t)
                                  THEN "suspended" ELSE state[t]
      BY DEF Broadcast
    <2>2. CASE t \in Blocked
      <3>1. is_valid_thread(t) /\ \E i \in Used : waiting[i] = t
        BY <1>5, <2>2 DEF Blocked
      <3> QED
        BY <2>1, <3>1 DEF Waits
    <2>3. CASE t \notin Blocked
      BY <2>1, <2>3, BlockedIs DEF Waits
    <2> QED
      BY <2>2, <2>3
  <1>7. Blocked' = {}
    BY <1>6, BlockedIs
  <1>8. first' = last' /\ ~full' /\ first' \in Tids
    BY DEF Broadcast, SyncInv, SyncTypeOK
  <1>9. PICK n, fl : n = first' /\ fl = full'
    OBVIOUS
  <1>10. Filled(MAX_THREADS, n, n, fl) = 0
    <2>1. n \in Int /\ ~fl
      BY <1>8, <1>9, MaxThreadsAssumption DEF Tids
    <2>2. n <= n /\ n - n = 0
      BY <2>1
    <2> QED
      BY <2>1, <2>2 DEF Filled
  <1>11. Ring' = [i \in 1 .. 0 |-> waiting'[Place(MAX_THREADS, n, i)]]
    BY <1>2, <1>8, <1>9, <1>10 DEF RingQueue
  <1>12. Ring' = <<>>
    BY <1>11
  <1>13. Describes(<<>>, {})
    BY DEF Describes
  <1> QED
    BY <1>7, <1>8, <1>12, <1>13

\* Calls of the modelled programs that only the condition variable may make for
\* the queue to hold: a thread that is woken or cancelled by another way while
\* it waits stays in the ring.
OnlySignalsWake == Calls \cap {"wake", "cancel"} = {}

\* A step of the program is one of the queue, or leaves the queue alone.
LEMMA QueueSteps ==
    ASSUME OnlySignalsWake, QueueInv, SyncInv', [SyncNext]_syncVars
    PROVE  \/ Wait \/ Signal \/ Broadcast
           \/ /\ Blocked' = Blocked
              /\ \/ InitConditionVariable
                 \/ UNCHANGED <<condition, "cv" \in ready>>
  <1>1. CASE k_mutex
    <2>1. UNCHANGED <<condition, "cv" \in ready>>
      BY <1>1 DEF k_mutex, InitMutex, LockMutex, UnlockMutex
    <2> QED
      BY <1>1, <2>1, BlockedStays DEF QueueInv
  <1>2. CASE InitConditionVariable
    BY <1>2, BlockedStays DEF QueueInv
  <1>3. CASE /\ UNCHANGED <<mutex, condition, ready>>
             /\ \/ \E t \in Tids : NewThread(t)
                \/ Boot \/ YieldAny \/ Tick \/ StackError \/ ThreadEnd \/ Halted
                \/ \E armed \in BOOLEAN : SetTimer(armed)
    BY <1>3, BlockedStays DEF QueueInv
  <1>4. ASSUME NEW t \in Tids PROVE ~ThreadWake(t) /\ ~ThreadCancel(t)
    BY DEF OnlySignalsWake, ThreadWake, ThreadCancel, Syscall
  <1>5. CASE UNCHANGED syncVars
    <2>1. UNCHANGED <<condition, "cv" \in ready, id, state>>
      BY <1>5 DEF syncVars, vars
    <2> QED
      BY <2>1, BlockedIs
  <1> QED
    BY <1>1, <1>2, <1>3, <1>4, <1>5 DEF SyncNext, k_condition_variable

\* The kernel boots once, also with the calls that Threads does not have.
LEMMA SyncBootStep ==
    ASSUME SyncInv, BootInv, [SyncNext]_syncVars PROVE BootInv'
  <1>1. CASE [Next]_vars
    BY <1>1, BootInvStep DEF SyncInv
  <1>2. CASE Signal \/ Broadcast \/ Wait
    BY <1>2 DEF Signal, Broadcast, Wait, Syscall, AtStage, do_scheduler, SwitchTo, BootInv
  <1> QED
    BY <1>1, <1>2, SyncThreadsStep

\* Initialising the ring makes it empty.
LEMMA InitEmpties ==
    ASSUME SyncInv', InitConditionVariable
    PROVE  Ring' = <<>> /\ ~full' /\ "cv" \in ready' /\ "cv" \notin ready
  <1>1. first' = 0 /\ last' = 0 /\ full' = FALSE
    BY DEF InitConditionVariable
  <1>2. Ring' = RingQueue(MAX_THREADS, waiting', first', last', full')
    BY RingIsNext DEF SyncInv
  <1>3. Filled(MAX_THREADS, 0, 0, FALSE) = 0
    BY DEF Filled
  <1>4. Ring' = [i \in 1 .. 0 |-> waiting'[Place(MAX_THREADS, 0, i)]]
    BY <1>1, <1>2, <1>3 DEF RingQueue
  <1> QED
    BY <1>1, <1>4 DEF InitConditionVariable

\* A step that leaves the ring leaves the queue.
LEMMA RingStays ==
    ASSUME UNCHANGED condition
    PROVE  Ring' = Ring /\ full' = full /\ first' = first /\ last' = last
  BY DEF condition, Ring, RingLength

\* Nobody waits at first.
LEMMA QueueInvInit == SyncInit => QueueInv
  <1> SUFFICES ASSUME SyncInit PROVE QueueInv
    OBVIOUS
  <1>1. SyncInv
    BY SyncInvInit
  <1>2. \A t \in Tids : id[t] = INVALID_THREAD
    BY DEF SyncInit, Init
  <1>3. Blocked = {}
    BY <1>2 DEF Blocked, is_valid_thread
  <1> QED
    BY <1>1, <1>2, <1>3 DEF QueueInv, BootInv, SyncInit, Init

\* Every step keeps the ring the queue of those that wait.
LEMMA QueueInvStep ==
    ASSUME OnlySignalsWake PROVE QueueInv /\ [SyncNext]_syncVars => QueueInv'
  <1> SUFFICES ASSUME QueueInv, [SyncNext]_syncVars PROVE QueueInv'
    OBVIOUS
  <1>1. SyncInv' /\ BootInv'
    BY SyncInvStep, SyncBootStep DEF QueueInv
  <1>2. CASE Wait \/ Signal \/ Broadcast
    <2>1. "cv" \in ready'
      BY <1>2 DEF Wait, Signal, Broadcast, Use
    <2>2. (full' => first' = last') /\ Describes(Ring', Blocked')
      BY <1>1, <1>2, WaitAppends, SignalTakesFirst, BroadcastTakesAll
    <2> QED
      BY <1>1, <2>1, <2>2 DEF QueueInv
  <1>3. CASE Blocked' = Blocked /\ InitConditionVariable
    <2>1. Ring' = <<>> /\ ~full' /\ "cv" \in ready' /\ "cv" \notin ready
      BY <1>1, <1>3, InitEmpties
    <2>2. Describes(<<>>, {})
      BY DEF Describes
    <2> QED
      BY <1>1, <1>3, <2>1, <2>2 DEF QueueInv
  <1>4. CASE Blocked' = Blocked /\ UNCHANGED <<condition, "cv" \in ready>>
    <2>1. Ring' = Ring /\ full' = full /\ first' = first /\ last' = last
      BY <1>4, RingStays
    <2> QED
      BY <1>1, <1>4, <2>1 DEF QueueInv
  <1> QED
    BY <1>1, <1>2, <1>3, <1>4, QueueSteps

\* The ring of a condition variable, for any number of threads, is a queue of
\* those that wait: it never overflows, although wait does not ask whether it is
\* full, and each thread is woken once, in the order in which they waited.
THEOREM RingIsWaitQueue == ASSUME OnlySignalsWake PROVE SyncSpec => ImplementsWaitQueue
  <1>1. SyncInit => WaitingThreads!WaitInit
    <2> SUFFICES ASSUME SyncInit PROVE WaitingThreads!WaitInit
      OBVIOUS
    <2>1. "cv" \notin ready /\ Blocked = {}
      BY QueueInvInit DEF QueueInv, SyncInit
    <2> QED
      BY <2>1 DEF WaitingThreads!WaitInit, Blocked
  <1>2. QueueInv /\ QueueInv' /\ [SyncNext]_syncVars
            => [WaitingThreads!WaitNext]_(WaitingThreads!waitVars)
    <2> SUFFICES ASSUME QueueInv, QueueInv', [SyncNext]_syncVars
                 PROVE  [WaitingThreads!WaitNext]_(WaitingThreads!waitVars)
      OBVIOUS
    <2>i. SyncInv'
      BY DEF QueueInv
    <2>1. CASE Wait
      <3>1. "cv" \in ready /\ "cv" \in ready'
        BY <2>1 DEF Wait, Use
      <3>2. PICK t \in Tids : /\ t \notin Blocked /\ Blocked' = Blocked \cup {t}
                              /\ Ring' = Append(Ring, t)
        BY <2>1, <2>i, WaitBlocks, WaitAppends DEF QueueInv
      <3>3. WaitingThreads!Wait(t)
        BY <3>1, <3>2 DEF WaitingThreads!Wait, Blocked
      <3> QED
        BY <3>3 DEF WaitingThreads!WaitNext
    <2>2. CASE Signal
      <3>1. "cv" \in ready /\ "cv" \in ready'
        BY <2>2 DEF Signal, Use
      <3>2. Ring # <<>> /\ Ring' = Tail(Ring) /\ Blocked' = Blocked \ {Head(Ring)}
        BY <2>2, <2>i, SignalTakesFirst
      <3>3. WaitingThreads!Signal
        BY <3>1, <3>2 DEF WaitingThreads!Signal, Blocked
      <3> QED
        BY <3>3 DEF WaitingThreads!WaitNext
    <2>3. CASE Broadcast
      <3>1. "cv" \in ready'
        BY <2>3 DEF Broadcast, Use
      <3>2. Ring' = <<>> /\ Blocked' = {}
        BY <2>3, <2>i, BroadcastTakesAll
      <3>3. WaitingThreads!Broadcast
        BY <3>1, <3>2 DEF WaitingThreads!Broadcast, Blocked
      <3> QED
        BY <3>3 DEF WaitingThreads!WaitNext
    <2>4. CASE Blocked' = Blocked /\ InitConditionVariable
      <3>1. Ring' = <<>> /\ "cv" \in ready' /\ "cv" \notin ready
        BY <2>4, <2>i, InitEmpties
      <3> QED
        BY <2>4, <3>1 DEF WaitingThreads!waitVars, Blocked
    <2>5. CASE Blocked' = Blocked /\ UNCHANGED <<condition, "cv" \in ready>>
      <3>1. Ring' = Ring
        BY <2>5, RingStays
      <3> QED
        BY <2>5, <3>1 DEF WaitingThreads!waitVars, Blocked
    <2> QED
      BY <2>i, <2>1, <2>2, <2>3, <2>4, <2>5, QueueSteps
  <1>3. QED
    BY QueueInvInit, QueueInvStep, <1>1, <1>2, PTL
       DEF SyncSpec, ImplementsWaitQueue, WaitingThreads!WaitSpec
=============================================================================
