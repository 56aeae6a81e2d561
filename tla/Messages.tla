------------------------------ MODULE Messages ------------------------------
(***************************************************************************)
(* The message queue of each thread (src/kernel/message.c): a ring of      *)
(* THREAD_MSG_QUEUE_SIZE messages in the thread's structure, which         *)
(* init_thread empties for every thread that starts in the slot.           *)
(***************************************************************************)
EXTENDS Threads, Sequences

CONSTANTS
    THREAD_MSG_QUEUE_SIZE,
    Contents                 \* what the programs put in a message

ASSUME QueueSizeAssumption == THREAD_MSG_QUEUE_SIZE \in Nat \ {0}
ASSUME ContentsAssumption == 0 \in Contents

VARIABLES
    messages,   \* all_threads[t].messages
    next_msg,   \* all_threads[t].next_msg, as an index
    end_msgs,   \* all_threads[t].end_msgs, as an index
    msgs_full,  \* all_threads[t].msgs_full
    delivered   \* what the last k_get_msg that succeeded returned

ring == <<messages, next_msg, end_msgs, msgs_full>>
messageVars == <<vars, ring, delivered>>

MsgSlots == 0 .. THREAD_MSG_QUEUE_SIZE - 1
Message == [src : Tids, content : Contents]

RingTypeOK ==
    /\ messages \in [Tids -> [MsgSlots -> Message]]
    /\ next_msg \in [Tids -> MsgSlots]
    /\ end_msgs \in [Tids -> MsgSlots]
    /\ msgs_full \in [Tids -> BOOLEAN]
    /\ \A t \in Tids : msgs_full[t] => next_msg[t] = end_msgs[t]

\* Mutated: the last slot is never used.
inc_msg_pointerShort(ptr) ==
    IF ptr + 1 >= THREAD_MSG_QUEUE_SIZE - 1 THEN 0 ELSE ptr + 1

inc_msg_pointer(ptr) == IF ptr + 1 = THREAD_MSG_QUEUE_SIZE THEN 0 ELSE ptr + 1

MessagesInit ==
    /\ Init
    /\ messages = [t \in Tids |-> [i \in MsgSlots |-> [src |-> 0, content |-> 0]]]
    /\ next_msg = [t \in Tids |-> 0]
    /\ end_msgs = [t \in Tids |-> 0]
    /\ msgs_full = [t \in Tids |-> FALSE]
    /\ delivered = [by |-> NULL]

\* Mutated: the thread inherits the messages of the slot's last thread.
EmptyMessageBufferKept(t) == UNCHANGED ring

\* The lines of init_thread that start message buffer empty.
EmptyMessageBuffer(t) ==
    /\ next_msg' = [next_msg EXCEPT ![t] = 0]
    /\ end_msgs' = [end_msgs EXCEPT ![t] = 0]
    /\ msgs_full' = [msgs_full EXCEPT ![t] = FALSE]
    /\ UNCHANGED messages

HasMessage(t) == next_msg[t] # end_msgs[t] \/ msgs_full[t]

\* Mutated: a full queue stays full.
GetMsgStillFull ==
    /\ Syscall("get_msg")
    /\ HasMessage(current)
    /\ delivered' = [by |-> current, letter |-> messages[current][next_msg[current]]]
    /\ next_msg' = [next_msg EXCEPT ![current] = inc_msg_pointer(@)]
    /\ UNCHANGED <<vars, messages, end_msgs, msgs_full>>

GetMsg ==
    /\ Syscall("get_msg")
    /\ HasMessage(current)
    /\ delivered' = [by |-> current, letter |-> messages[current][next_msg[current]]]
    /\ next_msg' = [next_msg EXCEPT ![current] = inc_msg_pointer(@)]
    /\ msgs_full' = [msgs_full EXCEPT ![current] = FALSE]
    /\ UNCHANGED <<vars, messages, end_msgs>>

\* Any thread with a valid id has a queue, a finished or cancelled one too.
SendMsg(destination, message) ==
    /\ Syscall("send_msg")
    /\ is_valid_thread(destination)
    /\ ~msgs_full[destination]
    /\ messages' = [messages EXCEPT ![destination][end_msgs[destination]] =
                        [src |-> current, content |-> message]]
    /\ end_msgs' = [end_msgs EXCEPT ![destination] = inc_msg_pointer(@)]
    /\ msgs_full' = [msgs_full EXCEPT
                        ![destination] = next_msg[destination] = end_msgs'[destination]]
    /\ UNCHANGED <<vars, next_msg, delivered>>

\* The thread that a step of Threads starts, or starts again, in slot t.
StartIn(t) ==
    \/ t = 0 /\ Boot
    \/ FirstFreeSlot(t) /\ \E remove \in RemoveSets : AddThread(remove)
    \/ t = current /\ \E remove \in RemoveSets : Restart(remove)

MessagesNext ==
    \/ GetMsg
    \/ \E t \in Tids, c \in Contents : SendMsg(t, c)
    \/ \E t \in Tids : StartIn(t) /\ EmptyMessageBuffer(t) /\ UNCHANGED delivered
    \/ /\ YieldAny \/ Tick \/ ThreadEnd \/ Halted
          \/ \E armed \in BOOLEAN : SetTimer(armed)
          \/ \E t \in Tids : ThreadCancel(t)
       /\ UNCHANGED <<ring, delivered>>

MessagesSpec == MessagesInit /\ [][MessagesNext]_messageVars

----------------------------------------------------------------------------
(* Properties.                                                             *)

\* The queue a ring stands for.
QueueLength(t) ==
    IF msgs_full[t] THEN THREAD_MSG_QUEUE_SIZE
                    ELSE (end_msgs[t] - next_msg[t]) % THREAD_MSG_QUEUE_SIZE

Queue(t) == [i \in 1 .. QueueLength(t) |->
                messages[t][(next_msg[t] + i - 1) % THREAD_MSG_QUEUE_SIZE]]

Boxes == INSTANCE Mailboxes WITH
             Threads <- Tids, Letters <- Message, Size <- THREAD_MSG_QUEUE_SIZE,
             box <- [t \in Tids |-> Queue(t)],
             starting <- [t \in Tids |-> state[t] = "init"]

\* The rings implement mailboxes: nothing is lost, repeated or reordered,
\* neither when a ring wraps nor when it is full.
ImplementsMailboxes == Boxes!MailboxSpec

\* A new thread does not receive the messages sent to an earlier thread of its
\* slot, however many times the slot is used.
NewThreadsHaveNoMessages ==
    [][\A t \in Tids : SlotIsFree(t) /\ ~SlotIsFree(t)' => Queue(t)' = <<>>]_messageVars
============================================================================
