----------------------------- MODULE Mailboxes -----------------------------
(***************************************************************************)
(* What the messages of Badger Kernel promise: each thread has a mailbox,  *)
(* a bounded queue.  Messages are received once, in the order they were    *)
(* sent, with their sender, and are only lost with the thread they were    *)
(* sent to.  Messages implements it with ring buffers.                     *)
(***************************************************************************)
EXTENDS Naturals, Sequences

CONSTANTS
    Threads,    \* the slots of the thread table
    Letters,    \* what a message can be: its sender and its content
    Size        \* messages a mailbox holds

VARIABLES
    box,        \* the mailbox of each thread
    delivered,  \* the last message received, and by whom
    starting    \* the thread has not run yet

mailboxVars == <<box, delivered, starting>>

MailboxInit ==
    /\ box = [t \in Threads |-> <<>>]
    /\ starting = [t \in Threads |-> TRUE]

Send(t, letter) ==
    /\ Len(box[t]) < Size
    /\ box' = [box EXCEPT ![t] = Append(@, letter)]
    /\ UNCHANGED <<delivered, starting>>

Receive(t) ==
    /\ box[t] # <<>>
    /\ delivered' = [by |-> t, letter |-> Head(box[t])]
    /\ box' = [box EXCEPT ![t] = Tail(@)]
    /\ UNCHANGED starting

\* The slot starts a thread, with an empty mailbox.
Begin(t) ==
    /\ box' = [box EXCEPT ![t] = <<>>]
    /\ starting' = [starting EXCEPT ![t] = TRUE]
    /\ UNCHANGED delivered

\* Threads are scheduled.
Run == starting' \in [Threads -> BOOLEAN] /\ UNCHANGED <<box, delivered>>

MailboxNext ==
    \/ \E t \in Threads :
          \/ \E letter \in Letters : Send(t, letter)
          \/ Receive(t)
          \/ Begin(t)
    \/ Run

MailboxSpec == MailboxInit /\ [][MailboxNext]_mailboxVars
============================================================================
