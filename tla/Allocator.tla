----------------------------- MODULE Allocator -----------------------------
(***************************************************************************)
(* What the allocator of Badger Kernel promises to the threads: regions of *)
(* blocks that do not overlap, that only their owner can move or give      *)
(* back, that keep their data when they move, and a NULL pointer only when *)
(* no region is large enough.  Heap implements it with block tags.         *)
(***************************************************************************)
EXTENDS Integers, Sequences

CONSTANTS
    Size,     \* blocks in the heap
    Threads,
    Values,   \* what a block can hold
    Requests, \* numbers of blocks that are asked for
    Pointers, \* what a thread can pass: the block it leads to, and an offset
    NULL      \* the null pointer

VARIABLES
    held,     \* the regions by first block: their owner and their data
    reply     \* what the last step was asked for, with which pointer, and the
              \* pointer it answered

allocatorVars == <<held, reply>>

Places == 0 .. Size - 1
Region(h, a) == a .. a + Len(h[a].data) - 1
Start(a) == [block |-> a, offset |-> 0]

Fits(h, a, n) ==
    /\ a + n <= Size
    /\ \A b \in DOMAIN h : Region(h, b) \cap (a .. a + n - 1) = {}

Without(p) == [a \in DOMAIN held \ {p} |-> held[a]]
Owns(t, p) == p \in DOMAIN held /\ held[p].owner = t
Answer(n, given, at) == reply' = [wanted |-> n, given |-> given, at |-> at]
NoAnswer == Answer(0, NULL, NULL)

\* The answer is NULL exactly when no n blocks in a row are free in h.
Place(t, h, n, given, data) ==
    \/ \E a \in Places :
        /\ Answer(n, given, Start(a))
        /\ Fits(h, a, n)
        /\ held' = [b \in DOMAIN h \cup {a} |->
                        IF b = a THEN [owner |-> t, data |-> data] ELSE h[b]]
    \/ /\ Answer(n, given, NULL)
       /\ \A a \in Places : ~Fits(h, a, n)
       /\ UNCHANGED held

AllocatorInit == held = <<>> /\ reply = [wanted |-> 0, given |-> NULL, at |-> NULL]

\* A new region: a thread that passes a pointer which leads to no region, but not
\* behind the heap, may be given one as if it had passed NULL.
Allocate(t, ptr, n) ==
    /\ ptr.block < Size /\ ptr.block \notin DOMAIN held
    /\ reply'.given = ptr
    /\ \E data \in [1 .. n -> Values] : Place(t, held, n, ptr, data)

\* A pointer into the first block is as good as one to its start, but for the data.
Reallocate(t, ptr, n) ==
    /\ Owns(t, ptr.block)
    /\ reply'.given = ptr
    /\ \E data \in [1 .. n -> Values] :
        /\ ptr.offset = 0 =>
              \A i \in 1 .. n :
                  i <= Len(held[ptr.block].data) => data[i] = held[ptr.block].data[i]
        /\ Place(t, Without(ptr.block), n, ptr, data)

\* The pointer comes back as it was.
Refuse(t, ptr, n) ==
    /\ ptr # NULL /\ ~Owns(t, ptr.block)
    /\ Answer(n, ptr, ptr)
    /\ UNCHANGED held

Free(t, ptr) ==
    /\ Owns(t, ptr.block)
    /\ NoAnswer
    /\ held' = Without(ptr.block)

\* The thread ends.
FreeAll(t) ==
    /\ held' = [a \in {b \in DOMAIN held : ~Owns(t, b)} |-> held[a]]
    /\ NoAnswer

\* One block of region p of h is written.
Overwrites(h, p, new) ==
    \E i \in 1 .. Len(h[p].data), v \in Values : new = [h EXCEPT ![p].data[i] = v]

Write(t, p) ==
    /\ Owns(t, p)
    /\ Overwrites(held, p, held')
    /\ NoAnswer

AllocatorNext ==
    \/ NoAnswer /\ UNCHANGED held
    \/ \E t \in Threads :
        \/ FreeAll(t)
        \/ \E ptr \in Pointers : Free(t, ptr) \/ \E n \in Requests :
              Allocate(t, ptr, n) \/ Reallocate(t, ptr, n) \/ Refuse(t, ptr, n)
        \/ \E p \in Places : Write(t, p)

AllocatorSpec == AllocatorInit /\ [][AllocatorNext]_allocatorVars
============================================================================
