-------------------------------- MODULE Heap --------------------------------
(***************************************************************************)
(* The heap of Badger Kernel (src/kernel/alloc.c): an array of blocks, and *)
(* for each block a tag.  The tag of the first block of an allocation has  *)
(* the number of its blocks and the ID of its thread; every other tag is   *)
(* 0, whatever thread ID it still has.  A pointer has the block that it    *)
(* leads to, counted from the start of the heap, and an offset in it: the  *)
(* threads pass any address, also ones below and behind the heap.  Sizes   *)
(* are numbers of blocks.                                                  *)
(***************************************************************************)
EXTENDS Integers, FiniteSetsExt

CONSTANTS
    NUM_BLOCKS,
    BLOCK_SIZE,
    HEAP_BLOCK,      \* the blocks' worth of addresses below the heap
    ADDRESS_BLOCKS,  \* the blocks' worth of addresses there are
    Owners,      \* IDs of the threads with TPERM_ALLOC
    Values,      \* what the threads write in a block
    Sizes        \* what they ask for

ASSUME NumBlocksAssumption == NUM_BLOCKS \in Nat \ {0}
ASSUME AddressAssumption ==
    /\ BLOCK_SIZE \in Nat \ {0} /\ HEAP_BLOCK \in Nat \ {0} /\ ADDRESS_BLOCKS \in Nat
    /\ HEAP_BLOCK + NUM_BLOCKS < ADDRESS_BLOCKS
ASSUME OwnersAssumption == Owners \subseteq Nat /\ 0 \in Owners
ASSUME ValuesAssumption == 0 \in Values
ASSUME SizesAssumption == Sizes \subseteq Nat \ {0}

VARIABLES
    tag,     \* block_tags[i].tag
    tid,     \* block_tags[i].tid
    heap,    \* what is in the blocks
    answer   \* history: what the last step returned, and to which request
             \* with which pointer

heapVars == <<tag, tid, heap, answer>>

Blocks == 0 .. NUM_BLOCKS - 1

Pointers == [block : -HEAP_BLOCK .. ADDRESS_BLOCKS - HEAP_BLOCK - 1, offset : 0 .. BLOCK_SIZE - 1]
to_heap_ptr(i) == [block |-> i, offset |-> 0]
NULL_PTR == to_heap_ptr(-HEAP_BLOCK)
SIZE_MAX == -1

HeapTypeOK ==
    /\ tag \in [Blocks -> 0 .. NUM_BLOCKS]
    /\ tid \in [Blocks -> Owners]
    /\ heap \in [Blocks -> Values]
    /\ answer \in [wanted : Sizes \cup {0}, given : Pointers, at : Pointers]
    /\ answer.at \in {answer.given, NULL_PTR} \cup {to_heap_ptr(i) : i \in Blocks}

\* Static data, zero before main.
HeapInit ==
    /\ tag = [i \in Blocks |-> 0]
    /\ tid = [i \in Blocks |-> 0]
    /\ heap = [i \in Blocks |-> 0]
    /\ answer = [wanted |-> 0, given |-> NULL_PTR, at |-> NULL_PTR]

next_tag(tags, i) == IF tags[i] # 0 THEN i + tags[i] ELSE i + 1

\* The blocks that a walk over the tags stops at: the first one, and where
\* next_tag goes on from each.
Walked(tags) ==
    LET closed == {S \in SUBSET Blocks :
                      /\ 0 \in S
                      /\ \A j \in S : next_tag(tags, j) \in S \/ next_tag(tags, j) \notin Blocks}
    IN  {i \in Blocks : \A S \in closed : i \in S}

\* Mutated: one block less is asked for.
FreeRunsShort(tags, n) ==
    LET free == {i \in Walked(tags) : tags[i] = 0}
    IN  {i \in free : i .. i + n - 2 \subseteq free}

\* The starts of n blocks in a row that the walk finds free.
FreeRuns(tags, n) ==
    LET free == {i \in Walked(tags) : tags[i] = 0}
    IN  {i \in free : i .. i + n - 1 \subseteq free}

\* Mutated: the end of the walk is taken for a block.
find_free_spacePastEnd(tags, n) ==
    LET runs == FreeRuns(tags, n) IN IF runs = {} THEN NUM_BLOCKS ELSE Min(runs)

find_free_space(tags, n) ==
    LET runs == FreeRuns(tags, n) IN IF runs = {} THEN SIZE_MAX ELSE Min(runs)

Answer(n, given, at) == answer' = [wanted |-> n, given |-> given, at |-> at]
NoAnswer == Answer(0, NULL_PTR, NULL_PTR)

\* The pointer to what find_free_space has found.
Found(at) == IF at = SIZE_MAX THEN NULL_PTR ELSE to_heap_ptr(at)

Claim(t, tags, at, n) ==
    /\ tag' = [tags EXCEPT ![at] = n]
    /\ tid' = [tid EXCEPT ![at] = t]

k_malloc(t, n) ==
    LET at == find_free_space(tag, n)
    IN  /\ Answer(n, NULL_PTR, Found(at))
        /\ \/ at # SIZE_MAX /\ Claim(t, tag, at, n)
           \/ at = SIZE_MAX /\ UNCHANGED <<tag, tid>>
        /\ UNCHANGED heap

----------------------------------------------------------------------------
(* Calls with a pointer.                                                   *)

\* The distance from the heap is unsigned: below the heap it is past all tags.
pointer_to_tag_idx(ptr) == ptr.block % ADDRESS_BLOCKS

\* What a field of block_tags[i] is.  There is other memory, with whatever is in
\* it, where an index past all tags leads; it is neither the tags nor the heap.
Read(field, i, other) == IF i \in Blocks THEN {field[i]} ELSE other
Cleared(field, i) == [b \in Blocks |-> IF b = i THEN 0 ELSE field[b]]

\* The tid of the block of a pointer, or any that an owner has or nobody.
TidsRead(ptr) == Read(tid, pointer_to_tag_idx(ptr), Owners \cup {-1})

\* Mutated: a pointer behind the heap is like any other.
can_realloc_freeNoEnd(t, ptr, found) == ptr # NULL_PTR /\ found = t

can_realloc_free(t, ptr, found) ==
    /\ ptr # NULL_PTR
    /\ ptr.block < NUM_BLOCKS     \* ptr < heap_end
    /\ found = t

\* What may be in the heap after a memcpy.  It goes forward: what it copies up
\* over itself, it copies again.  From the middle of a block it copies parts of
\* two blocks, or of what is behind the heap, into each.
memcpy(to, ptr, n) ==
    LET from == ptr.block
        source(k) == IF to > from THEN from + (k % (to - from)) ELSE from + k
        copied(i) == IF ptr.offset = 0 /\ from \in Blocks THEN {heap[source(i - to)]} ELSE Values
    IN  {h \in [Blocks -> Values] :
            \A i \in Blocks : h[i] \in IF i \in to .. to + n - 1 THEN copied(i) ELSE {heap[i]}}

\* The space is looked for as if the current allocation did not exist.
Move(t, ptr, n) ==
    LET i == pointer_to_tag_idx(ptr)
        freed == Cleared(tag, i)
        at == find_free_space(freed, n)
    IN  \E old_tag \in Read(tag, i, 0 .. n) :
            /\ Answer(n, ptr, Found(at))
            /\ \/ /\ at # SIZE_MAX
                  /\ heap' \in memcpy(at, ptr, Min({n, old_tag}))
                  /\ Claim(t, freed, at, n)
               \/ at = SIZE_MAX /\ UNCHANGED <<tag, tid, heap>>

k_realloc(t, ptr, n) ==
    \/ ptr = NULL_PTR /\ k_malloc(t, n)
    \/ /\ ptr # NULL_PTR
       /\ \E found \in TidsRead(ptr) :
             IF can_realloc_free(t, ptr, found)
             THEN Move(t, ptr, n)
             ELSE Answer(n, ptr, ptr) /\ UNCHANGED <<tag, tid, heap>>

k_free(t, ptr) ==
    /\ \E found \in TidsRead(ptr) : can_realloc_free(t, ptr, found)
    /\ tag' = Cleared(tag, pointer_to_tag_idx(ptr))
    /\ tid' = Cleared(tid, pointer_to_tag_idx(ptr))
    /\ NoAnswer
    /\ UNCHANGED heap

\* A tag that is cleared makes the walk go on in single blocks.
k_free_all(t) ==
    /\ LET others == [i \in Blocks |-> IF tid[i] = t THEN 0 ELSE tag[i]]
           walked == Walked(others)
       IN  tag' = [i \in Blocks |-> IF i \in walked THEN others[i] ELSE tag[i]]
    /\ NoAnswer
    /\ UNCHANGED <<tid, heap>>

\* A thread writes in an allocation of its own.
WriteBlock(t, i, v) ==
    /\ \E a \in 0 .. i : tid[a] = t /\ i < a + tag[a]
    /\ heap' = [heap EXCEPT ![i] = v]
    /\ NoAnswer
    /\ UNCHANGED <<tag, tid>>

HeapNext == \E t \in Owners :
    \/ k_free_all(t)
    \/ \E n \in Sizes : k_malloc(t, n) \/ \E ptr \in Pointers : k_realloc(t, ptr, n)
    \/ \E ptr \in Pointers : k_free(t, ptr)
    \/ \E i \in Blocks, v \in Values : WriteBlock(t, i, v)

HeapSpec == HeapInit /\ [][HeapNext]_heapVars

----------------------------------------------------------------------------
(* Properties.                                                             *)

\* Only first blocks have tags: no allocation starts inside another one or
\* runs over the end, so a walk over the tags sees them all.
TagsDelimitAllocations ==
    \A i \in Blocks : tag[i] # 0 =>
        /\ i + tag[i] <= NUM_BLOCKS
        /\ \A j \in i + 1 .. i + tag[i] - 1 : tag[j] = 0

Regions == INSTANCE Allocator WITH
    Size <- NUM_BLOCKS, Threads <- Owners, Requests <- Sizes, NULL <- NULL_PTR,
    reply <- answer,
    held <- [a \in {i \in Blocks : tag[i] # 0} |->
                [owner |-> tid[a], data |-> [k \in 1 .. tag[a] |-> heap[a + k - 1]]]]

\* The tags implement regions that do not overlap, that keep their data when a
\* realloc moves them over themselves, and calls that fail only for lack of
\* space.  Whatever address is passed, in any block, aligned or not, no region
\* of another thread is disturbed, and no region of the thread's own but the one
\* in whose first block the pointer is; behind the heap it comes back as it was.
\* Of one below the heap this says no more than that the regions stay.
ImplementsAllocator == Regions!AllocatorSpec
============================================================================
