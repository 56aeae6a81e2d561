----------------------------- MODULE HeapProofs -----------------------------
(***************************************************************************)
(* The heap for every number of blocks and threads: the tags delimit       *)
(* allocations that never overlap, whoever allocates, moves and frees.     *)
(***************************************************************************)
EXTENDS Heap, SequenceTheorems, WellFoundedInduction, TLAPS

\* TagsDelimitAllocations of tags that a step computes.
Delimits(tags) ==
    /\ tags \in [Blocks -> 0 .. NUM_BLOCKS]
    /\ \A i \in Blocks : tags[i] # 0 =>
        /\ i + tags[i] <= NUM_BLOCKS
        /\ \A j \in i + 1 .. i + tags[i] - 1 : tags[j] = 0

\* Block i is inside the allocation that starts in block a, but not its first.
Inside(tags, a, i) == a < i /\ i < a + tags[a]

\* Min is defined for every set of naturals that has an element.
LEMMA Minimum ==
    ASSUME NEW S, S \subseteq Nat, S # {}
    PROVE  Min(S) \in S /\ \A y \in S : Min(S) <= y
  <1> DEFINE Less == {pair \in Nat \X Nat : pair[1] < pair[2]}
  <1>1. IsWellFoundedOn(Less, Nat)
    BY NatLessThanWellFounded DEF OpToRel
  <1>2. \A a, b \in Nat : <<a, b>> \in Less <=> a < b
    OBVIOUS
  <1> HIDE DEF Less
  <1>3. PICK x \in S : \A y \in S : <<y, x>> \notin Less
    BY <1>1, WFMin
  <1>4. ASSUME NEW y \in S PROVE x <= y
    <2>1. x \in Nat /\ y \in Nat
      OBVIOUS
    <2>2. ~(y < x)
      BY <1>2, <1>3, <2>1
    <2> QED
      BY <2>1, <2>2
  <1> QED
    BY <1>4 DEF Min

\* A set of blocks is closed when a walk that stops in it stays in it.
Closed(tags, S) ==
    /\ 0 \in S
    /\ \A j \in S : next_tag(tags, j) \in S \/ next_tag(tags, j) \notin Blocks

\* What a walk sees is the smallest closed set.
LEMMA WalkedIs ==
    ASSUME NEW tags
    PROVE  /\ Walked(tags) \subseteq Blocks
           /\ \A S \in SUBSET Blocks : Closed(tags, S) => Walked(tags) \subseteq S
           /\ \A i \in Blocks : (\A S \in SUBSET Blocks : Closed(tags, S) => i \in S)
                                    => i \in Walked(tags)
  BY DEF Walked, Closed

\* A walk never stops inside an allocation.
LEMMA WalkStaysOutside ==
    ASSUME NEW tags, Delimits(tags), NEW a \in Blocks
    PROVE  \A i \in Walked(tags) : ~Inside(tags, a, i)
  <1> DEFINE S == {i \in Blocks : \A b \in Blocks : ~Inside(tags, b, i)}
  <1>1. 0 \in S
    BY NumBlocksAssumption DEF Blocks, Inside
  <1>2. ASSUME NEW j \in S, NEW b \in Blocks, Inside(tags, b, next_tag(tags, j)) PROVE FALSE
    <2>1. /\ tags[j] \in Nat /\ tags[b] \in Nat /\ j \in Nat /\ b \in Nat
          /\ ~Inside(tags, b, j) /\ j \in Blocks
      BY NumBlocksAssumption DEF Delimits, Blocks
    <2>2. CASE tags[j] = 0
      BY <1>2, <2>1, <2>2 DEF Inside, next_tag
    <2>3. CASE tags[j] # 0 /\ b \in j + 1 .. j + tags[j] - 1
      <3>1. tags[b] = 0
        BY <2>1, <2>3 DEF Delimits
      <3> QED
        BY <1>2, <2>1, <3>1, <2>3 DEF Inside, next_tag
    <2>4. CASE tags[j] # 0 /\ b \notin j + 1 .. j + tags[j] - 1
      BY <1>2, <2>1, <2>4 DEF Inside, next_tag
    <2> QED
      BY <2>2, <2>3, <2>4
  <1>3. Closed(tags, S)
    BY <1>1, <1>2 DEF Closed
  <1>4. Walked(tags) \subseteq S
    BY <1>3, WalkedIs
  <1> QED
    BY <1>4

\* A run of free blocks is large enough, and touches no allocation.
LEMMA RunIsFree ==
    ASSUME NEW tags, Delimits(tags), NEW n \in Nat \ {0}, NEW at \in FreeRuns(tags, n)
    PROVE  /\ at \in Blocks /\ at + n <= NUM_BLOCKS
           /\ \A j \in at .. at + n - 1 : tags[j] = 0
           /\ \A a \in Blocks : ~Inside(tags, a, at)
  <1>1. at \in Walked(tags) /\ at .. at + n - 1 \subseteq {i \in Walked(tags) : tags[i] = 0}
    BY DEF FreeRuns
  <1>2. at \in Blocks /\ at .. at + n - 1 \subseteq Blocks
    BY <1>1, WalkedIs
  <1>3. at + n - 1 \in at .. at + n - 1
    BY <1>2 DEF Blocks
  <1>4. at + n <= NUM_BLOCKS
    BY <1>2, <1>3, NumBlocksAssumption DEF Blocks
  <1> QED
    BY <1>1, <1>2, <1>4, WalkStaysOutside

\* What find_free_space answers is such a run, the first one, or SIZE_MAX when
\* there is none.
LEMMA FoundIsRun ==
    ASSUME NEW tags, NEW n, NEW at, at = find_free_space(tags, n)
    PROVE  \/ /\ at \in FreeRuns(tags, n) /\ at # SIZE_MAX
              /\ \A a \in FreeRuns(tags, n) : at <= a
           \/ at = SIZE_MAX /\ FreeRuns(tags, n) = {}
  <1>1. FreeRuns(tags, n) \subseteq Blocks
    BY WalkedIs DEF FreeRuns
  <1>2. FreeRuns(tags, n) \subseteq Nat /\ SIZE_MAX \notin Blocks
    BY <1>1, NumBlocksAssumption DEF Blocks, SIZE_MAX
  <1>3. CASE FreeRuns(tags, n) = {}
    BY <1>3 DEF find_free_space
  <1>4. CASE FreeRuns(tags, n) # {}
    <2>1. at = Min(FreeRuns(tags, n))
      BY <1>4 DEF find_free_space
    <2> QED
      BY <1>1, <1>2, <1>4, <2>1, Minimum
  <1> QED
    BY <1>3, <1>4

\* An allocation in a run of free blocks overlaps no other.
LEMMA ClaimKeeps ==
    ASSUME NEW tags, Delimits(tags), NEW n \in Nat \ {0}, NEW at \in FreeRuns(tags, n)
    PROVE  Delimits([tags EXCEPT ![at] = n])
  <1>1. PICK new : new = [tags EXCEPT ![at] = n]
    OBVIOUS
  <1>2. /\ at \in Blocks /\ at + n <= NUM_BLOCKS
        /\ \A j \in at .. at + n - 1 : tags[j] = 0
        /\ \A a \in Blocks : ~Inside(tags, a, at)
    BY RunIsFree
  <1>3. n \in 0 .. NUM_BLOCKS /\ at \in Nat
    BY <1>2, NumBlocksAssumption DEF Blocks
  <1>4. /\ new \in [Blocks -> 0 .. NUM_BLOCKS] /\ new[at] = n
        /\ \A i \in Blocks : i # at => new[i] = tags[i]
    BY <1>1, <1>2, <1>3 DEF Delimits
  <1>5. ASSUME NEW i \in Blocks, new[i] # 0
        PROVE  /\ i + new[i] <= NUM_BLOCKS
               /\ \A j \in i + 1 .. i + new[i] - 1 : new[j] = 0
    <2>1. CASE i = at
      <3>1. new[i] = n
        BY <1>4, <2>1
      <3>2. ASSUME NEW j \in at + 1 .. at + n - 1 PROVE new[j] = 0
        <4>1. j \in Blocks /\ j # at /\ j \in at .. at + n - 1
          BY <1>2, <1>3, NumBlocksAssumption DEF Blocks
        <4> QED
          BY <1>2, <1>4, <4>1
      <3> QED
        BY <1>2, <2>1, <3>1, <3>2
    <2>2. CASE i # at
      <3>1. /\ new[i] = tags[i] /\ i + tags[i] <= NUM_BLOCKS /\ tags[i] \in Nat /\ i \in Nat
            /\ \A j \in i + 1 .. i + tags[i] - 1 : tags[j] = 0
        BY <1>4, <1>5, <2>2, NumBlocksAssumption DEF Delimits, Blocks
      <3>2. ASSUME NEW j \in i + 1 .. i + tags[i] - 1 PROVE new[j] = 0
        <4>1. j \in Blocks /\ Inside(tags, i, j)
          BY <3>1, NumBlocksAssumption DEF Blocks, Inside
        <4>2. j # at
          BY <1>2, <4>1
        <4> QED
          BY <1>4, <3>1, <4>1, <4>2
      <3> QED
        BY <3>1, <3>2
    <2> QED
      BY <2>1, <2>2
  <1> QED
    BY <1>1, <1>4, <1>5 DEF Delimits

\* Tags that are cleared leave the others as they delimit them.
LEMMA ClearKeeps ==
    ASSUME NEW tags, Delimits(tags), NEW new, DOMAIN new = Blocks, new = [i \in Blocks |-> new[i]],
           \A i \in Blocks : new[i] \in {0, tags[i]}
    PROVE  Delimits(new)
  <1>1. new \in [Blocks -> 0 .. NUM_BLOCKS]
    <2>1. \A i \in Blocks : new[i] \in 0 .. NUM_BLOCKS
      BY NumBlocksAssumption DEF Delimits
    <2> QED
      BY <2>1
  <1>2. ASSUME NEW i \in Blocks, new[i] # 0
        PROVE  /\ i + new[i] <= NUM_BLOCKS
               /\ \A j \in i + 1 .. i + new[i] - 1 : new[j] = 0
    <2>1. new[i] = tags[i]
      BY <1>2
    <2>2. /\ i + tags[i] <= NUM_BLOCKS /\ tags[i] \in Nat /\ i \in Nat
          /\ \A j \in i + 1 .. i + tags[i] - 1 : tags[j] = 0
      BY <1>2, <2>1, NumBlocksAssumption DEF Delimits, Blocks
    <2>3. ASSUME NEW j \in i + 1 .. i + tags[i] - 1 PROVE new[j] = 0
      <3>1. j \in Blocks /\ tags[j] = 0
        BY <2>2, NumBlocksAssumption DEF Blocks
      <3> QED
        BY <3>1
    <2> QED
      BY <2>1, <2>2, <2>3
  <1> QED
    BY <1>1, <1>2 DEF Delimits

\* Clearing a tag does so, and does nothing when there is no such tag.
LEMMA ClearedIs ==
    ASSUME NEW tags, Delimits(tags), NEW i, NEW new, new = Cleared(tags, i)
    PROVE  /\ Delimits(new)
           /\ \A b \in Blocks : new[b] = IF b = i THEN 0 ELSE tags[b]
           /\ i \notin Blocks \/ tags[i] = 0 => new = tags
  <1>1. DOMAIN new = Blocks /\ \A b \in Blocks : new[b] = IF b = i THEN 0 ELSE tags[b]
    BY DEF Cleared
  <1>2. new = [b \in Blocks |-> new[b]]
    BY DEF Cleared
  <1>3. Delimits(new)
    BY <1>1, <1>2, ClearKeeps
  <1>4. ASSUME i \notin Blocks \/ tags[i] = 0 PROVE new = tags
    <2>1. \A b \in Blocks : new[b] = tags[b]
      BY <1>1, <1>4
    <2>2. tags = [b \in Blocks |-> tags[b]]
      BY DEF Delimits
    <2> QED
      BY <1>2, <2>1, <2>2
  <1> QED
    BY <1>1, <1>3, <1>4

\* A pointer into the heap has the index of its block, and any other has an
\* index that is past all tags: below the heap the distance wraps around.
LEMMA IndexIs ==
    ASSUME NEW ptr \in Pointers, NEW i, i = pointer_to_tag_idx(ptr)
    PROVE  i = ptr.block \/ (i \notin Blocks /\ ptr.block \notin Blocks)
  <1>1. PICK b \in -HEAP_BLOCK .. ADDRESS_BLOCKS - HEAP_BLOCK - 1 : b = ptr.block
    BY DEF Pointers
  <1>2. PICK d \in Nat \ {0} : d = ADDRESS_BLOCKS /\ HEAP_BLOCK + NUM_BLOCKS < d
    BY NumBlocksAssumption, AddressAssumption
  <1>3. HEAP_BLOCK \in Nat /\ NUM_BLOCKS \in Nat /\ i = b % d
    BY <1>1, <1>2, NumBlocksAssumption, AddressAssumption DEF pointer_to_tag_idx
  <1>4. CASE b < 0
    <2>1. b \in -d .. -1
      BY <1>1, <1>2, <1>3, <1>4
    <2>2. \A x \in -d .. -1 : x % d = x + d
      OBVIOUS
    <2>3. i = b + d
      BY <1>3, <2>1, <2>2
    <2>4. i \notin Blocks /\ b \notin Blocks
      BY <1>1, <1>2, <1>3, <1>4, <2>3 DEF Blocks
    <2> QED
      BY <1>1, <2>4
  <1>5. CASE b >= 0
    <2>1. b \in 0 .. d - 1
      BY <1>1, <1>2, <1>3, <1>5
    <2>2. \A x \in 0 .. d - 1 : x % d = x
      OBVIOUS
    <2> QED
      BY <1>1, <1>3, <2>1, <2>2
  <1> QED
    BY <1>1, <1>4, <1>5

\* NULL is a pointer below the heap, and the blocks have pointers to them.
LEMMA HeapPointers ==
    /\ NULL_PTR \in Pointers /\ NULL_PTR.block < 0 /\ NULL_PTR.block \notin Blocks
    /\ \A i \in Blocks : /\ to_heap_ptr(i) \in Pointers /\ to_heap_ptr(i).block = i
                         /\ to_heap_ptr(i) # NULL_PTR
  <1>1. \A i \in Int : to_heap_ptr(i).block = i /\ to_heap_ptr(i).offset = 0
    BY DEF to_heap_ptr
  <1>2. \A i \in -HEAP_BLOCK .. ADDRESS_BLOCKS - HEAP_BLOCK - 1 : to_heap_ptr(i) \in Pointers
    BY AddressAssumption DEF to_heap_ptr, Pointers
  <1>3. /\ Blocks \subseteq -HEAP_BLOCK .. ADDRESS_BLOCKS - HEAP_BLOCK - 1 /\ Blocks \subseteq Nat
        /\ -HEAP_BLOCK \in -HEAP_BLOCK .. ADDRESS_BLOCKS - HEAP_BLOCK - 1
        /\ -HEAP_BLOCK \in Int /\ -HEAP_BLOCK < 0 /\ -HEAP_BLOCK \notin Blocks
    BY NumBlocksAssumption, AddressAssumption DEF Blocks
  <1>4. NULL_PTR = to_heap_ptr(-HEAP_BLOCK)
    BY DEF NULL_PTR
  <1> QED
    BY <1>1, <1>2, <1>3, <1>4

----------------------------------------------------------------------------
(* The tags and the types.                                                 *)

HeapInv == HeapTypeOK /\ TagsDelimitAllocations

\* What an answer looks like: the pointer that was passed, NULL, or a block.
Answered(a) ==
    /\ a \in [wanted : Sizes \cup {0}, given : Pointers, at : Pointers]
    /\ a.at \in {a.given, NULL_PTR} \cup {to_heap_ptr(i) : i \in Blocks}

\* The invariant, with the part about the tags as a fact about any tags.
LEMMA HeapInvIs ==
    HeapInv <=> /\ Delimits(tag) /\ tid \in [Blocks -> Owners] /\ heap \in [Blocks -> Values]
                /\ Answered(answer)
  BY DEF HeapInv, HeapTypeOK, TagsDelimitAllocations, Delimits, Answered

\* So the answers of the calls do.
LEMMA AnswersAre ==
    ASSUME NEW n \in Sizes \cup {0}, NEW given \in Pointers, NEW at, Answer(n, given, at),
           \/ at \in {given, NULL_PTR}
           \/ \E i \in Blocks : at = to_heap_ptr(i)
    PROVE  Answered(answer')
  <1>1. at \in Pointers /\ at \in {given, NULL_PTR} \cup {to_heap_ptr(i) : i \in Blocks}
    BY HeapPointers
  <1> QED
    BY <1>1 DEF Answer, Answered

\* The heap starts as no allocations at all.
LEMMA HeapInvInit == HeapInit => HeapInv
  <1> SUFFICES ASSUME HeapInit PROVE HeapInv
    OBVIOUS
  <1>1. Delimits(tag)
    BY NumBlocksAssumption DEF HeapInit, Delimits, Blocks
  <1>2. tid \in [Blocks -> Owners] /\ heap \in [Blocks -> Values]
    BY OwnersAssumption, ValuesAssumption DEF HeapInit
  <1>3. Answered(answer)
    BY HeapPointers DEF HeapInit, Answered
  <1> QED
    BY <1>1, <1>2, <1>3, HeapInvIs

\* A remainder is no larger than what is divided, and is that when it is small.
LEMMA Remainder ==
    ASSUME NEW k \in Nat, NEW d \in Nat \ {0}
    PROVE  k % d \in 0 .. k /\ (k < d => k % d = k)
  <1>1. k % d \in 0 .. d - 1
    OBVIOUS
  <1>2. CASE k < d
    <2>1. k \in 0 .. d - 1
      BY <1>2
    <2>2. \A x \in 0 .. d - 1 : x % d = x
      OBVIOUS
    <2>3. k % d = k
      BY <2>1, <2>2
    <2> QED
      BY <2>3
  <1>3. CASE ~(k < d)
    BY <1>1, <1>3
  <1> QED
    BY <1>2, <1>3

\* What the handlers compute: a place for n blocks among the tags they look
\* at, or SIZE_MAX, and the answer they give.
LEMMA FoundIsTyped ==
    ASSUME NEW tags, Delimits(tags), NEW n \in Sizes, NEW at, at = find_free_space(tags, n)
    PROVE  /\ n \in Nat \ {0}
           /\ at # SIZE_MAX => /\ at \in FreeRuns(tags, n) /\ at \in Blocks
                               /\ Found(at) = to_heap_ptr(at)
           /\ at = SIZE_MAX => Found(at) = NULL_PTR
           /\ \A given \in Pointers : Answer(n, given, Found(at)) => Answered(answer')
  <1>1. n \in Nat \ {0}
    BY SizesAssumption
  <1>2. CASE at \in FreeRuns(tags, n) /\ at # SIZE_MAX
    <2>1. at \in Blocks /\ Found(at) = to_heap_ptr(at)
      BY <1>1, <1>2, RunIsFree DEF Found
    <2> QED
      BY <1>1, <1>2, <2>1, AnswersAre
  <1>3. CASE at = SIZE_MAX
    <2>1. Found(at) = NULL_PTR
      BY <1>3 DEF Found
    <2> QED
      BY <1>1, <1>3, <2>1, AnswersAre
  <1> QED
    BY <1>2, <1>3, FoundIsRun

\* What k_realloc does with a pointer it accepts: the tag is looked for as if it
\* were cleared, and of what is found, no more is written than was asked for.
LEMMA MoveTakes ==
    ASSUME HeapInv, NEW t \in Owners, NEW n \in Sizes, NEW ptr \in Pointers, Move(t, ptr, n),
           NEW i, i = pointer_to_tag_idx(ptr), NEW freed, freed = Cleared(tag, i),
           NEW at, at = find_free_space(freed, n)
    PROVE  /\ Delimits(freed) /\ Answer(n, ptr, Found(at))
           /\ \/ /\ at # SIZE_MAX /\ Claim(t, freed, at, n)
                 /\ \E m \in 0 .. n : /\ heap' \in memcpy(at, ptr, m)
                                      /\ i \in Blocks => m <= tag[i] /\ (m = n \/ m = tag[i])
              \/ at = SIZE_MAX /\ UNCHANGED <<tag, tid, heap>>
  <1>1. Delimits(tag) /\ n \in Nat \ {0}
    BY HeapInvIs, SizesAssumption
  <1>2. Delimits(freed)
    BY <1>1, ClearedIs
  <1>3. PICK old_tag \in Read(tag, i, 0 .. n) :
            /\ Answer(n, ptr, Found(at))
            /\ \/ /\ at # SIZE_MAX
                  /\ heap' \in memcpy(at, ptr, Min({n, old_tag}))
                  /\ Claim(t, freed, at, n)
               \/ at = SIZE_MAX /\ UNCHANGED <<tag, tid, heap>>
    BY DEF Move
  <1>4. old_tag \in Nat /\ (i \in Blocks => old_tag = tag[i])
    BY <1>1, NumBlocksAssumption DEF Read, Delimits
  <1>5. PICK m : m = Min({n, old_tag})
    OBVIOUS
  <1>6. m \in Nat /\ m <= n /\ m <= old_tag /\ (m = n \/ m = old_tag)
    <2>1. {n, old_tag} \subseteq Nat /\ {n, old_tag} # {}
      BY <1>1, <1>4
    <2> QED
      BY <1>5, <2>1, Minimum
  <1> QED
    BY <1>1, <1>2, <1>3, <1>4, <1>5, <1>6

\* What memcpy leaves in the heap is typed, and what it does not copy to, stays.
LEMMA CopyKeeps ==
    ASSUME NEW to, NEW ptr, NEW m \in Nat, NEW n \in Nat, m <= n, to \in Blocks,
           heap' \in memcpy(to, ptr, m)
    PROVE  /\ heap' \in [Blocks -> Values]
           /\ \A i \in Blocks : i \notin to .. to + n - 1 => heap'[i] = heap[i]
  <1>1. heap' \in [Blocks -> Values]
    BY DEF memcpy
  <1>2. \A i \in Blocks : i \notin to .. to + m - 1 => heap'[i] \in {heap[i]}
    BY DEF memcpy
  <1>3. \A i \in Blocks : i \notin to .. to + n - 1 => i \notin to .. to + m - 1
    BY DEF Blocks
  <1> QED
    BY <1>1, <1>2, <1>3

\* Every handler keeps the tags as they should be, one by one.
LEMMA HeapInvStep == HeapInv /\ [HeapNext]_heapVars => HeapInv'
  <1> SUFFICES ASSUME HeapInv, [HeapNext]_heapVars PROVE HeapInv'
    OBVIOUS
  <1>a. /\ Delimits(tag) /\ tid \in [Blocks -> Owners] /\ heap \in [Blocks -> Values]
        /\ Answered(answer)
    BY HeapInvIs
  <1>b. SUFFICES /\ Delimits(tag') /\ tid' \in [Blocks -> Owners] /\ heap' \in [Blocks -> Values]
                 /\ Answered(answer')
    BY DEF HeapInv, HeapTypeOK, TagsDelimitAllocations, Delimits, Answered
  <1>d. 0 \in Owners
    BY OwnersAssumption
  <1>1. ASSUME NEW t \in Owners, NEW n \in Sizes, k_malloc(t, n)
        PROVE  Delimits(tag') /\ tid' \in [Blocks -> Owners] /\ heap' = heap /\ Answered(answer')
    <2>1. PICK at : at = find_free_space(tag, n)
      OBVIOUS
    <2>2. Answer(n, NULL_PTR, Found(at)) /\ heap' = heap
      BY <1>1, <2>1 DEF k_malloc
    <2>3. Answered(answer')
      BY <1>a, <2>1, <2>2, FoundIsTyped, HeapPointers
    <2>4. CASE at # SIZE_MAX /\ Claim(t, tag, at, n)
      <3>1. n \in Nat \ {0} /\ at \in FreeRuns(tag, n) /\ at \in Blocks
        BY <1>a, <2>1, <2>4, FoundIsTyped
      <3>2. Delimits(tag')
        BY <1>a, <2>4, <3>1, ClaimKeeps DEF Claim
      <3> QED
        BY <1>a, <2>2, <2>3, <2>4, <3>1, <3>2 DEF Claim
    <2>5. CASE UNCHANGED <<tag, tid>>
      BY <1>a, <2>2, <2>3, <2>5
    <2> QED
      BY <1>1, <2>1, <2>4, <2>5 DEF k_malloc
  <1>2. ASSUME NEW t \in Owners, NEW n \in Sizes, NEW p \in Pointers, k_realloc(t, p, n)
        PROVE  /\ Delimits(tag') /\ tid' \in [Blocks -> Owners] /\ heap' \in [Blocks -> Values]
               /\ Answered(answer')
    <2>1. CASE Answer(n, p, p) /\ UNCHANGED <<tag, tid, heap>>
      BY <1>a, <2>1, AnswersAre
    <2>2. CASE Move(t, p, n)
      <3>1. PICK i, freed : i = pointer_to_tag_idx(p) /\ freed = Cleared(tag, i)
        OBVIOUS
      <3>2. PICK at : at = find_free_space(freed, n)
        OBVIOUS
      <3>3. /\ Delimits(freed) /\ Answer(n, p, Found(at))
            /\ \/ /\ at # SIZE_MAX /\ Claim(t, freed, at, n)
                  /\ \E m \in 0 .. n : heap' \in memcpy(at, p, m)
               \/ at = SIZE_MAX /\ UNCHANGED <<tag, tid, heap>>
        BY <2>2, <3>1, <3>2, MoveTakes
      <3>4. Answered(answer')
        BY <3>2, <3>3, FoundIsTyped
      <3>5. CASE /\ at # SIZE_MAX /\ Claim(t, freed, at, n)
                 /\ \E m \in 0 .. n : heap' \in memcpy(at, p, m)
        <4>1. n \in Nat \ {0} /\ at \in FreeRuns(freed, n) /\ at \in Blocks
          BY <3>2, <3>3, <3>5, FoundIsTyped
        <4>2. Delimits(tag') /\ tid' \in [Blocks -> Owners]
          BY <1>a, <3>3, <3>5, <4>1, ClaimKeeps DEF Claim
        <4>3. heap' \in [Blocks -> Values]
          BY <3>5, <4>1, CopyKeeps
        <4> QED
          BY <3>4, <4>2, <4>3
      <3>6. CASE UNCHANGED <<tag, tid, heap>>
        BY <1>a, <3>4, <3>6
      <3> QED
        BY <3>3, <3>5, <3>6
    <2>3. CASE k_malloc(t, n)
      BY <1>a, <1>1, <2>3
    <2> QED
      BY <1>2, <2>1, <2>2, <2>3 DEF k_realloc
  <1>3. ASSUME NEW t \in Owners, NEW p \in Pointers, k_free(t, p)
        PROVE  Delimits(tag') /\ tid' \in [Blocks -> Owners] /\ heap' = heap /\ NoAnswer
    <2>1. PICK i : i = pointer_to_tag_idx(p)
      OBVIOUS
    <2>2. tag' = Cleared(tag, i) /\ tid' = Cleared(tid, i) /\ heap' = heap /\ NoAnswer
      BY <1>3, <2>1 DEF k_free
    <2>3. Delimits(tag')
      BY <1>a, <2>2, ClearedIs
    <2>4. tid' \in [Blocks -> Owners]
      BY <1>a, <1>d, <2>2 DEF Cleared
    <2> QED
      BY <2>2, <2>3, <2>4
  <1>4. ASSUME NEW t \in Owners, k_free_all(t)
        PROVE  Delimits(tag') /\ tid' = tid /\ heap' = heap /\ NoAnswer
    <2>1. DOMAIN tag' = Blocks /\ tag' = [i \in Blocks |-> tag'[i]]
      BY <1>4 DEF k_free_all
    <2>2. \A i \in Blocks : tag'[i] \in {0, tag[i]}
      BY <1>4 DEF k_free_all
    <2>3. Delimits(tag')
      BY <1>a, <2>1, <2>2, ClearKeeps
    <2> QED
      BY <1>4, <2>3 DEF k_free_all
  <1>5. ASSUME NEW t \in Owners, NEW i \in Blocks, NEW v \in Values, WriteBlock(t, i, v)
        PROVE  tag' = tag /\ tid' = tid /\ heap' \in [Blocks -> Values] /\ NoAnswer
    BY <1>5, <1>a DEF WriteBlock
  <1>6. NoAnswer => Answered(answer')
    BY AnswersAre, HeapPointers DEF NoAnswer
  <1>7. CASE UNCHANGED heapVars
    BY <1>7, <1>a DEF heapVars
  <1> QED
    BY <1>1, <1>2, <1>3, <1>4, <1>5, <1>6, <1>7, <1>a DEF HeapNext

\* The heap never has a tag, an owner or an answer that is none.
THEOREM HeapIsTyped == HeapSpec => []HeapTypeOK
  <1>1. HeapInv => HeapTypeOK
    BY DEF HeapInv
  <1> QED
    BY HeapInvInit, HeapInvStep, <1>1, PTL DEF HeapSpec

\* No call, with whatever pointer, makes an allocation start inside another
\* one or run over the end of the heap, for any number of blocks.
THEOREM AllocationsNeverOverlap == HeapSpec => []TagsDelimitAllocations
  <1>1. HeapInv => TagsDelimitAllocations
    BY DEF HeapInv
  <1> QED
    BY HeapInvInit, HeapInvStep, <1>1, PTL DEF HeapSpec

----------------------------------------------------------------------------
(* The tags implement an allocator of regions.                             *)

\* A walk stops at every block that is not inside an allocation.
LEMMA WalkSeesAll ==
    ASSUME NEW tags, Delimits(tags), NEW i \in Blocks, \A a \in Blocks : ~Inside(tags, a, i)
    PROVE  i \in Walked(tags)
  <1> SUFFICES ASSUME NEW S \in SUBSET Blocks, Closed(tags, S), i \notin S PROVE FALSE
    BY WalkedIs
  <1>1. i \in Nat /\ S \subseteq Nat /\ 0 \in S
    BY DEF Blocks, Closed
  <1>2. PICK D : D = {d \in 0 .. i : i - d \in S}
    OBVIOUS
  <1>3. D \subseteq Nat /\ i \in D
    BY <1>1, <1>2
  <1>4. PICK d : d = Min(D)
    OBVIOUS
  <1>5. d \in D /\ \A y \in D : d <= y
    BY <1>3, <1>4, Minimum
  <1>6. PICK j \in S : j = i - d /\ j < i
    BY <1>1, <1>2, <1>5
  <1>7. ASSUME NEW k \in S, j < k, k <= i PROVE FALSE
    <2>1. i - k \in D
      BY <1>1, <1>2, <1>7
    <2>2. i - k < d
      BY <1>1, <1>2, <1>5, <1>6, <1>7
    <2> QED
      BY <1>1, <1>2, <1>5, <2>1, <2>2
  <1>8. /\ tags[j] \in Nat /\ j \in Nat /\ j \in Blocks /\ ~Inside(tags, j, i)
        /\ next_tag(tags, j) \in S \/ next_tag(tags, j) \notin Blocks
    BY <1>6, NumBlocksAssumption DEF Delimits, Blocks, Closed
  <1>9. next_tag(tags, j) <= i /\ j < next_tag(tags, j)
    BY <1>1, <1>6, <1>8 DEF next_tag, Inside
  <1>10. next_tag(tags, j) \in Blocks
    BY <1>8, <1>9, NumBlocksAssumption DEF Blocks, next_tag
  <1> QED
    BY <1>7, <1>8, <1>9, <1>10

\* Block i is in no allocation.
IsFree(tags, i) == i \in Blocks /\ tags[i] = 0 /\ \A a \in Blocks : ~Inside(tags, a, i)

\* A walk finds exactly the runs of free blocks (get_next_free_chunk).
LEMMA FreeRunsAre ==
    ASSUME NEW tags, Delimits(tags), NEW n \in Nat \ {0}, NEW a \in Nat
    PROVE  a \in FreeRuns(tags, n) <=> \A j \in a .. a + n - 1 : IsFree(tags, j)
  <1>1. \A j : j \in Walked(tags) /\ tags[j] = 0 <=> IsFree(tags, j)
    BY WalkSeesAll, WalkStaysOutside, WalkedIs DEF IsFree
  <1>2. a \in a .. a + n - 1
    OBVIOUS
  <1> QED
    BY <1>1, <1>2 DEF FreeRuns

\* k_free_all clears the tags of the thread's blocks, and no other.
LEMMA FreeAllTakes ==
    ASSUME Delimits(tag), NEW t, k_free_all(t)
    PROVE  /\ \A i \in Blocks : tag'[i] = IF tid[i] = t THEN 0 ELSE tag[i]
           /\ tid' = tid /\ Delimits(tag')
  <1>1. PICK others : others = [i \in Blocks |-> IF tid[i] = t THEN 0 ELSE tag[i]]
    OBVIOUS
  <1>3. DOMAIN others = Blocks /\ \A i \in Blocks : others[i] \in {0, tag[i]}
    BY <1>1
  <1>4. Delimits(others)
    <2>1. others = [i \in Blocks |-> others[i]]
      BY <1>1
    <2> QED
      BY <1>3, <2>1, ClearKeeps
  <1>5. ASSUME NEW i \in Blocks, tag[i] # 0 PROVE i \in Walked(others)
    <2>1. ASSUME NEW a \in Blocks, Inside(others, a, i) PROVE FALSE
      <3>1. a \in Nat /\ i \in Nat /\ tag[a] \in Nat
        BY NumBlocksAssumption DEF Blocks, Delimits
      <3>2. others[a] = tag[a] /\ tag[a] # 0
        BY <1>3, <2>1, <3>1 DEF Inside
      <3>3. i \in a + 1 .. a + tag[a] - 1
        BY <2>1, <3>1, <3>2 DEF Inside
      <3> QED
        BY <1>5, <3>2, <3>3 DEF Delimits
    <2> QED
      BY <1>4, <2>1, WalkSeesAll
  <1>6. PICK tags2 : tags2 = tag'
    OBVIOUS
  <1>7. \A i \in Blocks : tags2[i] = IF i \in Walked(others) THEN others[i] ELSE tag[i]
    BY <1>1, <1>6 DEF k_free_all
  <1>8. \A i \in Blocks : tags2[i] = IF tid[i] = t THEN 0 ELSE tag[i]
    BY <1>1, <1>3, <1>5, <1>7
  <1>9. Delimits(tags2)
    <2>1. DOMAIN tags2 = Blocks /\ tags2 = [i \in Blocks |-> tags2[i]]
      BY <1>6 DEF k_free_all
    <2>2. \A i \in Blocks : tags2[i] \in {0, tag[i]}
      BY <1>8
    <2> QED
      BY <2>1, <2>2, ClearKeeps
  <1> QED
    BY <1>6, <1>8, <1>9 DEF k_free_all

\* k_malloc claims a block that starts nothing yet, or does nothing.
LEMMA MallocTakes ==
    ASSUME Delimits(tag), NEW t, NEW n \in Nat \ {0}, k_malloc(t, n)
    PROVE  /\ Delimits(tag')
           /\ \/ answer'.at = NULL_PTR /\ tag' = tag /\ tid' = tid
              \/ \E at \in Blocks : /\ answer'.at = to_heap_ptr(at) /\ tag[at] = 0
                                    /\ tag' = [tag EXCEPT ![at] = n]
                                    /\ tid' = [tid EXCEPT ![at] = t]
  <1>1. PICK at : at = find_free_space(tag, n)
    OBVIOUS
  <1>2. answer'.at = Found(at)
    BY <1>1 DEF k_malloc, Answer
  <1>3. CASE at # SIZE_MAX /\ Claim(t, tag, at, n)
    <2>1. at \in FreeRuns(tag, n)
      BY <1>1, <1>3, FoundIsRun
    <2>2. at \in Blocks /\ tag[at] = 0
      <3>1. at \in Blocks /\ \A j \in at .. at + n - 1 : tag[j] = 0
        BY <2>1, RunIsFree
      <3>2. at \in at .. at + n - 1
        BY <3>1 DEF Blocks
      <3> QED
        BY <3>1, <3>2
    <2>3. Delimits([tag EXCEPT ![at] = n])
      BY <2>1, ClaimKeeps
    <2> QED
      BY <1>2, <1>3, <2>2, <2>3 DEF Claim, Found
  <1>4. CASE at = SIZE_MAX /\ UNCHANGED <<tag, tid>>
    BY <1>2, <1>4 DEF Found
  <1> QED
    BY <1>1, <1>3, <1>4 DEF k_malloc

\* A region that moves up leaves what it copies: the first run that is large
\* enough, once the region is given back, does not start inside it.
LEMMA MovesUpClear ==
    ASSUME NEW tags, Delimits(tags), NEW p \in Blocks, tags[p] # 0,
           NEW freed, Delimits(freed), freed = [tags EXCEPT ![p] = 0],
           NEW n \in Nat \ {0}, NEW at \in FreeRuns(freed, n),
           \A a \in FreeRuns(freed, n) : at <= a, p < at
    PROVE  p + tags[p] <= at
  <1>1. /\ at \in Nat /\ p \in Nat /\ tags[p] \in Nat /\ p + tags[p] <= NUM_BLOCKS
        /\ \A j \in p + 1 .. p + tags[p] - 1 : tags[j] = 0
    <2>1. at \in Blocks
      BY RunIsFree
    <2>2. \A i \in Blocks : tags[i] # 0 =>
              /\ i + tags[i] <= NUM_BLOCKS
              /\ \A j \in i + 1 .. i + tags[i] - 1 : tags[j] = 0
      BY DEF Delimits
    <2>3. tags[p] \in Nat /\ at \in Nat /\ p \in Nat
      BY <2>1, NumBlocksAssumption DEF Delimits, Blocks
    <2> QED
      BY <2>2, <2>3
  <1>2. freed[p] = 0 /\ \A j \in Blocks : j # p => freed[j] = tags[j]
    BY DEF Delimits
  <1>3. ASSUME NEW j \in p .. p + tags[p] - 1 PROVE IsFree(freed, j)
    <2>1. j \in Blocks /\ freed[j] = 0
      BY <1>1, <1>2, NumBlocksAssumption DEF Blocks
    <2>2. ASSUME NEW a \in Blocks, Inside(freed, a, j) PROVE FALSE
      <3>1. a \in Nat /\ j \in Nat /\ tags[a] \in Nat
        BY <2>1, NumBlocksAssumption DEF Blocks, Delimits
      <3>2. a # p /\ freed[a] = tags[a]
        BY <1>2, <2>2, <3>1 DEF Inside
      <3>3. CASE a < p
        <4>1. p \in a + 1 .. a + tags[a] - 1
          BY <1>1, <2>2, <3>1, <3>2, <3>3 DEF Inside
        <4> QED
          BY <2>2, <3>2, <4>1 DEF Delimits, Inside
      <3>4. CASE p < a
        <4>1. a \in p + 1 .. p + tags[p] - 1
          BY <1>1, <2>2, <3>1, <3>4 DEF Inside
        <4> QED
          BY <1>1, <2>2, <3>1, <3>2, <4>1 DEF Inside
      <3> QED
        BY <1>1, <3>1, <3>2, <3>3, <3>4
    <2> QED
      BY <2>1, <2>2 DEF IsFree
  <1>4. SUFFICES ASSUME at < p + tags[p] PROVE FALSE
    BY <1>1
  <1>5. ASSUME NEW j \in p .. p + n - 1 PROVE IsFree(freed, j)
    <2>1. \A k \in at .. at + n - 1 : IsFree(freed, k)
      BY <1>1, FreeRunsAre
    <2>2. j \in p .. p + tags[p] - 1 \/ j \in at .. at + n - 1
      BY <1>1, <1>4
    <2> QED
      BY <1>3, <2>1, <2>2
  <1>6. p \in FreeRuns(freed, n)
    BY <1>1, <1>5, FreeRunsAre
  <1>7. at <= p
    BY <1>6
  <1> QED
    BY <1>1, <1>7

\* What n blocks hold, and the regions that tags, owners and contents stand for.
Data(hp, a, n) == [k \in 1 .. n |-> hp[a + k - 1]]

Held(tags, tids, hp) ==
    [a \in {i \in Blocks : tags[i] # 0} |->
        [owner |-> tids[a], data |-> Data(hp, a, tags[a])]]

\* The blocks where the regions start.
Heads(tags) == {i \in Blocks : tags[i] # 0}

\* The data of an allocation is what is in its blocks.
LEMMA DataIs ==
    ASSUME NEW hp \in [Blocks -> Values], NEW a \in Blocks, NEW n \in Nat, a + n <= NUM_BLOCKS
    PROVE  /\ Data(hp, a, n) \in [1 .. n -> Values]
           /\ Len(Data(hp, a, n)) = n
           /\ \A k \in 1 .. n : Data(hp, a, n)[k] = hp[a + k - 1]
  <1>1. ASSUME NEW k \in 1 .. n PROVE hp[a + k - 1] \in Values
    <2>1. a + k - 1 \in Blocks
      BY NumBlocksAssumption DEF Blocks
    <2> QED
      BY <2>1
  <1>2. PICK d : d = Data(hp, a, n)
    OBVIOUS
  <1>3. d = [k \in 1 .. n |-> hp[a + k - 1]]
    BY <1>2 DEF Data
  <1>4. d \in [1 .. n -> Values]
    BY <1>1, <1>3
  <1>5. d \in Seq(Values)
    BY <1>4, SeqDef
  <1>6. Len(d) = n
    BY <1>4, <1>5, LenProperties
  <1> QED
    BY <1>2, <1>3, <1>4, <1>6

\* A region is held where a tag is, with what is behind it.
LEMMA HeldIs ==
    ASSUME NEW tags, NEW tids, NEW hp
    PROVE  /\ DOMAIN Held(tags, tids, hp) = {i \in Blocks : tags[i] # 0}
           /\ \A a \in Blocks : tags[a] # 0 =>
                Held(tags, tids, hp)[a] = [owner |-> tids[a], data |-> Data(hp, a, tags[a])]
  BY DEF Held

\* The parts of a region that is held.
LEMMA HeldFields ==
    ASSUME NEW tags, Delimits(tags), NEW tids, NEW hp \in [Blocks -> Values],
           NEW a \in Blocks, tags[a] # 0
    PROVE  /\ Held(tags, tids, hp)[a].owner = tids[a]
           /\ Held(tags, tids, hp)[a].data = Data(hp, a, tags[a])
           /\ Len(Held(tags, tids, hp)[a].data) = tags[a]
           /\ tags[a] \in Nat \ {0} /\ a + tags[a] <= NUM_BLOCKS
  <1>1. Held(tags, tids, hp)[a] = [owner |-> tids[a], data |-> Data(hp, a, tags[a])]
    BY HeldIs
  <1>2. tags[a] \in Nat \ {0} /\ a + tags[a] <= NUM_BLOCKS
    BY NumBlocksAssumption DEF Delimits
  <1>3. Len(Data(hp, a, tags[a])) = tags[a]
    BY <1>2, DataIs
  <1> QED
    BY <1>1, <1>2, <1>3

\* The regions n blocks fit between are the runs of free blocks.
LEMMA RunsFit ==
    ASSUME NEW tags, Delimits(tags), NEW h, DOMAIN h = {i \in Blocks : tags[i] # 0},
           \A b \in DOMAIN h : Len(h[b].data) = tags[b],
           NEW n \in Nat \ {0}, NEW a \in Blocks
    PROVE  a \in FreeRuns(tags, n) <=> Regions!Fits(h, a, n)
  <1>1. a \in Nat
    BY DEF Blocks
  <1>2. ASSUME a \in FreeRuns(tags, n) PROVE Regions!Fits(h, a, n)
    <2>1. a + n <= NUM_BLOCKS
      BY <1>2, RunIsFree
    <2>2. \A j \in a .. a + n - 1 : IsFree(tags, j)
      BY <1>1, <1>2, FreeRunsAre
    <2>3. ASSUME NEW b \in DOMAIN h, NEW j \in b .. b + tags[b] - 1, j \in a .. a + n - 1
          PROVE  FALSE
      <3>1. b \in Blocks /\ b \in Nat /\ tags[b] \in Nat /\ tags[b] # 0 /\ j \in Nat
        BY NumBlocksAssumption DEF Blocks, Delimits
      <3>2. tags[j] = 0 /\ ~Inside(tags, b, j)
        BY <2>2, <2>3, <3>1 DEF IsFree
      <3> QED
        BY <3>1, <3>2 DEF Inside
    <2>4. \A b \in DOMAIN h : Regions!Region(h, b) \cap (a .. a + n - 1) = {}
      BY <2>3 DEF Regions!Region
    <2> QED
      BY <2>1, <2>4 DEF Regions!Fits
  <1>3. ASSUME Regions!Fits(h, a, n) PROVE a \in FreeRuns(tags, n)
    <2>1. a + n <= NUM_BLOCKS
      BY <1>3 DEF Regions!Fits
    <2>2. \A b \in Blocks : tags[b] # 0 => (b .. b + tags[b] - 1) \cap (a .. a + n - 1) = {}
      BY <1>3 DEF Regions!Fits, Regions!Region
    <2>3. ASSUME NEW j \in a .. a + n - 1 PROVE IsFree(tags, j)
      <3>1. j \in Blocks /\ j \in Nat
        BY <1>1, <2>1, NumBlocksAssumption DEF Blocks
      <3>2. ASSUME NEW b \in Blocks, tags[b] # 0, b <= j, j < b + tags[b] PROVE FALSE
        <4>1. j \in b .. b + tags[b] - 1
          BY <3>1, <3>2, NumBlocksAssumption DEF Blocks, Delimits
        <4> QED
          BY <2>2, <2>3, <3>2, <4>1
      <3>3. tags[j] = 0
        <4>1. tags[j] \in Nat
          BY <3>1, NumBlocksAssumption DEF Delimits
        <4> QED
          BY <3>1, <3>2, <4>1
      <3>4. ASSUME NEW b \in Blocks, Inside(tags, b, j) PROVE FALSE
        <4>1. b \in Nat /\ tags[b] \in Nat
          BY NumBlocksAssumption DEF Blocks, Delimits
        <4> QED
          BY <3>1, <3>2, <3>4, <4>1 DEF Inside
      <3> QED
        BY <3>1, <3>3, <3>4 DEF IsFree
    <2> QED
      BY <1>1, <2>3, FreeRunsAre
  <1> QED
    BY <1>2, <1>3

\* Thread t claims n blocks from block "at", and the contents of others stay.
Claims(t, at, n, tags, tids, hp, tags2, tids2, hp2) ==
    /\ tags2 = [tags EXCEPT ![at] = n]
    /\ tids2 = [tids EXCEPT ![at] = t]
    /\ \A i \in Blocks : i \notin at .. at + n - 1 => hp2[i] = hp[i]

\* The regions there are then.
With(t, at, n, tags, tids, hp, hp2) ==
    [b \in Heads(tags) \cup {at} |->
        IF b = at THEN [owner |-> t, data |-> Data(hp2, at, n)]
                  ELSE [owner |-> tids[b], data |-> Data(hp, b, tags[b])]]

\* A claim of free blocks adds a region to those that there are.
LEMMA ClaimAdds ==
    ASSUME NEW tags, Delimits(tags), NEW tids \in [Blocks -> Owners], NEW hp \in [Blocks -> Values],
           NEW n \in Nat \ {0}, NEW at \in FreeRuns(tags, n), NEW t \in Owners,
           NEW tags2, NEW tids2, NEW hp2 \in [Blocks -> Values],
           Claims(t, at, n, tags, tids, hp, tags2, tids2, hp2)
    PROVE  Held(tags2, tids2, hp2) = With(t, at, n, tags, tids, hp, hp2)
  <1>1. /\ at \in Blocks /\ at + n <= NUM_BLOCKS /\ at \in Nat
        /\ \A j \in at .. at + n - 1 : IsFree(tags, j)
    <2>1. at \in Blocks /\ at + n <= NUM_BLOCKS
      BY RunIsFree
    <2>2. at \in Nat
      BY <2>1 DEF Blocks
    <2> QED
      BY <2>1, <2>2, FreeRunsAre
  <1>2. PICK H : H = Heads(tags) /\ H = {i \in Blocks : tags[i] # 0}
    BY DEF Heads
  <1>3. /\ tags2[at] = n /\ tids2[at] = t
        /\ \A b \in Blocks : b # at => tags2[b] = tags[b] /\ tids2[b] = tids[b]
    BY <1>1 DEF Delimits, Claims
  <1>4. {i \in Blocks : tags2[i] # 0} = H \cup {at}
    BY <1>1, <1>2, <1>3
  <1>5. ASSUME NEW b \in H, b # at PROVE Data(hp2, b, tags[b]) = Data(hp, b, tags[b])
    <2>1. /\ b \in Blocks /\ b \in Nat /\ tags[b] \in Nat /\ tags[b] # 0
          /\ b + tags[b] <= NUM_BLOCKS
      BY <1>2, NumBlocksAssumption DEF Blocks, Delimits
    <2>2. ASSUME NEW k \in 1 .. tags[b] PROVE hp2[b + k - 1] = hp[b + k - 1]
      <3>1. PICK j \in Nat : j = b + k - 1
        BY <2>1
      <3>2. j \in Blocks
        BY <2>1, <3>1, NumBlocksAssumption DEF Blocks
      <3>3. j = b \/ Inside(tags, b, j)
        BY <2>1, <3>1 DEF Inside
      <3>4. j \notin at .. at + n - 1
        BY <1>1, <2>1, <3>3 DEF IsFree
      <3> QED
        BY <3>1, <3>2, <3>4 DEF Claims
    <2> QED
      BY <2>2 DEF Data
  <1>6. ASSUME NEW b \in H \cup {at}
        PROVE  [owner |-> tids2[b], data |-> Data(hp2, b, tags2[b])] =
                   IF b = at THEN [owner |-> t, data |-> Data(hp2, at, n)]
                             ELSE [owner |-> tids[b], data |-> Data(hp, b, tags[b])]
    <2>1. CASE b = at
      BY <1>3, <2>1
    <2>2. CASE b # at
      <3>1. b \in H /\ b \in Blocks
        BY <1>2, <2>2
      <3>2. tags2[b] = tags[b] /\ tids2[b] = tids[b]
        BY <1>3, <2>2, <3>1
      <3>3. Data(hp2, b, tags2[b]) = Data(hp, b, tags[b])
        BY <1>5, <2>2, <3>1, <3>2
      <3> QED
        BY <2>2, <3>2, <3>3
    <2> QED
      BY <2>1, <2>2
  <1>7. Held(tags2, tids2, hp2) =
            [b \in {i \in Blocks : tags2[i] # 0} |->
                [owner |-> tids2[b], data |-> Data(hp2, b, tags2[b])]]
    BY DEF Held
  <1> QED
    BY <1>2, <1>4, <1>6, <1>7 DEF With

\* What a handler that looks for n blocks does is what the allocator promises:
\* the regions h that it starts from and a new one, or nothing and NULL.
LEMMA PlaceRefines ==
    ASSUME HeapInv, HeapInv', NEW t \in Owners, NEW n \in Sizes, NEW given,
           NEW tags, Delimits(tags),
           NEW at, at = find_free_space(tags, n), Answer(n, given, Found(at)),
           \/ /\ at # SIZE_MAX /\ Claim(t, tags, at, n)
              /\ \A i \in Blocks : i \notin at .. at + n - 1 => heap'[i] = heap[i]
           \/ at = SIZE_MAX /\ UNCHANGED <<tag, tid, heap>>,
           NEW h, h = Held(tags, tid, heap),
           NEW data, at # SIZE_MAX => data = Data(heap', at, n)
    PROVE  Regions!Place(t, h, n, given, data)
  <1>1. /\ tid \in [Blocks -> Owners] /\ heap \in [Blocks -> Values]
        /\ heap' \in [Blocks -> Values]
    BY DEF HeapInv, HeapTypeOK
  <1>2. /\ n \in Nat \ {0}
        /\ at # SIZE_MAX => /\ at \in FreeRuns(tags, n) /\ at \in Blocks
                            /\ Found(at) = to_heap_ptr(at)
        /\ at = SIZE_MAX => Found(at) = NULL_PTR
    BY FoundIsTyped
  <1>3. DOMAIN h = {i \in Blocks : tags[i] # 0} /\ \A b \in DOMAIN h : Len(h[b].data) = tags[b]
    <2>1. DOMAIN Held(tags, tid, heap) = {i \in Blocks : tags[i] # 0}
      BY HeldIs
    <2>2. \A b \in Blocks : tags[b] # 0 => Len(Held(tags, tid, heap)[b].data) = tags[b]
      BY <1>1, HeldFields
    <2> QED
      BY <2>1, <2>2
  <1>4. CASE /\ at # SIZE_MAX /\ Claim(t, tags, at, n)
             /\ \A i \in Blocks : i \notin at .. at + n - 1 => heap'[i] = heap[i]
    <2>1. at \in FreeRuns(tags, n) /\ at \in Blocks /\ data = Data(heap', at, n)
      BY <1>2, <1>4
    <2>2. Regions!Fits(h, at, n)
      BY <1>2, <1>3, <2>1, RunsFit
    <2>3. PICK tags2, tids2, hp2 : tags2 = tag' /\ tids2 = tid' /\ hp2 = heap'
      OBVIOUS
    <2>4. hp2 \in [Blocks -> Values] /\ Claims(t, at, n, tags, tid, heap, tags2, tids2, hp2)
      BY <1>1, <1>4, <2>3 DEF Claim, Claims
    <2>5. PICK H : H = Heads(tags) /\ H = {i \in Blocks : tags[i] # 0}
      BY DEF Heads
    <2>6. Held(tags2, tids2, hp2) = With(t, at, n, tags, tid, heap, hp2)
      BY <1>1, <1>2, <2>1, <2>4, ClaimAdds
    <2>7. \A b \in H : h[b] = [owner |-> tid[b], data |-> Data(heap, b, tags[b])]
      BY <2>5 DEF Held
    <2>8. Held(tag', tid', heap') =
              [b \in DOMAIN h \cup {at} |->
                  IF b = at THEN [owner |-> t, data |-> data] ELSE h[b]]
      BY <1>3, <2>1, <2>3, <2>5, <2>6, <2>7 DEF With
    <2>9. Regions!Answer(n, given, Regions!Start(at))
      BY <1>2, <1>4 DEF Regions!Answer, Regions!Start, Answer, to_heap_ptr
    <2> QED
      BY <2>1, <2>2, <2>8, <2>9 DEF Regions!Place, Regions!Places, Blocks, Held, Data
  <1>5. CASE at = SIZE_MAX /\ UNCHANGED <<tag, tid, heap>>
    <2>1. FreeRuns(tags, n) = {}
      <3>1. SIZE_MAX \notin FreeRuns(tags, n)
        BY <1>2, RunIsFree DEF Blocks, SIZE_MAX
      <3> QED
        BY <1>5, <3>1, FoundIsRun
    <2>2. \A a \in Blocks : ~Regions!Fits(h, a, n)
      BY <1>2, <1>3, <2>1, RunsFit
    <2>3. Regions!Answer(n, given, NULL_PTR)
      BY <1>2, <1>5 DEF Regions!Answer, Answer
    <2> QED
      BY <1>5, <2>2, <2>3 DEF Regions!Place, Regions!Places, Blocks
  <1> QED
    BY <1>4, <1>5

\* What looks among the tags as they are for n blocks, and changes no other, gives
\* a region that no other touches, or NULL for lack of space.
LEMMA NewRefines ==
    ASSUME HeapInv, HeapInv', NEW t \in Owners, NEW n \in Sizes, NEW ptr \in Pointers,
           ptr.block < NUM_BLOCKS, ptr.block \in Blocks => tag[ptr.block] = 0,
           NEW at, at = find_free_space(tag, n), Answer(n, ptr, Found(at)),
           \/ /\ at # SIZE_MAX /\ Claim(t, tag, at, n)
              /\ \A i \in Blocks : i \notin at .. at + n - 1 => heap'[i] = heap[i]
           \/ at = SIZE_MAX /\ UNCHANGED <<tag, tid, heap>>
    PROVE  Regions!Allocate(t, ptr, n)
  <1>1. /\ Delimits(tag) /\ n \in Nat \ {0} /\ heap' \in [Blocks -> Values]
        /\ 0 \in Values
    BY HeapInvIs, SizesAssumption, ValuesAssumption DEF HeapInv, HeapTypeOK
  <1>2. PICK h : h = Held(tag, tid, heap)
    OBVIOUS
  <1>3. PICK data : data = IF at = SIZE_MAX THEN [i \in 1 .. n |-> 0] ELSE Data(heap', at, n)
    OBVIOUS
  <1>4. data \in [1 .. n -> Values]
    <2>1. CASE at = SIZE_MAX
      BY <1>1, <1>3, <2>1
    <2>2. CASE at # SIZE_MAX
      <3>1. at \in Blocks /\ at + n <= NUM_BLOCKS
        BY <1>1, <2>2, FoundIsTyped, RunIsFree
      <3> QED
        BY <1>1, <1>3, <2>2, <3>1, DataIs
    <2> QED
      BY <2>1, <2>2
  <1>5. at # SIZE_MAX => data = Data(heap', at, n)
    BY <1>3
  <1>6. Regions!Place(t, h, n, ptr, data)
    BY <1>1, <1>2, <1>5, PlaceRefines
  <1>7. DOMAIN h = {i \in Blocks : tag[i] # 0}
    BY <1>2, HeldIs
  <1>8. answer'.given = ptr /\ ptr.block \notin DOMAIN h
    BY <1>7 DEF Answer
  <1> QED
    BY <1>2, <1>4, <1>6, <1>8 DEF Regions!Allocate, Held, Data

\* k_malloc does.
LEMMA MallocRefines ==
    ASSUME HeapInv, HeapInv', NEW t \in Owners, NEW n \in Sizes, k_malloc(t, n)
    PROVE  Regions!Allocate(t, NULL_PTR, n)
  <1>1. PICK at : at = find_free_space(tag, n)
    OBVIOUS
  <1>2. /\ Answer(n, NULL_PTR, Found(at))
        /\ \/ /\ at # SIZE_MAX /\ Claim(t, tag, at, n)
              /\ \A i \in Blocks : i \notin at .. at + n - 1 => heap'[i] = heap[i]
           \/ at = SIZE_MAX /\ UNCHANGED <<tag, tid, heap>>
    BY <1>1 DEF k_malloc
  <1>3. NULL_PTR.block < NUM_BLOCKS
    BY HeapPointers, NumBlocksAssumption, AddressAssumption DEF NULL_PTR, to_heap_ptr
  <1> QED
    BY <1>1, <1>2, <1>3, HeapPointers, NewRefines

\* A pointer into block p.
LeadsTo(ptr, p) == ptr \in Pointers /\ ptr.block = p

\* A copy from the start of a block that does not start inside what it copies
\* copies it as it is.
LEMMA CopyIs ==
    ASSUME HeapInv, NEW to \in Blocks, NEW ptr, NEW from \in Blocks, LeadsTo(ptr, from),
           ptr.offset = 0, NEW m \in Nat, to + m <= NUM_BLOCKS, to <= from \/ from + m <= to,
           NEW new, new \in memcpy(to, ptr, m)
    PROVE  \A k \in 0 .. m - 1 : new[to + k] = heap[from + k]
  <1>1. from \in Nat /\ to \in Nat
    BY DEF Blocks
  <1>2. \A i \in Blocks : i \in to .. to + m - 1 =>
            new[i] = heap[IF to > from THEN from + ((i - to) % (to - from)) ELSE from + (i - to)]
    BY DEF memcpy, LeadsTo
  <1>3. ASSUME NEW k \in 0 .. m - 1 PROVE new[to + k] = heap[from + k]
    <2>1. PICK i \in Blocks : i = to + k
      BY <1>1, NumBlocksAssumption DEF Blocks
    <2>2. i \in to .. to + m - 1 /\ i - to = k
      BY <1>1, <2>1
    <2>3. CASE to > from
      <3>1. PICK d \in Nat \ {0} : d = to - from
        BY <1>1, <2>3
      <3>2. k \in Nat /\ k < d
        BY <1>1, <2>3, <3>1
      <3>3. k % d = k
        BY <3>2, Remainder
      <3>4. new[i] = heap[from + (k % d)]
        BY <1>2, <2>2, <2>3, <3>1
      <3> QED
        BY <2>1, <3>3, <3>4
    <2>4. CASE ~(to > from)
      BY <1>2, <2>1, <2>2, <2>4
    <2> QED
      BY <2>3, <2>4
  <1> QED
    BY <1>3

\* Tags that are cleared take their regions away and leave the others.
LEMMA ClearTakes ==
    ASSUME NEW tags, NEW tids, NEW hp, NEW tags2, NEW tids2,
           \A i \in Blocks : tags2[i] \in {0, tags[i]},
           \A i \in Blocks : tags2[i] # 0 => tids2[i] = tids[i]
    PROVE  Held(tags2, tids2, hp) = [a \in Heads(tags2) |-> Held(tags, tids, hp)[a]]
  <1>2. ASSUME NEW a \in Heads(tags2)
        PROVE  [owner |-> tids2[a], data |-> Data(hp, a, tags2[a])] = Held(tags, tids, hp)[a]
    <2>1. a \in Blocks /\ tags2[a] = tags[a] /\ tids2[a] = tids[a] /\ tags[a] # 0
      BY DEF Heads
    <2>2. Held(tags, tids, hp)[a] = [owner |-> tids[a], data |-> Data(hp, a, tags[a])]
      BY <2>1 DEF Held
    <2> QED
      BY <2>1, <2>2
  <1>3. Held(tags2, tids2, hp) =
            [a \in Heads(tags2) |-> [owner |-> tids2[a], data |-> Data(hp, a, tags2[a])]]
    BY DEF Held, Heads
  <1> QED
    BY <1>2, <1>3

\* The promise of a realloc with a pointer into block p.
MovesFrom(t, p, ptr, n) ==
    /\ Regions!Owns(t, p)
    /\ answer'.given = ptr
    /\ \E data \in [1 .. n -> Values] :
        /\ ptr.offset = 0 =>
              \A i \in 1 .. n :
                  i <= Len(Held(tag, tid, heap)[p].data)
                      => data[i] = Held(tag, tid, heap)[p].data[i]
        /\ Regions!Place(t, Regions!Without(p), n, ptr, data)

\* k_realloc moves a region, and from a pointer to its start with its data, down
\* over itself or away.
LEMMA MoveRefines ==
    ASSUME HeapInv, HeapInv', NEW t \in Owners, NEW n \in Sizes, NEW ptr, NEW p \in Blocks,
           LeadsTo(ptr, p), Move(t, ptr, n), tid[p] = t, tag[p] # 0
    PROVE  MovesFrom(t, p, ptr, n)
  <1>1. /\ Delimits(tag) /\ n \in Nat \ {0} /\ 0 \in Values
        /\ heap \in [Blocks -> Values] /\ heap' \in [Blocks -> Values]
    BY HeapInvIs, SizesAssumption, ValuesAssumption DEF HeapInv, HeapTypeOK
  <1>2. p \in Nat /\ tag[p] \in Nat \ {0} /\ p + tag[p] <= NUM_BLOCKS
    BY <1>1, NumBlocksAssumption DEF Delimits, Blocks
  <1>3. PICK freed : freed = Cleared(tag, p)
    OBVIOUS
  <1>4. /\ Delimits(freed)
        /\ freed[p] = 0 /\ \A a \in Blocks : a # p => freed[a] = tag[a]
        /\ freed = [tag EXCEPT ![p] = 0]
    <2>1. Delimits(freed) /\ \A b \in Blocks : freed[b] = IF b = p THEN 0 ELSE tag[b]
      BY <1>1, <1>3, ClearedIs
    <2>2. freed = [b \in Blocks |-> IF b = p THEN 0 ELSE tag[b]]
      BY <1>3 DEF Cleared
    <2>3. tag = [b \in Blocks |-> tag[b]]
      BY <1>1 DEF Delimits
    <2> QED
      BY <2>1, <2>2, <2>3
  <1>5. PICK at : at = find_free_space(freed, n)
    OBVIOUS
  <1>6. pointer_to_tag_idx(ptr) = p
    BY IndexIs DEF LeadsTo
  <1>7. /\ Answer(n, ptr, Found(at))
        /\ \/ /\ at # SIZE_MAX /\ Claim(t, freed, at, n)
              /\ \E m \in 0 .. n : /\ heap' \in memcpy(at, ptr, m)
                                   /\ m <= tag[p] /\ (m = n \/ m = tag[p])
           \/ at = SIZE_MAX /\ UNCHANGED <<tag, tid, heap>>
    BY <1>3, <1>5, <1>6, MoveTakes DEF LeadsTo
  <1>8. at # SIZE_MAX =>
            /\ at \in FreeRuns(freed, n) /\ at \in Blocks /\ at + n <= NUM_BLOCKS
            /\ \A a \in FreeRuns(freed, n) : at <= a
    BY <1>1, <1>4, <1>5, FoundIsTyped, FoundIsRun, RunIsFree
  <1>9. PICK data : data = IF at = SIZE_MAX
                           THEN [i \in 1 .. n |-> IF i <= tag[p] THEN heap[p + i - 1] ELSE 0]
                           ELSE Data(heap', at, n)
    OBVIOUS
  <1>10. ASSUME NEW i \in 1 .. n, i <= tag[p] PROVE p + i - 1 \in Blocks
    BY <1>1, <1>2, <1>10, NumBlocksAssumption DEF Blocks
  <1>11. /\ data \in [1 .. n -> Values]
         /\ ptr.offset = 0 => \A i \in 1 .. n : i <= tag[p] => data[i] = heap[p + i - 1]
         /\ at # SIZE_MAX => \A i \in Blocks : i \notin at .. at + n - 1 => heap'[i] = heap[i]
    <2>1. CASE at = SIZE_MAX
      <3>1. data = [i \in 1 .. n |-> IF i <= tag[p] THEN heap[p + i - 1] ELSE 0]
        BY <1>9, <2>1
      <3>2. data \in [1 .. n -> Values]
        BY <1>1, <1>10, <3>1
      <3> QED
        BY <2>1, <3>1, <3>2
    <2>2. CASE at # SIZE_MAX
      <3>1. at \in FreeRuns(freed, n) /\ at \in Blocks /\ at + n <= NUM_BLOCKS /\ at \in Nat
        BY <1>8, <2>2 DEF Blocks
      <3>2. p < at => p + tag[p] <= at
        BY <1>1, <1>4, <1>8, <2>2, <3>1, MovesUpClear
      <3>3. PICK m \in Nat : /\ heap' \in memcpy(at, ptr, m)
                             /\ m <= n /\ m <= tag[p] /\ (m = n \/ m = tag[p])
        BY <1>1, <1>7, <2>2
      <3>4. at + m <= NUM_BLOCKS /\ (at <= p \/ p + m <= at)
        BY <1>1, <1>2, <3>1, <3>2, <3>3, NumBlocksAssumption
      <3>5. ptr.offset = 0 => \A k \in 0 .. m - 1 : heap'[at + k] = heap[p + k]
        BY <3>1, <3>3, <3>4, CopyIs
      <3>6. /\ data \in [1 .. n -> Values]
            /\ \A k \in 1 .. n : data[k] = heap'[at + k - 1]
        BY <1>1, <1>9, <2>2, <3>1, DataIs
      <3>7. ASSUME ptr.offset = 0, NEW i \in 1 .. n, i <= tag[p] PROVE data[i] = heap[p + i - 1]
        <4>1. PICK k \in 0 .. m - 1 : k = i - 1
          BY <1>1, <1>2, <3>3, <3>7
        <4>2. at + i - 1 = at + k /\ p + i - 1 = p + k
          BY <1>2, <3>1, <4>1
        <4> QED
          BY <3>5, <3>6, <3>7, <4>1, <4>2
      <3>8. \A i \in Blocks : i \notin at .. at + n - 1 => heap'[i] = heap[i]
        BY <1>1, <3>1, <3>3, CopyKeeps
      <3> QED
        BY <3>6, <3>7, <3>8
    <2> QED
      BY <2>1, <2>2
  <1>12. PICK now, h : now = Held(tag, tid, heap) /\ h = Held(freed, tid, heap)
    OBVIOUS
  <1>13. Regions!Place(t, h, n, ptr, data)
    <2>1. at # SIZE_MAX => data = Data(heap', at, n)
      BY <1>9
    <2>2. \/ /\ at # SIZE_MAX /\ Claim(t, freed, at, n)
             /\ \A i \in Blocks : i \notin at .. at + n - 1 => heap'[i] = heap[i]
          \/ at = SIZE_MAX /\ UNCHANGED <<tag, tid, heap>>
      BY <1>7, <1>11
    <2> QED
      BY <1>4, <1>5, <1>7, <1>12, <2>1, <2>2, PlaceRefines
  <1>14. /\ p \in DOMAIN now /\ now[p].owner = t /\ Len(now[p].data) = tag[p]
         /\ \A i \in 1 .. tag[p] : now[p].data[i] = heap[p + i - 1]
    <2>1. /\ now[p].owner = tid[p] /\ Len(now[p].data) = tag[p]
          /\ now[p].data = Data(heap, p, tag[p])
      BY <1>1, <1>12, HeldFields
    <2>2. p \in DOMAIN now
      BY <1>12, HeldIs
    <2>3. \A i \in 1 .. tag[p] : Data(heap, p, tag[p])[i] = heap[p + i - 1]
      BY <1>1, <1>2, DataIs
    <2> QED
      BY <2>1, <2>2, <2>3
  <1>15. h = [a \in DOMAIN now \ {p} |-> now[a]]
    <2>1. \A i \in Blocks : freed[i] \in {0, tag[i]}
      BY <1>4
    <2>2. Held(freed, tid, heap) = [a \in Heads(freed) |-> Held(tag, tid, heap)[a]]
      BY <2>1, ClearTakes
    <2>3. DOMAIN now = {i \in Blocks : tag[i] # 0}
      BY <1>12, HeldIs
    <2>4. freed[p] = 0 /\ \A a \in Blocks : a # p => freed[a] = tag[a]
      BY <1>4
    <2>5. Heads(freed) = DOMAIN now \ {p}
      BY <2>3, <2>4 DEF Heads
    <2> QED
      BY <1>12, <2>2, <2>5
  <1>16. ptr.offset = 0 => \A i \in 1 .. n : i <= Len(now[p].data) => data[i] = now[p].data[i]
    BY <1>1, <1>2, <1>11, <1>14
  <1>17. Regions!Owns(t, p)
    BY <1>12, <1>14 DEF Regions!Owns, Held, Data
  <1>18. Regions!Without(p) = h
    BY <1>12, <1>15 DEF Regions!Without, Held, Data
  <1>19. answer'.given = ptr
    BY <1>7 DEF Answer
  <1> QED
    BY <1>11, <1>12, <1>13, <1>16, <1>17, <1>18, <1>19 DEF MovesFrom

\* k_realloc of a pointer to nothing is k_malloc, and of another thread's, or one
\* behind the heap, nothing at all.
LEMMA ReallocRefines ==
    ASSUME HeapInv, HeapInv', NEW t \in Owners, NEW n \in Sizes, NEW ptr \in Pointers,
           k_realloc(t, ptr, n)
    PROVE  Regions!AllocatorNext
  <1>1. /\ Delimits(tag) /\ heap \in [Blocks -> Values] /\ n \in Nat \ {0}
        /\ ptr.block \in Int /\ NUM_BLOCKS \in Nat \ {0} /\ Blocks = 0 .. NUM_BLOCKS - 1
    BY HeapInvIs, SizesAssumption, NumBlocksAssumption, AddressAssumption DEF Pointers, Blocks
  <1>2. PICK i : i = pointer_to_tag_idx(ptr)
    OBVIOUS
  <1>3. i = ptr.block \/ (i \notin Blocks /\ ptr.block \notin Blocks)
    BY <1>2, IndexIs
  <1>4. CASE ptr = NULL_PTR /\ k_malloc(t, n)
    <2>1. Regions!Allocate(t, ptr, n)
      BY <1>4, MallocRefines
    <2> QED
      BY <2>1 DEF Regions!AllocatorNext
  <1>5. ASSUME ptr # NULL_PTR, NEW found \in TidsRead(ptr), ~can_realloc_free(t, ptr, found),
               Answer(n, ptr, ptr), UNCHANGED <<tag, tid, heap>>
        PROVE  Regions!AllocatorNext
    <2>1. PICK now : now = Held(tag, tid, heap)
      OBVIOUS
    <2>2. DOMAIN now = {b \in Blocks : tag[b] # 0} /\ \A b \in DOMAIN now : now[b].owner = tid[b]
      BY <2>1 DEF Held
    <2>3. ~(ptr.block \in DOMAIN now /\ now[ptr.block].owner = t)
      <3> SUFFICES ASSUME ptr.block \in Blocks, tid[ptr.block] = t PROVE FALSE
        BY <2>2
      <3>1. found = tid[ptr.block]
        BY <1>2, <1>3 DEF TidsRead, Read
      <3> QED
        BY <1>1, <1>5, <3>1 DEF can_realloc_free
    <2>4. Regions!Refuse(t, ptr, n)
      BY <1>5, <2>1, <2>3 DEF Regions!Refuse, Regions!Owns, Regions!Answer, Answer, Held, Data
    <2> QED
      BY <2>4 DEF Regions!AllocatorNext
  <1>6. ASSUME NEW found \in TidsRead(ptr), can_realloc_free(t, ptr, found), Move(t, ptr, n)
        PROVE  Regions!AllocatorNext
    <2>1. CASE ptr.block \in Blocks /\ tag[ptr.block] # 0
      <3>1. tid[ptr.block] = t
        BY <1>2, <1>3, <1>6, <2>1 DEF TidsRead, Read, can_realloc_free
      <3>2. PICK p \in Blocks : p = ptr.block
        BY <2>1
      <3>3. MovesFrom(t, p, ptr, n)
        BY <1>6, <2>1, <3>1, <3>2, MoveRefines DEF LeadsTo
      <3>4. Regions!Reallocate(t, ptr, n)
        BY ONLY <3>2, <3>3 DEF MovesFrom, Regions!Reallocate, Held, Data
      <3> QED
        BY <3>4 DEF Regions!AllocatorNext
    <2>2. CASE ~(ptr.block \in Blocks /\ tag[ptr.block] # 0)
      <3>1. i \notin Blocks \/ tag[i] = 0
        BY <1>3, <2>2
      <3>2. PICK freed : freed = Cleared(tag, i)
        OBVIOUS
      <3>3. freed = tag
        BY <1>1, <3>1, <3>2, ClearedIs
      <3>4. PICK at : at = find_free_space(freed, n)
        OBVIOUS
      <3>5. /\ Answer(n, ptr, Found(at))
            /\ \/ /\ at # SIZE_MAX /\ Claim(t, freed, at, n)
                  /\ \E m \in 0 .. n : heap' \in memcpy(at, ptr, m)
               \/ at = SIZE_MAX /\ UNCHANGED <<tag, tid, heap>>
        BY <1>2, <1>6, <3>2, <3>4, MoveTakes
      <3>6. at # SIZE_MAX => \A b \in Blocks : b \notin at .. at + n - 1 => heap'[b] = heap[b]
        <4>1. at # SIZE_MAX => at \in Blocks
          BY <1>1, <3>3, <3>4, FoundIsTyped
        <4> QED
          BY <1>1, <3>5, <4>1, CopyKeeps
      <3>7. ptr.block < NUM_BLOCKS /\ (ptr.block \in Blocks => tag[ptr.block] = 0)
        BY <1>6, <2>2 DEF can_realloc_free
      <3>8. Regions!Allocate(t, ptr, n)
        BY <3>3, <3>4, <3>5, <3>6, <3>7, NewRefines
      <3> QED
        BY <3>8 DEF Regions!AllocatorNext
    <2> QED
      BY <2>1, <2>2
  <1> QED
    BY <1>4, <1>5, <1>6 DEF k_realloc

\* k_free gives back a region of the thread's own, or does nothing.
LEMMA FreeRefines ==
    ASSUME HeapInv, NEW t \in Owners, NEW ptr \in Pointers, k_free(t, ptr)
    PROVE  Regions!AllocatorNext
  <1>1. PICK p : p = pointer_to_tag_idx(ptr)
    OBVIOUS
  <1>2. /\ Delimits(tag) /\ heap' = heap /\ NoAnswer
        /\ tag' = Cleared(tag, p) /\ tid' = Cleared(tid, p)
    BY <1>1, HeapInvIs DEF k_free
  <1>3. PICK now, tags2, tids2 :
            now = Held(tag, tid, heap) /\ tags2 = tag' /\ tids2 = tid'
    OBVIOUS
  <1>4. DOMAIN now = {i \in Blocks : tag[i] # 0}
    BY <1>3, HeldIs
  <1>5. /\ \A i \in Blocks : tags2[i] = IF i = p THEN 0 ELSE tag[i]
        /\ \A i \in Blocks : tids2[i] = IF i = p THEN 0 ELSE tid[i]
    BY <1>2, <1>3 DEF Cleared
  <1>6. Held(tags2, tids2, heap) = [a \in Heads(tags2) |-> Held(tag, tid, heap)[a]]
    BY <1>5, ClearTakes
  <1>7. Heads(tags2) = DOMAIN now \ {p}
    BY <1>4, <1>5 DEF Heads
  <1>8. Held(tag', tid', heap') = [a \in DOMAIN now \ {p} |-> now[a]]
    BY <1>2, <1>3, <1>6, <1>7
  <1>9. CASE p \in Blocks /\ tag[p] # 0
    <2>1. p = ptr.block /\ tid[p] = t
      <3>1. p = ptr.block
        BY <1>1, <1>9, IndexIs
      <3>2. PICK found \in TidsRead(ptr) : can_realloc_free(t, ptr, found)
        BY DEF k_free
      <3> QED
        BY <1>1, <1>9, <3>1, <3>2 DEF can_realloc_free, TidsRead, Read
    <2>2. now[p] = [owner |-> t, data |-> Data(heap, p, tag[p])]
      BY <1>3, <1>9, <2>1 DEF Held
    <2>3. p \in DOMAIN now /\ now[p].owner = t
      BY <1>4, <1>9, <2>2
    <2>4. Regions!Free(t, ptr)
      BY <1>2, <1>3, <1>8, <2>1, <2>3 DEF Regions!Free, Regions!Owns, Regions!Without,
            Regions!NoAnswer, Regions!Answer, NoAnswer, Answer, Held, Data
    <2> QED
      BY <2>4 DEF Regions!AllocatorNext
  <1>10. CASE ~(p \in Blocks /\ tag[p] # 0)
    <2>1. DOMAIN now \ {p} = DOMAIN now
      BY <1>4, <1>10
    <2>2. now = [a \in DOMAIN now |-> now[a]]
      BY <1>3 DEF Held
    <2>3. Held(tag', tid', heap') = now
      BY <1>8, <2>1, <2>2
    <2> QED
      BY <1>2, <1>3, <2>3 DEF Regions!AllocatorNext, Regions!NoAnswer, Regions!Answer,
            NoAnswer, Answer, Held, Data
  <1> QED
    BY <1>9, <1>10

\* k_free_all gives back every region of the thread, and no other.
LEMMA FreeAllRefines ==
    ASSUME HeapInv, NEW t \in Owners, k_free_all(t)
    PROVE  Regions!FreeAll(t)
  <1>1. Delimits(tag)
    BY HeapInvIs
  <1>6. PICK tags2 : tags2 = tag'
    OBVIOUS
  <1>8. \A i \in Blocks : tags2[i] = IF tid[i] = t THEN 0 ELSE tag[i]
    BY <1>1, <1>6, FreeAllTakes
  <1>9. PICK now : now = Held(tag, tid, heap)
    OBVIOUS
  <1>10. /\ DOMAIN now = {i \in Blocks : tag[i] # 0}
         /\ \A a \in Blocks : tag[a] # 0 =>
                now[a] = [owner |-> tid[a], data |-> Data(heap, a, tag[a])]
    BY <1>9, HeldIs
  <1>11. \A i \in Blocks : tags2[i] \in {0, tag[i]}
    BY <1>8
  <1>12. Held(tags2, tid, heap) = [a \in Heads(tags2) |-> Held(tag, tid, heap)[a]]
    BY <1>11, ClearTakes
  <1>13. Heads(tags2) = {b \in DOMAIN now : ~(b \in DOMAIN now /\ now[b].owner = t)}
    <2>1. ASSUME NEW b \in DOMAIN now PROVE now[b].owner = tid[b]
      <3>1. now[b] = [owner |-> tid[b], data |-> Data(heap, b, tag[b])]
        BY <1>10
      <3> QED
        BY <3>1
    <2> QED
      BY <1>8, <1>10, <2>1 DEF Heads
  <1>14. tid' = tid /\ heap' = heap /\ NoAnswer
    BY DEF k_free_all
  <1>15. Held(tag', tid', heap') =
             [a \in {b \in DOMAIN now : ~(b \in DOMAIN now /\ now[b].owner = t)} |-> now[a]]
    BY <1>6, <1>9, <1>12, <1>13, <1>14
  <1> QED
    BY <1>9, <1>14, <1>15 DEF Regions!FreeAll, Regions!Owns, Regions!NoAnswer,
          Regions!Answer, NoAnswer, Answer, Held, Data

\* What a thread writes in its region changes no other.
LEMMA WriteRefines ==
    ASSUME HeapInv, NEW t \in Owners, NEW i \in Blocks, NEW v \in Values, WriteBlock(t, i, v)
    PROVE  \E p \in Blocks : Regions!Write(t, p)
  <1>1. /\ Delimits(tag) /\ heap \in [Blocks -> Values] /\ i \in Nat
        /\ tag' = tag /\ tid' = tid /\ heap' = [heap EXCEPT ![i] = v] /\ NoAnswer
    BY HeapInvIs DEF WriteBlock, Blocks
  <1>2. PICK p \in 0 .. i : tid[p] = t /\ i < p + tag[p]
    BY DEF WriteBlock
  <1>3. p \in Blocks /\ p \in Nat /\ tag[p] \in Nat /\ tag[p] # 0 /\ p + tag[p] <= NUM_BLOCKS
    <2>1. p \in Blocks /\ p \in Nat
      BY <1>1, NumBlocksAssumption DEF Blocks
    <2>2. tag[p] \in Nat
      BY <1>1, <2>1, NumBlocksAssumption DEF Delimits
    <2>3. tag[p] # 0
      BY <1>1, <1>2, <2>1, <2>2
    <2> QED
      BY <1>1, <2>1, <2>2, <2>3 DEF Delimits
  <1>4. PICK k \in 1 .. tag[p] : k = i - p + 1
    BY <1>1, <1>2, <1>3
  <1>5. PICK now, next : now = Held(tag, tid, heap) /\ next = Held(tag', tid', heap')
    OBVIOUS
  <1>6. PICK hp2 : hp2 = heap'
    OBVIOUS
  <1>7. next = Held(tag, tid, hp2)
    BY <1>1, <1>5, <1>6
  <1>8. hp2[i] = v /\ \A j \in Blocks : j # i => hp2[j] = heap[j]
    BY <1>1, <1>6
  <1>9. /\ DOMAIN now = {b \in Blocks : tag[b] # 0}
        /\ \A a \in Blocks : tag[a] # 0 =>
                now[a] = [owner |-> tid[a], data |-> Data(heap, a, tag[a])]
    BY <1>5, HeldIs
  <1>10. /\ DOMAIN next = {b \in Blocks : tag[b] # 0}
         /\ \A a \in Blocks : tag[a] # 0 =>
                next[a] = [owner |-> tid[a], data |-> Data(hp2, a, tag[a])]
    BY <1>7, HeldIs
  <1>11. ASSUME NEW a \in Blocks, tag[a] # 0, a # p
         PROVE  Data(hp2, a, tag[a]) = Data(heap, a, tag[a])
    <2>1. /\ a \in Nat /\ tag[a] \in Nat /\ a + tag[a] <= NUM_BLOCKS
          /\ \A j \in a + 1 .. a + tag[a] - 1 : tag[j] = 0
          /\ \A j \in p + 1 .. p + tag[p] - 1 : tag[j] = 0
      BY <1>1, <1>3, <1>11, NumBlocksAssumption DEF Delimits, Blocks
    <2>2. ASSUME NEW l \in 1 .. tag[a] PROVE hp2[a + l - 1] = heap[a + l - 1]
      <3>1. PICK j \in Blocks : j = a + l - 1
        BY <2>1, NumBlocksAssumption DEF Blocks
      <3>2. a \notin p + 1 .. p + tag[p] - 1 /\ p \notin a + 1 .. a + tag[a] - 1
        BY <1>3, <1>11, <2>1
      <3>3. j # i
        BY <1>1, <1>2, <1>3, <1>11, <2>1, <3>1, <3>2
      <3> QED
        BY <1>8, <3>1, <3>3
    <2> QED
      BY <2>2 DEF Data
  <1>12. Data(hp2, p, tag[p]) = [Data(heap, p, tag[p]) EXCEPT ![k] = v]
    <2>1. ASSUME NEW l \in 1 .. tag[p]
          PROVE  hp2[p + l - 1] = IF l = k THEN v ELSE heap[p + l - 1]
      <3>1. PICK j \in Blocks : j = p + l - 1
        BY <1>3, NumBlocksAssumption DEF Blocks
      <3>2. j = i <=> l = k
        BY <1>1, <1>3, <1>4, <3>1
      <3> QED
        BY <1>8, <3>1, <3>2
    <2> QED
      BY <2>1 DEF Data
  <1>13. next = [now EXCEPT ![p].data[k] = v]
    <2>1. PICK r : r = [now[p] EXCEPT !.data[k] = v]
      OBVIOUS
    <2>2. r = [owner |-> tid[p], data |-> Data(hp2, p, tag[p])]
      <3>1. PICK d : d = Data(heap, p, tag[p])
        OBVIOUS
      <3>2. now[p] = [owner |-> tid[p], data |-> d]
        BY <1>3, <1>9, <3>1
      <3>3. r = [owner |-> tid[p], data |-> [d EXCEPT ![k] = v]]
        BY <2>1, <3>2
      <3> QED
        BY <1>12, <3>1, <3>3
    <2>3. \A a \in Blocks : tag[a] # 0 => next[a] = IF a = p THEN r ELSE now[a]
      BY <1>9, <1>10, <1>11, <2>2
    <2>4. next = [now EXCEPT ![p] = r]
      BY <1>3, <1>5, <1>7, <1>9, <1>10, <2>3 DEF Held
    <2> QED
      BY <2>1, <2>4
  <1>14. /\ p \in DOMAIN now /\ now[p].owner = t /\ Len(now[p].data) = tag[p]
    <2>1. now[p].owner = tid[p] /\ Len(now[p].data) = tag[p]
      BY <1>1, <1>3, <1>5, HeldFields
    <2> QED
      BY <1>2, <1>3, <1>9, <2>1
  <1>15. k \in 1 .. Len(now[p].data)
    BY <1>14
  <1>16. Regions!Owns(t, p)
    BY <1>5, <1>14 DEF Regions!Owns, Held, Data
  <1>17. Regions!NoAnswer
    BY <1>1 DEF Regions!NoAnswer, Regions!Answer, NoAnswer, Answer
  <1>18. Regions!Overwrites(now, p, next)
    BY <1>13, <1>15 DEF Regions!Overwrites
  <1>19. Regions!Write(t, p)
    BY <1>5, <1>16, <1>17, <1>18 DEF Regions!Write, Held, Data
  <1> QED
    BY <1>3, <1>19

\* At first no block is allocated.
LEMMA AllocatorStarts == HeapInit => Regions!AllocatorInit
  <1> SUFFICES ASSUME HeapInit PROVE Regions!AllocatorInit
    OBVIOUS
  <1>1. {i \in Blocks : tag[i] # 0} = {}
    BY DEF HeapInit
  <1>2. [a \in {i \in Blocks : tag[i] # 0} |->
            [owner |-> tid[a], data |-> [k \in 1 .. tag[a] |-> heap[a + k - 1]]]] = <<>>
    BY <1>1
  <1> QED
    BY <1>2 DEF HeapInit, Regions!AllocatorInit

\* The tags implement an allocator, for any number of blocks, threads and addresses:
\* what a thread was given it keeps, with what it wrote there, until it passes a
\* pointer into the first block of it, and NULL says that no space is large enough.
THEOREM TagsAreAnAllocator == HeapSpec => ImplementsAllocator
  <1>1. HeapInv /\ HeapInv' /\ [HeapNext]_heapVars
            => [Regions!AllocatorNext]_(Regions!allocatorVars)
    <2> SUFFICES ASSUME HeapInv, HeapInv', [HeapNext]_heapVars
                 PROVE  [Regions!AllocatorNext]_(Regions!allocatorVars)
      OBVIOUS
    <2>1. ASSUME NEW t \in Owners, k_free_all(t) PROVE Regions!AllocatorNext
      BY <2>1, FreeAllRefines DEF Regions!AllocatorNext
    <2>2. ASSUME NEW t \in Owners, NEW n \in Sizes, k_malloc(t, n) PROVE Regions!AllocatorNext
      <3>1. Regions!Allocate(t, NULL_PTR, n) /\ NULL_PTR \in Pointers
        BY <2>2, MallocRefines, HeapPointers
      <3> QED
        BY <3>1 DEF Regions!AllocatorNext
    <2>3. ASSUME NEW t \in Owners, NEW n \in Sizes, NEW p \in Pointers, k_realloc(t, p, n)
          PROVE  Regions!AllocatorNext
      BY <2>3, ReallocRefines
    <2>4. ASSUME NEW t \in Owners, NEW p \in Pointers, k_free(t, p) PROVE Regions!AllocatorNext
      BY <2>4, FreeRefines
    <2>5. ASSUME NEW t \in Owners, NEW p \in Blocks, NEW v \in Values, WriteBlock(t, p, v)
          PROVE  Regions!AllocatorNext
      <3>1. \E a \in Blocks : Regions!Write(t, a)
        BY <2>5, WriteRefines
      <3> QED
        BY <3>1 DEF Regions!AllocatorNext, Regions!Places, Blocks
    <2>6. CASE UNCHANGED heapVars
      BY <2>6 DEF heapVars, Regions!allocatorVars
    <2> QED
      BY <2>1, <2>2, <2>3, <2>4, <2>5, <2>6 DEF HeapNext
  <1> QED
    BY HeapInvInit, HeapInvStep, AllocatorStarts, <1>1, PTL
       DEF HeapSpec, ImplementsAllocator, Regions!AllocatorSpec
=============================================================================
