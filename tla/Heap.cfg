\* Two owners, three blocks with their data: enough for a realloc that moves
\* two blocks over themselves, and for holes that are too small.  Pointers to
\* the start and into the middle of each block, below and behind the heap.
CONSTANTS
    NUM_BLOCKS = 3
    BLOCK_SIZE = 2
    HEAP_BLOCK = 1
    ADDRESS_BLOCKS = 5
    Owners = {0, 1}
    Values = {0, 1}
    Sizes = {1, 2}
SPECIFICATION HeapSpec
INVARIANTS HeapTypeOK TagsDelimitAllocations
PROPERTIES ImplementsAllocator
