\* managed pages: 32, 48, 64; requests of both classes
CONSTANTS
    PAGE_MEM_SIZE = 16
    BITS = 2
    PHYSICAL_LOW_MEM = 64
    physical_mem_size = 80
    free_mem_start = 20
    BLOCK_NODE_SIZE = 4
    block_entry <- TwoClasses
    Requests = {0, 3, 4, 5, 7}
    WORD = 16
SPECIFICATION Spec
INVARIANTS
    TypeOK
    LiveDisjoint
    FreeChain
    PagesEarned
PROPERTIES
    MemSpec
