\* managed pages 12 .. 28; a heap of four pages under two page tables.
\* Calls that only answer NULL are no steps: the kernel may run out of memory for good.
CONSTANTS
    PAGE_MEM_SIZE = 4
    BITS = 2
    PHYSICAL_LOW_MEM = 24
    physical_mem_size = 32
    free_mem_start = 5
    SYSTEM_HEAP_BASE = 48
    WORD = 64
    PAGE_BASIC_NUM = 2
    DESC_PER_PAGE = 2
    LowWords = {20}
    Requests = {0, 4, 6, 12, 63}
SPECIFICATION FairSpec
INVARIANTS
    BlocksTile
    BlocksMatchCallers
    LiveBacked
PROPERTIES
    MemSpecUntilTableFails
    CallsReturn
CHECK_DEADLOCK FALSE
