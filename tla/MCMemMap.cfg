CONSTANTS
    mmap <- PcMap
    WORD = 1024
    PAGE_MEM_SIZE = 4
    BITS = 4
    PHYSICAL_LOW_MEM = 96
    free_mem_start = 66
    Clients = {kernel}
SPECIFICATION Spec
INVARIANTS
    ReservedNeverAllocated
