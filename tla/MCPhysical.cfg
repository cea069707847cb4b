\* 46 bytes of memory: five low pages, four high ones, the last of them incomplete
CONSTANTS
    PAGE_MEM_SIZE = 4
    BITS = 2
    PHYSICAL_LOW_MEM = 32
    physical_mem_size = 46
    free_mem_start = 5
    Clients = {kernel, driver}
SPECIFICATION Spec
SYMMETRY Symmetry
INVARIANTS
    TypeOK
    Exclusive
    Conserved
    FreeCountExact
    AllocComplete
    LowMemoryPolicy
