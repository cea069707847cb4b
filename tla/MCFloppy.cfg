\* one page of low memory, 60, and two of high memory, 64 and 68, past three bytes
CONSTANTS
    PAGE_MEM_SIZE = 4
    BITS = 2
    PHYSICAL_LOW_MEM = 64
    physical_mem_size = 72
    free_mem_start = 49
    heads = 2
    tracks = 2
    sectors = 2
    FLOPPY_RETRY_MAX = 2
    BYTE = 4
    Errors = {"address_mark", "not_writable", "crc"}
    Requests <- SomeRequests
SPECIFICATION Spec
INVARIANTS
    OneInterruptPerWait
    DmaIntoOwnPage
    ReadReturnsSectors
    WriteHitsSectors
PROPERTIES
    MemSpec
    CallsReturn
