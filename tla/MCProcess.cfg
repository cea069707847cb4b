\* a stack of three pages under two tables; 20 pages, and a whole process needs ten
CONSTANTS
    PAGE_MEM_SIZE = 4
    BITS = 2
    PHYSICAL_LOW_MEM = 32
    physical_mem_size = 100
    free_mem_start = 5
    PAGE_BASIC_NUM = 2
    StackPages = 3
    DIRS_MAX = 2
    OTHER_MAX = 1
SPECIFICATION Spec
INVARIANTS
    FramesAccounted
    StacksApart
PROPERTIES
    MemSpec
\* once all memory is held and DIRS_MAX processes exist, nothing may be left to do
CHECK_DEADLOCK FALSE
