\* a byte counts to 16; eight bytes in a sector of the FAT
CONSTANTS
    NIBBLE = 4
    SECTOR = 8
    FDBS = 3
    NAME_MAX = 2
    EXT_MAX = 2
    Disks <- TheDisks
    TestPath <- ThePath
    Calls <- SomeCalls
    LOST_MAX = 30
SPECIFICATION Spec
INVARIANTS
    HeapAccounted
    TablesLoaded
    SearchResolves
    ListComplete
PROPERTIES
    CallsReturn
CHECK_DEADLOCK FALSE
