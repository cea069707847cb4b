------------------------------- MODULE MemMap -------------------------------
(***************************************************************************)
(* Where physical_mem_size comes from: physical_mem_init adds up the       *)
(* lengths of the boot loader's memory map and reads neither the type nor  *)
(* the base address of an entry.  The sum is kept in 32 bits.  The         *)
(* allocator is that of Physical, given the sum as its memory size.        *)
(***************************************************************************)
EXTENDS Integers, FiniteSets, SequencesExt

CONSTANTS
    mmap,       \* the memory map: entries [BaseAddr, Length, Type]
    WORD,       \* 2^32
    PAGE_MEM_SIZE, BITS, PHYSICAL_LOW_MEM, free_mem_start, Clients

MB_ARD_MEMORY == 1

full_mem_size == FoldLeft(LAMBDA sum, e : (sum + e.Length) % WORD, 0, mmap)

VARIABLES bitmap, free_mem_size, held

Phys == INSTANCE Physical WITH physical_mem_size <- full_mem_size

Init == Phys!Init
Next == Phys!Next
Spec == Init /\ [][Next]_<<bitmap, free_mem_size, held>>

-----------------------------------------------------------------------------
Bytes(base, length) == base .. base + length - 1

(* The bytes of the machine that are memory, and not reserved by another   *)
(* entry of the map.                                                       *)
Usable ==
    UNION {Bytes(mmap[i].BaseAddr, mmap[i].Length) :
              i \in {j \in DOMAIN mmap : mmap[j].Type = MB_ARD_MEMORY}}

(* A page that is handed out lies in memory the map calls usable, as the   *)
(* comment on MB_ARD_MEMORY in mb_info.h says: "usable memory "Type", all  *)
(* others are reserved".                                                   *)
ReservedNeverAllocated ==
    \A c \in Clients : \A p \in held[c] : Bytes(p, PAGE_MEM_SIZE) \subseteq Usable

=============================================================================
