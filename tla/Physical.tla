------------------------------ MODULE Physical ------------------------------
(***************************************************************************)
(* The physical page allocator of mm/physical.c: one bit per page, a scan  *)
(* that works bitmap byte by bitmap byte, and a counter of the free bytes. *)
(*                                                                         *)
(* Addresses are natural numbers and a page is named by its first address, *)
(* as in the code.  The bitmap is the set of the pages whose bit is 1.     *)
(* "held" is history: which client has been handed which pages.  Nothing   *)
(* here interleaves with itself, since no interrupt handler allocates, so  *)
(* every call is one step.                                                 *)
(***************************************************************************)
EXTENDS Integers, FiniteSets

CONSTANTS
    PAGE_MEM_SIZE,       \* bytes in a page
    BITS,                \* pages described by one byte of the bitmap (8)
    PHYSICAL_LOW_MEM,    \* the end of the memory the DMA controller reaches
    physical_mem_size,   \* bytes of memory, as physical_mem_init summed them
    free_mem_start,      \* where the kernel image ends
    Clients              \* the parts of the kernel that hold pages

GROUP_SIZE == PAGE_MEM_SIZE * BITS

ASSUME SizeAssumption ==
    /\ PAGE_MEM_SIZE \in Nat \ {0}
    /\ BITS \in Nat \ {0}
    /\ physical_mem_size \in Nat
    /\ free_mem_start \in Nat \ {0}
    /\ PHYSICAL_LOW_MEM \in Nat
    /\ PHYSICAL_LOW_MEM % GROUP_SIZE = 0

NULL == 0

-----------------------------------------------------------------------------
(* physical_mem_init: the bitmap sits behind the kernel image, the pages   *)
(* behind the bitmap are free up to the end of memory.                     *)

mem_bitmap_size == (physical_mem_size \div PAGE_MEM_SIZE) \div BITS + 1

AlignUp(addr) ==
    IF addr % PAGE_MEM_SIZE = 0
    THEN addr
    ELSE addr - (addr % PAGE_MEM_SIZE) + PAGE_MEM_SIZE

available_mem_start == AlignUp(free_mem_start + mem_bitmap_size)

(* Every page the allocator manages.  The last one may be incomplete.      *)
ManagedPages ==
    {a \in available_mem_start .. physical_mem_size - 1 : a % PAGE_MEM_SIZE = 0}

(* The machine has booted (no "cannot create memory bitmap" panic), some   *)
(* low page is managed, and memory does not end inside the first high page *)
ASSUME BootAssumption ==
    /\ mem_bitmap_size <= physical_mem_size - free_mem_start
    /\ available_mem_start + PAGE_MEM_SIZE <= PHYSICAL_LOW_MEM
    /\ available_mem_start + PAGE_MEM_SIZE <= physical_mem_size
    /\ \/ physical_mem_size <= PHYSICAL_LOW_MEM
       \/ physical_mem_size >= PHYSICAL_LOW_MEM + PAGE_MEM_SIZE

-----------------------------------------------------------------------------
VARIABLES
    bitmap,          \* the pages whose bit is set: the free ones
    free_mem_size,   \* the free bytes, counted apart
    held             \* history: the pages each client was handed and still has

vars == <<bitmap, free_mem_size, held>>

(* Faulty: the pages begin behind the kernel, where the bitmap sits.       *)
InitOverBitmap ==
    /\ bitmap = {a \in AlignUp(free_mem_start) .. physical_mem_size - 1 : a % PAGE_MEM_SIZE = 0}
    /\ free_mem_size = PAGE_MEM_SIZE * Cardinality(bitmap)

physical_mem_init ==
    /\ bitmap = ManagedPages
    /\ free_mem_size = PAGE_MEM_SIZE * Cardinality(ManagedPages)

Init ==
    /\ physical_mem_init
    /\ held = [c \in Clients |-> {}]

-----------------------------------------------------------------------------
(* The scan.  It visits the bytes from the one that describes "start"      *)
(* while the byte's first page lies below "end", and takes the first bit   *)
(* it finds: inside a byte neither limit is looked at again.               *)

GroupBase(addr) == GROUP_SIZE * (addr \div GROUP_SIZE)

First(pages) == CHOOSE p \in pages : \A q \in pages : p <= q

Scan(start, end) ==
    LET found == {p \in bitmap : /\ GroupBase(start) <= GroupBase(p)
                                 /\ GroupBase(p) < end}
    IN  IF found = {} THEN NULL ELSE First(found)

(* Faulty: a range that starts with the first managed page is refused.     *)
AllocStrict(mem_limit_start, mem_limit_end) ==
    LET end == IF mem_limit_end > physical_mem_size THEN physical_mem_size
                                                    ELSE mem_limit_end
    IN  IF \/ free_mem_size = 0
           \/ mem_limit_start > end - PAGE_MEM_SIZE
           \/ mem_limit_start <= available_mem_start
        THEN NULL
        ELSE Scan(mem_limit_start, end)

alloc_physical_mem_page(mem_limit_start, mem_limit_end) ==
    LET end == IF mem_limit_end > physical_mem_size THEN physical_mem_size
                                                    ELSE mem_limit_end
    IN  IF \/ free_mem_size = 0
           \/ mem_limit_start > end - PAGE_MEM_SIZE
           \/ mem_limit_start < available_mem_start
        THEN NULL
        ELSE Scan(mem_limit_start, end)

alloc_low_mem_page  == alloc_physical_mem_page(available_mem_start, PHYSICAL_LOW_MEM)
alloc_high_mem_page == alloc_physical_mem_page(PHYSICAL_LOW_MEM, physical_mem_size)

(* Faulty: low memory is used up first.                                    *)
AllocLowFirst ==
    IF alloc_low_mem_page # NULL THEN alloc_low_mem_page ELSE alloc_high_mem_page

alloc_mem_page ==
    IF alloc_high_mem_page # NULL THEN alloc_high_mem_page ELSE alloc_low_mem_page

(* Faulty: the bit of the page handed out stays set.                       *)
TakeKeepsBit(p) ==
    /\ UNCHANGED bitmap
    /\ free_mem_size' = free_mem_size - PAGE_MEM_SIZE

(* What a successful allocation of page p does to the allocator.           *)
Take(p) ==
    /\ bitmap' = bitmap \ {p}
    /\ free_mem_size' = free_mem_size - PAGE_MEM_SIZE

(* Faulty: the bits of the pages that follow in the byte are lost.         *)
FreeOverwritesByte(p) ==
    IF p < available_mem_start
    THEN UNCHANGED <<bitmap, free_mem_size>>
    ELSE /\ bitmap' = {q \in bitmap : GroupBase(q) # GroupBase(p)} \cup {p}
         /\ free_mem_size' = free_mem_size + PAGE_MEM_SIZE

(* Faulty: the counter is not given the page back.                         *)
FreeUncounted(p) ==
    IF p < available_mem_start
    THEN UNCHANGED <<bitmap, free_mem_size>>
    ELSE /\ bitmap' = bitmap \cup {p}
         /\ UNCHANGED free_mem_size

(* The bit is set and the counter raised whether or not the page was free; *)
(* an address below the managed memory (NULL among them) is ignored.       *)
free_mem_page(p) ==
    IF p < available_mem_start
    THEN UNCHANGED <<bitmap, free_mem_size>>
    ELSE /\ bitmap' = bitmap \cup {p}
         /\ free_mem_size' = free_mem_size + PAGE_MEM_SIZE

-----------------------------------------------------------------------------
(* A call that answers NULL changes nothing, so only the calls that hand a *)
(* page out are steps.                                                     *)

Grant(c, p) ==
    /\ p # NULL
    /\ Take(p)
    /\ held' = [held EXCEPT ![c] = @ \cup {p}]

AllocLow(c)  == Grant(c, alloc_low_mem_page)
AllocHigh(c) == Grant(c, alloc_high_mem_page)
Alloc(c)     == Grant(c, alloc_mem_page)

(* Clients give back what they were given.                                 *)
Free(c, p) ==
    /\ p \in held[c]
    /\ free_mem_page(p)
    /\ held' = [held EXCEPT ![c] = @ \ {p}]

Next == \E c \in Clients :
    \/ AllocLow(c)
    \/ AllocHigh(c)
    \/ Alloc(c)
    \/ \E p \in held[c] : Free(c, p)

Spec == Init /\ [][Next]_vars

-----------------------------------------------------------------------------
(* The shape of the state.                                                 *)
TypeOK ==
    /\ bitmap \subseteq ManagedPages
    /\ free_mem_size \in Nat
    /\ held \in [Clients -> SUBSET ManagedPages]

(* No page has two owners: what one client was handed is neither handed to *)
(* another one nor still marked free in the bitmap.                        *)
Exclusive ==
    \A c \in Clients :
        /\ held[c] \cap bitmap = {}
        /\ \A d \in Clients \ {c} : held[c] \cap held[d] = {}

(* No page is lost, and none appears from nowhere: the pages that are free *)
(* and those that are held are the pages physical_mem_init found.          *)
Conserved == bitmap \cup UNION {held[c] : c \in Clients} = ManagedPages

(* The counter agrees with the bitmap.  alloc_physical_mem_page trusts it  *)
(* to give up at once when it is zero.                                     *)
FreeCountExact == free_mem_size = PAGE_MEM_SIZE * Cardinality(bitmap)

(* The byte-wise scan and the two ranges overlook no free page: a request  *)
(* for any page fails only when none is free, one for a low page only when *)
(* no low page is free.                                                    *)
AllocComplete ==
    /\ alloc_mem_page = NULL => bitmap = {}
    /\ alloc_low_mem_page = NULL => \A p \in bitmap : p >= PHYSICAL_LOW_MEM

(* The pages the DMA controller reaches: alloc_low_mem_page answers only   *)
(* with such a page although the scan does not look at its limit inside a  *)
(* byte, and alloc_mem_page spends one only when no other page is free.    *)
LowMemoryPolicy ==
    /\ alloc_low_mem_page < PHYSICAL_LOW_MEM
    /\ alloc_mem_page \in 1 .. PHYSICAL_LOW_MEM - 1
          => \A p \in bitmap : p < PHYSICAL_LOW_MEM

=============================================================================
