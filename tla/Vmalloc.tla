------------------------------- MODULE Vmalloc -------------------------------
(***************************************************************************)
(* The kernel's virtual memory allocator, mm/vmalloc.c, with the page      *)
(* tables of mm/paging.c under it and the page allocator Physical under    *)
(* both.  Its block descriptors come from kmalloc's smallest class and are *)
(* never freed, so of kmalloc only this is left: every DESC_PER_PAGE-th    *)
(* descriptor costs a page.                                                *)
(*                                                                         *)
(* vmalloc and vfree run one loop iteration at a time, so that each step   *)
(* takes or returns at most one page.  Nothing else runs during a call:    *)
(* no interrupt handler allocates memory.                                  *)
(***************************************************************************)
EXTENDS Integers, FiniteSets, SequencesExt

CONSTANTS
    PAGE_MEM_SIZE, BITS, PHYSICAL_LOW_MEM, physical_mem_size, free_mem_start,
    SYSTEM_HEAP_BASE,    \* the first virtual address of the heap
    WORD,                \* 2^32: the heap ends where addresses wrap to 0
    PAGE_BASIC_NUM,      \* entries of a page table
    DESC_PER_PAGE,       \* block descriptors kmalloc gets out of a page
    LowWords,            \* the frames that the words at physical address 0 name
    Requests             \* the sizes that are asked for

SYSTEM_HEAP_END == WORD - 1

ASSUME HeapAssumption ==
    /\ PAGE_BASIC_NUM \in Nat \ {0}
    /\ DESC_PER_PAGE \in Nat \ {0}
    /\ SYSTEM_HEAP_BASE \in Nat \ {0}
    /\ WORD \in Nat
    /\ SYSTEM_HEAP_BASE < WORD
    /\ SYSTEM_HEAP_BASE % (PAGE_MEM_SIZE * PAGE_BASIC_NUM) = 0
    /\ WORD % (PAGE_MEM_SIZE * PAGE_BASIC_NUM) = 0
    /\ physical_mem_size <= SYSTEM_HEAP_BASE
    /\ LowWords \subseteq Nat
    /\ Requests \subseteq 0 .. WORD - 1

VARIABLES
    bitmap, free_mem_size,
    blocks,              \* the list from p_vmem_block_head
    system_heap_start,
    page_dir,            \* the page table of each heap region, or NULL
    pte,                 \* base address of each heap page's entry, or NULL
    desc_pages,          \* the pages that hold the descriptors
    other,               \* the pages the rest of the kernel holds
    live,                \* history: the addresses returned and not yet freed
    lost,                \* history: frames whose entry was written over
    table_failed,        \* history: a page table could not be allocated
    call                 \* the call in progress

alloc_vars == <<bitmap, free_mem_size>>
history    == <<live, lost, table_failed>>
vars == <<bitmap, free_mem_size, blocks, system_heap_start, page_dir, pte,
          desc_pages, other, live, lost, table_failed, call>>

HeapPages == {a \in SYSTEM_HEAP_BASE .. SYSTEM_HEAP_END : a % PAGE_MEM_SIZE = 0}

Table(addr) == addr \div (PAGE_MEM_SIZE * PAGE_BASIC_NUM)
Tables      == {Table(a) : a \in HeapPages}

(* call.pc: "idle", then for vmalloc "page" and "map" in turn, and after a *)
(* failure or for vfree "unmap" and "release" in turn.  call.todo is       *)
(* alloc_page_num of the loops, call.frame the page in the code's hands.   *)
Idle == [pc |-> "idle", start |-> 0, pages |-> 0, todo |-> 0, frame |-> 0, fail |-> FALSE]

Frames == {pte[a] : a \in HeapPages}

Held ==
    [c \in {"vmalloc", "other"} |->
        IF c = "other" THEN other
        ELSE (Frames \cup {page_dir[t] : t \in Tables} \cup {call.frame}
                     \cup desc_pages \cup lost) \ {0}]

Mem == INSTANCE Physical WITH Clients <- {"vmalloc", "other"}, held <- Held

(* Memory is as physical_mem_init leaves it on a machine that has booted.  *)
ASSUME MemoryAssumption == Mem!SizeAssumption /\ Mem!BootAssumption

NULL == Mem!NULL

Init ==
    /\ Mem!physical_mem_init
    /\ blocks = <<>>
    /\ system_heap_start = SYSTEM_HEAP_BASE
    /\ page_dir = [t \in Tables |-> NULL]
    /\ pte = [a \in HeapPages |-> NULL]
    /\ desc_pages = {}
    /\ other = {}
    /\ live = {}
    /\ lost = {}
    /\ table_failed = FALSE
    /\ call = Idle

-----------------------------------------------------------------------------
(* do_mem_mapping and linear_to_physical.  A missing page table is made on *)
(* the way, even when an entry is only to be cleared.                      *)

(* Faulty: an entry that is cleared keeps its address.                     *)
MappingNotCleared(addr, frame) ==
    \/ /\ page_dir[Table(addr)] # NULL
       /\ pte' = IF frame = NULL THEN pte ELSE [pte EXCEPT ![addr] = frame]
       /\ UNCHANGED <<bitmap, free_mem_size, page_dir>>
    \/ /\ page_dir[Table(addr)] = NULL
       /\ Mem!alloc_mem_page # NULL
       /\ Mem!Take(Mem!alloc_mem_page)
       /\ page_dir' = [page_dir EXCEPT ![Table(addr)] = Mem!alloc_mem_page]
       /\ pte' = [pte EXCEPT ![addr] = frame]

do_mem_mapping(addr, frame) ==
    \/ /\ page_dir[Table(addr)] # NULL
       /\ pte' = [pte EXCEPT ![addr] = frame]
       /\ UNCHANGED <<bitmap, free_mem_size, page_dir>>
    \/ /\ page_dir[Table(addr)] = NULL
       /\ Mem!alloc_mem_page # NULL
       /\ Mem!Take(Mem!alloc_mem_page)
       /\ page_dir' = [page_dir EXCEPT ![Table(addr)] = Mem!alloc_mem_page]
       /\ pte' = [pte EXCEPT ![addr] = frame]

mapping_fails(addr) ==
    page_dir[Table(addr)] = NULL /\ Mem!alloc_mem_page = NULL

(* Without a page table the entry is read at physical address 0.           *)
linear_to_physical(addr) ==
    IF page_dir[Table(addr)] = NULL THEN LowWords ELSE {pte[addr]}

-----------------------------------------------------------------------------
(* The search for address space.                                           *)

mem_size_align(size) ==
    LET full == size \div PAGE_MEM_SIZE
    IN  ((IF size % PAGE_MEM_SIZE # 0 THEN full + 1 ELSE full) * PAGE_MEM_SIZE) % WORD

(* The free blocks that are large enough; the first of them is taken.      *)
Adaptable(n) ==
    {i \in DOMAIN blocks : blocks[i].is_free /\ blocks[i].alloc_page_num >= n}

FirstAdaptable(n) == CHOOSE i \in Adaptable(n) : \A j \in Adaptable(n) : i <= j

VmemBlock(start, n, free) ==
    [p_start_addr |-> start, alloc_page_num |-> n, is_free |-> free]

(* Faulty: the block that is cut keeps its size.                           *)
SplitKeepsSize(i, n) ==
    LET b == blocks[i]
        rest == b.alloc_page_num - n
    IN  InsertAt(blocks, i + 1, VmemBlock(b.p_start_addr + rest * PAGE_MEM_SIZE, n, FALSE))

(* The tail of block i becomes a block of its own, linked behind it.       *)
Split(i, n) ==
    LET b == blocks[i]
        rest == b.alloc_page_num - n
    IN  InsertAt([blocks EXCEPT ![i].alloc_page_num = rest], i + 1,
                 VmemBlock(b.p_start_addr + rest * PAGE_MEM_SIZE, n, FALSE))

(* kmalloc(sizeof(VMEM_BLOCK)).                                            *)
NewDescriptor ==
    IF Len(blocks) % DESC_PER_PAGE # 0
    THEN UNCHANGED <<bitmap, free_mem_size, desc_pages>>
    ELSE /\ Mem!alloc_mem_page # NULL
         /\ Mem!Take(Mem!alloc_mem_page)
         /\ desc_pages' = desc_pages \cup {Mem!alloc_mem_page}

Begin(start, n) ==
    /\ call' = [Idle EXCEPT !.pc = "page", !.start = start, !.pages = n]
    /\ UNCHANGED <<page_dir, pte, other, history>>

(* A free block of exactly the size asked for.                             *)
VmallocExact(n) ==
    LET i == FirstAdaptable(n) IN
    /\ Adaptable(n) # {}
    /\ blocks[i].alloc_page_num = n
    /\ Begin(blocks[i].p_start_addr, n)
    /\ UNCHANGED <<alloc_vars, blocks, system_heap_start, desc_pages>>

(* A larger free block is split.                                           *)
VmallocSplit(n) ==
    LET i == FirstAdaptable(n) IN
    /\ Adaptable(n) # {}
    /\ blocks[i].alloc_page_num # n
    /\ NewDescriptor
    /\ blocks' = Split(i, n)
    /\ Begin(blocks'[i + 1].p_start_addr, n)
    /\ UNCHANGED system_heap_start

HeapRoom(n) == n * PAGE_MEM_SIZE <= SYSTEM_HEAP_END - system_heap_start + 1

(* The heap grows.                                                         *)
VmallocGrow(n) ==
    /\ Adaptable(n) = {}
    /\ HeapRoom(n)
    /\ NewDescriptor
    /\ blocks' = <<VmemBlock(system_heap_start, n, FALSE)>> \o blocks
    /\ system_heap_start' = (system_heap_start + n * PAGE_MEM_SIZE) % WORD
    /\ Begin(system_heap_start, n)

(* A call that gives up before it has a block changes nothing.             *)
vmalloc(size) ==
    LET n == mem_size_align(size) \div PAGE_MEM_SIZE IN
    /\ call.pc = "idle"
    /\ system_heap_start >= SYSTEM_HEAP_BASE
    /\ n > 0
    /\ VmallocExact(n) \/ VmallocSplit(n) \/ VmallocGrow(n)

-----------------------------------------------------------------------------
(* The loops.  Addr(k) is the k-th page of the block, from 0.              *)

Addr(k) == call.start + k * PAGE_MEM_SIZE

SetFree(free) ==
    blocks' = [i \in DOMAIN blocks |->
                  IF blocks[i].p_start_addr = call.start
                  THEN [blocks[i] EXCEPT !.is_free = free] ELSE blocks[i]]

(* alloc_mem_page for the next page of the block.                          *)
TakeFrame ==
    /\ call.pc = "page"
    /\ call.todo < call.pages
    /\ Mem!alloc_mem_page # NULL
    /\ Mem!Take(Mem!alloc_mem_page)
    /\ call' = [call EXCEPT !.pc = "map", !.frame = Mem!alloc_mem_page]
    /\ UNCHANGED <<blocks, system_heap_start, page_dir, pte, desc_pages, other, history>>

(* Faulty: the loop is left without a mark that it failed.                 *)
BreakForgetsFailure == [call EXCEPT !.todo = call.pages]

BreakOut == [call EXCEPT !.pc = "undo", !.fail = TRUE]

(* No page is left: break out of the loop.                                 *)
OutOfFrames ==
    /\ call.pc = "page"
    /\ call.todo < call.pages
    /\ Mem!alloc_mem_page = NULL
    /\ call' = BreakOut
    /\ UNCHANGED <<alloc_vars, blocks, system_heap_start, page_dir, pte, desc_pages, other,
                   history>>

(* The page is mapped at its address; a frame that was still mapped there  *)
(* is forgotten.                                                           *)
MapFrame ==
    LET addr == Addr(call.todo) IN
    /\ call.pc = "map"
    /\ do_mem_mapping(addr, call.frame)
    /\ call' = [call EXCEPT !.pc = "page", !.todo = @ + 1, !.frame = NULL]
    /\ lost' = lost \cup ({pte[addr]} \ {NULL})
    /\ UNCHANGED <<blocks, system_heap_start, desc_pages, other, live, table_failed>>

(* Faulty: the failed page is tried again.                                 *)
RetryPage == [call EXCEPT !.pc = "page", !.frame = NULL, !.fail = TRUE]

(* The loop goes on after a mapping failed.                                *)
AfterMapFailure ==
    [call EXCEPT !.pc = "page", !.todo = @ + 1, !.frame = NULL, !.fail = TRUE]

MapFails ==
    /\ call.pc = "map"
    /\ mapping_fails(Addr(call.todo))
    /\ Mem!free_mem_page(call.frame)
    /\ call' = AfterMapFailure
    /\ table_failed' = TRUE
    /\ UNCHANGED <<blocks, system_heap_start, page_dir, pte, desc_pages, other, live, lost>>

(* Faulty: a block that is reused stays marked free.                       *)
DoneForgetsFlag ==
    /\ UNCHANGED blocks
    /\ live' = live \cup {call.start}

(* Success: the block is the caller's.                                     *)
Done ==
    /\ SetFree(FALSE)
    /\ live' = live \cup {call.start}

VmallocReturns ==
    /\ call.pc = "page"
    /\ call.todo = call.pages
    /\ ~ call.fail
    /\ Done
    /\ call' = Idle
    /\ UNCHANGED <<alloc_vars, system_heap_start, page_dir, pte, desc_pages, other, lost,
                   table_failed>>

LoopEndsAfterFailure ==
    /\ call.pc = "page"
    /\ call.todo = call.pages
    /\ call.fail
    /\ call' = [call EXCEPT !.pc = "undo"]
    /\ UNCHANGED <<alloc_vars, blocks, system_heap_start, page_dir, pte, desc_pages, other,
                   history>>

(* The entry of addr is read, then cleared; clearing fails without effect  *)
(* when it needs a page table and none can be had.                         *)
ClearEntry(addr, next) ==
    /\ \/ do_mem_mapping(addr, NULL)
       \/ mapping_fails(addr) /\ UNCHANGED <<alloc_vars, page_dir, pte>>
    /\ \E frame \in linear_to_physical(addr) :
          call' = [call EXCEPT !.pc = next, !.frame = frame]
    /\ UNCHANGED <<blocks, system_heap_start, desc_pages, other, history>>

(* The undo loop visits the pages todo - 2 down to 0 and leaves the last   *)
(* one that was mapped.                                                    *)
UndoPage == call.pc = "undo" /\ call.todo > 1 /\ ClearEntry(Addr(call.todo - 2), "undone")

UndoRelease ==
    /\ call.pc = "undone"
    /\ Mem!free_mem_page(call.frame)
    /\ call' = [call EXCEPT !.pc = "undo", !.todo = @ - 1, !.frame = NULL]
    /\ UNCHANGED <<blocks, system_heap_start, page_dir, pte, desc_pages, other, history>>

VmallocFails ==
    /\ call.pc = "undo"
    /\ call.todo <= 1
    /\ SetFree(TRUE)
    /\ call' = Idle
    /\ UNCHANGED <<alloc_vars, system_heap_start, page_dir, pte, desc_pages, other, history>>

(* vfree of an address vmalloc returned: every page of the block in turn.  *)
vfree(addr) ==
    LET i == CHOOSE j \in DOMAIN blocks : blocks[j].p_start_addr = addr IN
    /\ call.pc = "idle"
    /\ addr \in live
    /\ call' = [Idle EXCEPT !.pc = "free", !.start = addr, !.pages = blocks[i].alloc_page_num]
    /\ live' = live \ {addr}
    /\ UNCHANGED <<alloc_vars, blocks, system_heap_start, page_dir, pte, desc_pages, other, lost,
                   table_failed>>

FreePage == call.pc = "free" /\ call.todo < call.pages /\ ClearEntry(Addr(call.todo), "freed")

FreeRelease ==
    /\ call.pc = "freed"
    /\ Mem!free_mem_page(call.frame)
    /\ call' = [call EXCEPT !.pc = "free", !.todo = @ + 1, !.frame = NULL]
    /\ UNCHANGED <<blocks, system_heap_start, page_dir, pte, desc_pages, other, history>>

VfreeReturns ==
    /\ call.pc = "free"
    /\ call.todo = call.pages
    /\ SetFree(TRUE)
    /\ call' = Idle
    /\ UNCHANGED <<alloc_vars, system_heap_start, page_dir, pte, desc_pages, other, history>>

-----------------------------------------------------------------------------
(* Between calls the rest of the kernel uses the page allocator too.       *)
OtherAlloc ==
    /\ call.pc = "idle"
    /\ Mem!alloc_mem_page # NULL
    /\ Mem!Take(Mem!alloc_mem_page)
    /\ other' = other \cup {Mem!alloc_mem_page}
    /\ UNCHANGED <<blocks, system_heap_start, page_dir, pte, desc_pages, history, call>>

OtherFree ==
    /\ call.pc = "idle"
    /\ \E p \in other : /\ Mem!free_mem_page(p)
                        /\ other' = other \ {p}
    /\ UNCHANGED <<blocks, system_heap_start, page_dir, pte, desc_pages, history, call>>

(* The steps of a call in progress.                                        *)
Proceed ==
    \/ TakeFrame \/ OutOfFrames \/ MapFrame \/ MapFails \/ VmallocReturns
    \/ LoopEndsAfterFailure \/ UndoPage \/ UndoRelease \/ VmallocFails
    \/ FreePage \/ FreeRelease \/ VfreeReturns

Next ==
    \/ \E size \in Requests : vmalloc(size)
    \/ \E addr \in live : vfree(addr)
    \/ Proceed
    \/ OtherAlloc
    \/ OtherFree

Spec == Init /\ [][Next]_vars

(* A call in progress keeps running: nothing can hold the processor.       *)
FairSpec == Spec /\ WF_vars(Proceed)

-----------------------------------------------------------------------------
PagesOf(b) == {b.p_start_addr + k * PAGE_MEM_SIZE : k \in 0 .. b.alloc_page_num - 1}

(* Splitting and growing never lose or share address space: the blocks are *)
(* disjoint, and together they are the heap up to system_heap_start.       *)
BlocksTile ==
    /\ \A i, j \in DOMAIN blocks :
          i # j => PagesOf(blocks[i]) \cap PagesOf(blocks[j]) = {}
    /\ UNION {PagesOf(blocks[i]) : i \in DOMAIN blocks} =
          {a \in HeapPages : system_heap_start = 0 \/ a < system_heap_start}

(* Between calls, the blocks not marked free are those the callers own.    *)
BlocksMatchCallers ==
    call.pc = "idle" =>
        {blocks[i].p_start_addr : i \in {j \in DOMAIN blocks : ~ blocks[j].is_free}} = live

(* Memory that was returned stays usable until it is freed: each page of   *)
(* it is mapped to a frame of its own that is neither free nor used for a  *)
(* page table, a descriptor or by others.  (A page table that could not be *)
(* allocated ends this: the undo loop then frees frames it read from       *)
(* physical address 0.)                                                    *)
LiveBacked ==
    LET used  == UNION {PagesOf(blocks[i]) :
                          i \in {j \in DOMAIN blocks : blocks[j].p_start_addr \in live}}
        spare == bitmap \cup desc_pages \cup other \cup {page_dir[t] : t \in Tables}
    IN  table_failed \/
        /\ \A a \in used : pte[a] # NULL /\ pte[a] \notin spare
        /\ \A a \in used : \A b \in HeapPages \ {a} : pte[a] # pte[b]

(* Seen from the page allocator, vmalloc takes pages by alloc_mem_page and *)
(* returns only pages it holds, once each, as long as no page table could  *)
(* not be allocated.                                                       *)
MemSpecUntilTableFails ==
    Mem!Init /\ [][table_failed' \/ Mem!Next]_Mem!vars

(* Every call returns, also when memory runs out in the middle of it.      *)
CallsReturn == call.pc # "idle" ~> call.pc = "idle"

(* "if allocate fail, then release all allocated memory and disable        *)
(* virtaul memory mapping": a block that is free has no page mapped.       *)
FreeBlocksUnmapped ==
    call.pc = "idle" =>
        \A i \in DOMAIN blocks : blocks[i].is_free =>
            \A a \in PagesOf(blocks[i]) : pte[a] = NULL

=============================================================================
