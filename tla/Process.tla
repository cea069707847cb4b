------------------------------ MODULE Process ------------------------------
(***************************************************************************)
(* process_create and process_setup_user_stk of sched/process.c, over the  *)
(* page tables of the new process (mm/paging.c) and the page allocator     *)
(* Physical.  The caller gives each process a page directory of its own,   *)
(* as the code in kernel.c that is commented out does.  vmalloc, for the   *)
(* kernel stack, takes a page or fails.                                    *)
(*                                                                         *)
(* Every allocation may fail and all are in sequence, so a call runs from  *)
(* one to the next.  process_setup_user_stk answers its -1 as an INT8U,    *)
(* which process_create compares with -1: what is to happen when there is  *)
(* no stack never happens, and the process is created all the same.        *)
(***************************************************************************)
EXTENDS Integers, FiniteSets, SequencesExt

CONSTANTS
    PAGE_MEM_SIZE, BITS, PHYSICAL_LOW_MEM, physical_mem_size, free_mem_start,
    PAGE_BASIC_NUM,     \* entries of a page table
    StackPages,         \* pages of a user stack, DEF_USER_STK_SIZE rounded up
    DIRS_MAX,           \* bound: how many processes are asked for
    OTHER_MAX           \* bound: while the rest of the kernel holds more pages than
                        \* this, it frees the highest of them only

ASSUME ProcessAssumption ==
    PAGE_BASIC_NUM \in Nat \ {0} /\ StackPages \in Nat \ {0} /\ {DIRS_MAX, OTHER_MAX} \subseteq Nat

VARIABLES
    bitmap, free_mem_size,
    other,      \* the pages the rest of the kernel holds
    taken,      \* history: pages allocated by or for process.c, not freed yet
    dirs,       \* the page directories: their tables and stack entries
    procs,      \* the processes that were created
    call        \* the call of process_create in progress

vars == <<bitmap, free_mem_size, other, taken, dirs, procs, call>>

Mem == INSTANCE Physical WITH
           Clients <- {"process", "other"},
           held    <- [c \in {"process", "other"} |-> IF c = "other" THEN other ELSE taken]

(* Memory is as physical_mem_init leaves it on a machine that has booted.  *)
ASSUME MemoryAssumption == Mem!SizeAssumption /\ Mem!BootAssumption

NULL == Mem!NULL

Table(k) == k \div PAGE_BASIC_NUM
Stack    == 0 .. StackPages - 1

EmptyDir == [table |-> [t \in {Table(k) : k \in Stack} |-> NULL], pte |-> [k \in Stack |-> NULL]]

(* call.pages collects what the PROCESS_INFO points to; call.todo is       *)
(* alloc_page_cnt, call.frame the page that is about to be mapped.         *)
Idle == [pc |-> "idle", dir |-> NULL, pages |-> <<>>, todo |-> 0, frame |-> NULL, stack |-> TRUE]

Init ==
    /\ Mem!physical_mem_init
    /\ other = {} /\ taken = {}
    /\ dirs = <<>>
    /\ procs = <<>>
    /\ call = Idle

(* alloc_mem_page hands out p, or NULL.                                    *)
Take(p) ==
    IF p = NULL THEN UNCHANGED <<bitmap, free_mem_size, taken>>
    ELSE Mem!Take(p) /\ taken' = taken \cup {p}

Give(p) ==
    /\ Mem!free_mem_page(p)
    /\ taken' = taken \ {p}

At(pc) == call.pc = pc /\ UNCHANGED other

-----------------------------------------------------------------------------
(* The caller allocates a page directory and calls process_create.         *)
Begin ==
    LET p == Mem!alloc_mem_page IN
    /\ At("idle")
    /\ p # NULL
    /\ Cardinality(DOMAIN dirs) < DIRS_MAX
    /\ Take(p)
    /\ dirs' = [d \in DOMAIN dirs \cup {p} |-> IF d = p THEN EmptyDir ELSE dirs[d]]
    /\ call' = [Idle EXCEPT !.pc = "info", !.dir = p]
    /\ UNCHANGED procs

(* Before it calls, the caller may map memory to itself, from the bottom   *)
(* up and as far as it likes: the tables for the stack may be there when   *)
(* process_create begins.  (What they map is mapped anew before it is      *)
(* used, so it need not be kept.)                                          *)
CallerMaps ==
    LET p      == Mem!alloc_mem_page
        tables == dirs[call.dir].table
    IN  /\ At("info")
        /\ p # NULL
        /\ Take(p)
        /\ \E t \in DOMAIN tables :
              /\ tables[t] = NULL
              /\ \A s \in DOMAIN tables : s < t => tables[s] # NULL
              /\ dirs' = [dirs EXCEPT ![call.dir].table[t] = p]
        /\ UNCHANGED <<procs, call>>

(* A page for the PROCESS_INFO.  Without it process_create answers NULL.   *)
NewInfo ==
    LET p == Mem!alloc_mem_page IN
    /\ At("info")
    /\ Take(p)
    /\ call' = IF p = NULL THEN Idle ELSE [call EXCEPT !.pc = "kernel_stack", !.pages = <<p>>]
    /\ UNCHANGED <<dirs, procs>>

(* The kernel stack.  That vmalloc may have failed is not looked at.       *)
KernelStack ==
    /\ At("kernel_stack")
    /\ \E p \in {NULL, Mem!alloc_mem_page} :
          /\ Take(p)
          /\ call' = [call EXCEPT !.pc = "page", !.pages = Append(@, p)]
    /\ UNCHANGED <<dirs, procs>>

(* A page for the user stack.                                              *)
StackPage ==
    LET p == Mem!alloc_mem_page IN
    /\ At("page")
    /\ call.todo < StackPages
    /\ Take(p)
    /\ call' = IF p = NULL THEN [call EXCEPT !.pc = "undo", !.stack = FALSE]
                           ELSE [call EXCEPT !.pc = "map", !.frame = p]
    /\ UNCHANGED <<dirs, procs>>

(* Faulty: stk_mem_start is not moved on.                                  *)
MapAtBase(k) == 0

MapAt(k) == k

(* do_mem_mapping makes the page table on the way.                         *)
MapPage ==
    LET k == MapAt(call.todo)
        t == dirs[call.dir].table[Table(k)]
        p == IF t = NULL THEN Mem!alloc_mem_page ELSE NULL
    IN  /\ At("map")
        /\ t # NULL \/ p # NULL
        /\ Take(p)
        /\ dirs' = [dirs EXCEPT ![call.dir].pte[k] = call.frame,
                                ![call.dir].table[Table(k)] = IF t = NULL THEN p ELSE t]
        /\ call' = [call EXCEPT !.pc = "page", !.todo = @ + 1, !.frame = NULL]
        /\ UNCHANGED procs

(* No page table: the page is given back and the loop left.                *)
MapFails ==
    /\ At("map")
    /\ dirs[call.dir].table[Table(call.todo)] = NULL
    /\ Mem!alloc_mem_page = NULL
    /\ Give(call.frame)
    /\ call' = [call EXCEPT !.pc = "undo", !.frame = NULL, !.stack = FALSE]
    /\ UNCHANGED <<dirs, procs>>

(* Faulty: each time the first page is given back.                         *)
UndoFirst(n) == 0

(* Faulty: the page behind the last one that was mapped is given back.     *)
UndoBehind(n) == n

UndoAt(n) == n - 1

(* The undo loop: the page is given back and stays mapped.                 *)
Undo ==
    LET p == dirs[call.dir].pte[UndoAt(call.todo)] IN
    /\ At("undo")
    /\ call.todo > 0
    /\ IF p = NULL THEN UNCHANGED <<bitmap, free_mem_size, taken>> ELSE Give(p)
    /\ call' = [call EXCEPT !.todo = @ - 1]
    /\ UNCHANGED <<dirs, procs>>

(* process_setup_user_stk returns, and process_create goes on either way.  *)
StackDone ==
    /\ \/ At("page") /\ call.todo = StackPages
       \/ At("undo") /\ call.todo = 0
    /\ call' = [call EXCEPT !.pc = "esp0"]
    /\ UNCHANGED <<bitmap, free_mem_size, taken, dirs, procs>>

(* The stacks in the TSS, tss.esp0 and tss.esp; neither is looked at.      *)
TssStack(pc) ==
    LET p     == Mem!alloc_mem_page
        pages == Append(call.pages, p)
    IN  /\ At(pc)
        /\ Take(p)
        /\ IF pc = "esp0"
           THEN call' = [call EXCEPT !.pc = "esp", !.pages = pages] /\ UNCHANGED procs
           ELSE /\ call' = Idle
                /\ procs' = Append(procs, [dir |-> call.dir, pages |-> pages,
                                           stack |-> call.stack])
        /\ UNCHANGED dirs

-----------------------------------------------------------------------------
(* Between calls the rest of the kernel uses the page allocator too.       *)
OtherAlloc ==
    /\ call.pc = "idle"
    /\ Mem!alloc_mem_page # NULL
    /\ Mem!Take(Mem!alloc_mem_page)
    /\ other' = other \cup {Mem!alloc_mem_page}
    /\ UNCHANGED <<taken, dirs, procs, call>>

OtherFree ==
    /\ call.pc = "idle"
    /\ \E p \in other :
          /\ Cardinality(other) <= OTHER_MAX \/ \A q \in other : q <= p
          /\ Mem!free_mem_page(p)
          /\ other' = other \ {p}
    /\ UNCHANGED <<taken, dirs, procs, call>>

process_create ==
    \/ NewInfo \/ KernelStack \/ StackPage \/ MapPage \/ MapFails \/ Undo \/ StackDone
    \/ TssStack("esp0") \/ TssStack("esp")

Next == Begin \/ CallerMaps \/ process_create \/ OtherAlloc \/ OtherFree

Spec == Init /\ [][Next]_vars

-----------------------------------------------------------------------------
StackFrames(d) == {dirs[d].pte[k] : k \in Stack}

(* Between calls the pages taken are those some process or directory can   *)
(* be asked for: a stack that could not be completed leaves none behind,   *)
(* and none of a complete one was given back.  (The entries the undo loop  *)
(* leaves behind do not count: what they name is free.)                    *)
FramesAccounted ==
    LET infos  == UNION {ToSet(procs[i].pages) : i \in DOMAIN procs}
        stacks == UNION {StackFrames(procs[i].dir) : i \in {j \in DOMAIN procs : procs[j].stack}}
        tables == UNION {{dirs[d].table[Table(k)] : k \in Stack} : d \in DOMAIN dirs}
    IN  call.pc = "idle" => taken = (DOMAIN dirs \cup infos \cup stacks \cup tables) \ {NULL}

(* A process for which no allocation failed has its PROCESS_INFO, its      *)
(* kernel stack, both stacks of its TSS and every page of its user stack   *)
(* to itself: no two of them, its own or another process's, are one page,  *)
(* and none is free or in other use.                                       *)
StacksApart ==
    LET whole == {i \in DOMAIN procs : procs[i].stack /\ NULL \notin ToSet(procs[i].pages)}
        user(i) == [k \in 1 .. StackPages |-> dirs[procs[i].dir].pte[k - 1]]
        all(i)  == procs[i].pages \o user(i)
    IN  \A i \in whole : \A n \in DOMAIN all(i) :
          /\ all(i)[n] \notin bitmap \cup other \cup DOMAIN dirs \cup {NULL}
          /\ \A j \in whole : \A m \in DOMAIN all(j) :
                <<i, n>> # <<j, m>> => all(i)[n] # all(j)[m]

(* Seen from the page allocator, process.c takes pages by alloc_mem_page   *)
(* and returns only pages it holds, once each, also where it undoes half   *)
(* of a stack.                                                             *)
MemSpec == Mem!Spec

=============================================================================
