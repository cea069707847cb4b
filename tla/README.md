# StupidKernel in TLA+

StupidKernel is a small 32-bit x86 kernel: loaded by GRUB, written in C with a
little assembly, one processor, one kernel thread of control plus interrupt
handlers. This directory specifies its core in TLA+, checks the specifications
with TLC on small instances and proves, with TLAPS and for every size, what matters most
of them: the three memory allocators, the scheduler, the use of memory by processes and by the
floppy driver, and the interrupt protocols of the drivers.

    tlc -config MCPhysical.cfg MCPhysical.tla      check a run
    tlapm PhysicalProofs.tla                       check the proofs

All runs, the definitions they check, the lines each definition models and the
hazards the properties are for are listed in `PROJECT.json`.

## 1. The system

`kernel_main` (kernel.c:58) calls the initialisers in a fixed order - console,
interrupts, memory, scheduler, floppy, keyboard, FAT12 - and then halts in a loop;
from there on everything happens in interrupt handlers. Interrupts are enabled
already by `interrupt_init` (interrupt.c:219), so keyboard and floppy handlers
interleave with the rest of the start-up, which is where nearly all of the
allocator, floppy and file system code runs. The build (build.bat) does not
optimise: every access to a variable is a load or a store.

| component | state | operations | talks to |
|---|---|---|---|
| physical pages, mm/physical.c | bitmap, free byte count, limits | physical_mem_init, alloc_low/high/mem_page, free_mem_page | multiboot memory map |
| blocks, mm/kmalloc.c | per size class a list of pages, in each page a chain of free blocks | kmalloc, kfree | physical pages |
| paging, mm/paging.c | page directory and tables | do_mem_mapping, linear_to_physical, system_page_init | physical pages |
| kernel heap, mm/vmalloc.c | list of address blocks, system_heap_start | vmalloc, vfree | paging, physical pages, kmalloc |
| scheduler, sched/sched.c | process list, current process | add_process, remove_process, schedule | segments (TSS) |
| processes, sched/process.c | pid counter | process_create | vmalloc, paging, physical pages |
| interrupts, interrupt/ | handler table; 8259A masks, requests, in-service bits | interrupt_init, interrupt_set_isr_handler, isr_dispatcher | drivers' handlers |
| console, console/console.c | video memory, position, cursor | console_put_char, console_printf | - |
| keyboard, drivers/keyboard.c | modifiers, prefix flag | keyboard_handler | console, interrupts |
| floppy and DMA, drivers/ | interrupt flag, motor, DMA channel | floppy_init, floppy_read, floppy_write | interrupts, low physical pages |
| FAT12, fs/fat12.c | FAT and root directory in memory | fat12_init, fat12_search_fdb, fat12_get_fs_list | floppy, vmalloc |
| segments, start-up, library | constant tables, no state of interest | | |

What is hard about it, and what makes each part correct:

- *Allocators.* Long sequences of calls by several clients. No page or block
  belongs to two owners, none is lost, counters and chains agree with what they
  count; a call that fails in the middle leaves nothing half done.
- *Scheduler.* Links and the current pointer under additions and removals in any
  order. The list is a queue, everybody runs, the links stay free of cycles.
- *Interrupts.* Two priority controllers, requests raised while others are
  served. Every request is served; nothing stays in service.
- *Keyboard and console.* A state machine fed one byte per interrupt; wrapping
  and scrolling at the edges. No modifier sticks, the screen shows the end of
  what was written.
- *Floppy.* A flag shared with a handler, a controller that fails, retries, DMA
  into a page that goes back to the allocator. Each wait gets its own interrupt,
  a call that answers 0 moved the right sectors, every call returns and cleans up.
- *FAT12.* Data read from the disk, chains followed through it, memory taken and
  given back on many paths. A search finds what the path names, a listing is
  complete, no memory is lost or freed twice, and every call returns.
- *Processes.* Up to seven allocations in a row, any of which may fail. Nothing taken is lost, and
  a process that is complete has its pages to itself.

## 2. The modules

| module | models | composed with |
|---|---|---|
| `Physical` | mm/physical.c | - |
| `PhysicalProofs`, `KmallocProofs`, `VmallocProofs`, `SchedProofs`, `InputProofs`, `FloppyProofs`, `ProcessProofs`, `Fat12Proofs` | theorems about `Physical`, `Kmalloc`, `Vmalloc`, `Sched`, `Interrupt` and `Keyboard` with `Console`, `Floppy`, `Process`, `Fat12` | |
| `MemMap` | the memory map as physical_mem_init reads it | extends `Physical` |
| `Kmalloc` | mm/kmalloc.c | `Physical`, with a second client |
| `Vmalloc` | mm/vmalloc.c, mm/paging.c | `Physical`, with a second client |
| `RoundRobin` | abstract: what a scheduler promises | |
| `Sched` | sched/sched.c | refines `RoundRobin` |
| `Interrupt` | interrupt/interrupt.c, the hardware stubs of isr.asm, the 8259A pair | |
| `Console` | console/console.c | |
| `Keyboard` | drivers/keyboard.c, a keyboard | extends `Console` |
| `Floppy` | drivers/floppy.c, drivers/dma.c, the controller | `Physical`, with a second client |
| `Fat12Disk` | a FAT12 disk by definition: its sectors, directories, names, what a path names | |
| `Fat12` | fs/fat12.c | extends `Fat12Disk`; a disk and a heap that may fail |
| `Process` | sched/process.c, mm/paging.c for the user stack | `Physical`, with a second client |

Each module `MC...` gives one of them small constants. Definitions whose comment
begins with "Faulty:" are not part of any specification: each is a mistake that
could be made in the code, and stands in for the definition below it to see that a
property notices.

**Granularity.** No interrupt handler allocates memory or touches the scheduler, so
one call of the page allocator, of kmalloc or of the scheduler is one step. vmalloc, vfree
and process_create run allocation by allocation, as the page allocator's specification allows one page
a step; the FAT12 calls loop iteration by loop iteration, since each may fail. Floppy runs from one access to shared state to the next: sending a command,
seeing the flag, clearing it. The keyboard's handler is one step, being a handler.

**Physical.** `bitmap` is the set of pages whose bit is set; `Scan` is the loop of
`alloc_physical_mem_page`, which works on bitmap *bytes* (`BITS` pages) and does not
look at its limits inside one. `held` is history. `BootAssumption` says that the
machine booted: the bitmap fits, a low page is managed, and memory does not end
inside the first page above `PHYSICAL_LOW_MEM`.

**Physical as an abstract specification.** Kmalloc, Vmalloc, Floppy and Process each define
what they hold from their own state (Process records it) and check `Mem!Spec` (or as much of it as holds): every
step of theirs is a step the page allocator allows a client, so a page is taken by
alloc, held by one, and freed by its holder once. Exclusive ownership, proved of
`Physical` for any clients, is thereby theirs.

**Kmalloc.** `node_head` are the lists, `node` the headers with the words of the free
blocks. Reading the word of a block that is not free gives anything. A page cut off
its list (see 5) stays in `node`: the code has lost it, the page allocator has not got it back.

**Vmalloc.** `call.pc` says where the call in progress stands: "page" and "map" are
the two halves of the allocation loop, "undo"/"undone" of the undo loop, "free"/"freed"
of vfree. `page_dir` and `pte` are the tables. `LowWords` is what the words at physical
address 0 may contain, where linear_to_physical reads when a table is missing.
Block descriptors come from kmalloc's smallest class and are never freed, so of
kmalloc only the page it takes for every `DESC_PER_PAGE`-th descriptor is left.

**Sched.** `p_next` holds the links, also of processes that were removed.
`strayed` becomes true when the *current* process is removed; line 44 of sched.c
compares where it should assign and line 52 can set the current process to NULL, so
round robin is claimed up to that point, and what remains true behind it is stated
apart (`NoCycle`, `FindsList`). A removed process is not added again.

**Interrupt.** `irr`, `isr`, `imr` are the registers of both controllers,
`Forwards` their priority rule, `SendEoi` the dispatcher's EOI. A handler does not
nest (interrupt gates). The spurious lines 7 and 15 are left out.

**Console and Keyboard.** `text` is everything written, `Lines` its reference layout.
The keyboard sends make, repeat and break bytes, with the prefix E0 for the keys that
have one. The two table entries a property depends on are real, the others
stand for "a character", lower and upper. The fake shift codes some keyboards wrap
around the cursor keys are left out.

**Floppy.** The controller (`Execute`) ends each command well or badly and raises
its interrupt; `floppy_handler` sets the flag; `Poll` and the step behind it are the
two halves of floppy_wait. Status registers are sets of bit numbers and `Noticed` is
what the tests `status & mask != 0` really look at. `dma_setup` leaves the three bytes of an
address in the channel's registers and the hardware reads them back as `DmaAddress`; `page_data` is what the
page of the call contains, which a transfer reaches only if that address is the page's. `disk` are the sectors. `unnoticed` records that the controller reported an error in a bit
the driver does not look at.

**Fat12Disk and Fat12.** Two readings of one disk. `Fat12Disk` says what the format
means: which entries a directory has along its chain, which long name belongs to an entry,
and what a path names (`Resolve`). It also lays the FAT out in bytes (`FatByte`), which is
all that `Fat12` gets to see: it takes the 12-bit entries apart again, walks the tables with an index
and a limit, reads long names backwards and guesses whether a chain goes on, as the code does.
The properties compare the two. `search` and `listing` are the local variables of
fat12_search_fdb and fat12_get_fs_list; a listing may contain a search. `floppy_read`
answers with the sectors or fails; that it does this rightly is the matter of `Floppy`. Blocks of
vmalloc are numbers, each allocation may fail, and a number that was freed is used again at
once, so a block freed twice takes somebody else's. Names are texts, sequences of characters: an entry has a
short name and an extension, padded with blanks where the code compares them (`Field`), and long names are put together from
blocks (at most three). `fat12_get_filename_len` and `fat12_cmp_filename` work on the characters as the code does, with lengths that count no dot;
`Fat12Disk` says by itself which names an entry answers to (`EntryNames`). After the three calls that end fat12_init, which are its only
callers today, `Begin` lets any caller search and list, one list at a time.

**Process.** `call.pc` runs through the allocations of process_create in their order.
`dirs` are the page directories with their tables and stack entries, `taken` the pages
allocated and not given back. The INT8U that is compared with -1 (line 96) shows in
`StackDone`: process_create goes on whether the stack was completed or undone. `CallerMaps` is the loop of
kernel.c:93-97, which maps memory to itself before the call, so that page tables for the stack may or may not be
there. `StackPages` is the argument of process_setup_user_stk. The only size the repository passes is DEF_USER_STK_SIZE, one page,
with which the undo loop never has a mapped page to give back; with the three pages of the run it has.

## 3. The runs

| run | question | bounds | distinct states |
|---|---|---|---|
| physical | ownership, conservation, the count, completeness of the scan | 9 managed pages, low and high, two clients; 2 pages a bitmap byte; last page incomplete | 9 800 |
| memmap | *violated:* reserved memory is never handed out | a PC's map scaled down | - |
| kmalloc | no byte twice, chains exact, pages returned with their last block | 3 pages, two size classes of 3 and 2 blocks | 109 000 |
| kmalloc_unlink | *violated:* kfree finds every block in use | same | - |
| vmalloc | backing, tiling, ownership, termination, use of the page allocator | heap of 4 pages under 2 tables, 5 frames | 745 000 |
| vmalloc_undo | *violated:* a free block has nothing mapped | same | - |
| sched | refinement of the queue, no cycles, everyone runs, the list is found again | 4 processes | 7 700 |
| interrupt | every request is served until the slave was used, the keyboard's always; only the cascade line stays in service | lines 1, 6, 12, each raised twice | 3 300 |
| keyboard | the screen, modifiers, the prefix | 6 keys, 4 key events, 5 characters, screen 2 by 2 | 400 000 |
| floppy | waits, DMA page, right sectors, every call returns with the motor off | 2 tracks, heads and sectors; 2 tries; 3 frames | 173 000 |
| fat12 | search and listing against the definition, memory, termination | 3 disks of 3 entries a sector; 40 searches, 35 listings, from 5 directories; names of 2 characters with extensions of 2 | 114 000 |
| process | no page lost, none shared, the undo of half a stack | 20 pages, 2 processes of 3 stack pages under 2 tables; others hold any number | 762 000 |

Why these bounds are enough to see the interesting cases. *physical*: the first
bitmap byte is only partly managed, the last page is incomplete, and clients can
exhaust either range.
*kmalloc*: three pages make a list with an inner page. *vmalloc*: five frames run out
at every point of a call (block pages, tables, descriptors), four heap pages allow a
block to be split, the request of 63 bytes overflows when it
is rounded up, and the heap can be used up, so that its address wraps to 0.
*sched*: four processes give a removed process that links to another removed one.
*keyboard*: five characters on four cells wrap, scroll and scroll
again. *floppy*: requests lie within a track, cross its end, and run off the
disk; a byte counts to 4, so floppy_write's INT8U sector number wraps. *fat12*: the disks hold directories of one to
three clusters whose links lie in both halves of a FAT byte, names that begin other names, names that differ in
the extension only, two of which each part begins that of the other ("G.T", "GG.TX"), long names of two blocks, with one dot and with two, deleted files of every kind, one and two FATs, reserved sectors and sectors in a cluster;
calls start in the root, in directories and deep in a chain, and go up, down and nowhere.
*process*: a whole process needs ten pages, so two whole ones fit; the rest of the kernel may hold
any number of pages, so a call fails at each of its allocations, the undo begins with none, one or two
pages mapped and with a page that found no table, and another process may be asked for after it. *memmap*: the
sum wraps at 1024 as the code's wraps at 4 GB; the map's sum does not reach it.

Deadlock checking is off where the model really ends: interrupt (devices raise
their lines a bounded number of times), keyboard (bounded events and characters),
vmalloc and process (memory can be exhausted for good) and fat12 (without a file system
nothing can be called).

**Fairness.** Weak fairness only, for what cannot be held up: the call in progress
(`Proceed` of Vmalloc and Fat12, `Driver` - one processor, no preemption), the delivery of an interrupt and
its handler, the controller's completion of a command, and `schedule` in the scheduler's own
liveness. None is assumed of clients, devices that raise lines, or users.
`CallsReturn` of Floppy therefore depends on a controller that answers;
floppy_wait (floppy.c:96) has no time limit, and without that assumption the
property is false. Fairness of `floppy_handler` also takes for granted that the master serves line 6. By `Interrupt`, that ends with
the first interrupt of the slave (section 5): behind it a floppy call would wait for ever. The kernel installs no
handler for a line of the slave, but does not mask them either, so `CallsReturn` holds as long as no device there raises its line.

## 4. What is proved

Each proof module states an inductive invariant, proves that every action keeps it, and
derives the properties the runs check. TLC checked the parts of each invariant first.

`PhysicalProofs` proves of `Physical`, for every page size, memory size, bitmap
width and set of clients that satisfy `SizeAssumption` and `BootAssumption`:

| theorem | |
|---|---|
| PhysicalTypeCorrect | TypeOK; the free count never goes below zero |
| PagesExclusive | no page has two owners, or an owner and a set bit |
| PagesConserved | free and held pages are all managed pages |
| CountExact | free_mem_size is the page size times the set bits |
| AllocationComplete | a request fails only when no page of its range is free |
| LowMemoryKept | low requests get low pages; others only when no high page is free |

The invariant is `IInv == TypeOK /\ Exclusive /\ Conserved /\ FreeCountExact`. None
of the last three is inductive alone: that the count stays exact when a page is freed
needs that the page's bit was clear (Exclusive), exclusiveness at an allocation needs
that the page found is a free one (`AllocFindsFreePage`), and conservation needs both
operations to change exactly one page. `GrantIInv` and `FreeIInv` are the two steps
that matter, since all three ways to allocate are `Grant` of a page that `Scan`
found. AllocationComplete and LowMemoryKept follow from IInv by arithmetic on bitmap
bytes: `GroupBase` is monotone, and `PHYSICAL_LOW_MEM` begins a byte
(`LowMemoryEndsGroup`), without which low requests could spill over.

Four modules use an instance of `Physical`. Three of them prove `MemSpec`, and Vmalloc
`MemSpecUntilTableFails`: each of their steps is a step `Physical` allows a client, or a stutter. The core is the same
everywhere: `OneOwner` (`OneUse` in Vmalloc) says that the pages of each use are apart from each other and from the free
ones, so what is freed is held, and `AllocAnswers` says that the allocator hands out a free page. (A theorem about
Physical cannot be cited for its instance in another module, hence these lemmas once more in each module.)

`KmallocProofs`: for every table of size classes and every sequence of requests, kmalloc's TypeOK,
`BlocksDisjoint`, `ChainsComplete`, `ListedPagesInUse` and `KmallocUsesAllocator`. In `KInv == OneOwner /\ Lists /\
Nodes /\ Homes /\ Chains`, `Lists` puts a page into one list once, `Homes` says that a block in use is the i-th
block of a page of its class, and `Chains` that the chain of a listed page is *some* order of its
unused blocks with an index for its end. Disjointness follows from `Homes` by the arithmetic of addresses; that `Homes` is kept
needs `Chains`, since the block handed out is the first of a chain and must be unused. Pages kfree has
cut off (see 5) keep their owner in OneOwner but have no chain any more, which is why nothing is claimed of it.
`RequestAssumption` says that requests are sizes, `MemoryAssumption` what Physical assumes and that the block sizes fit a page.

`VmallocProofs`: `VInv == Space /\ (table_failed \/ Memory)`. `Space` is about addresses: the blocks lie
side by side and fill the heap (`Tiles`), whose end may be the end of the address space, the call in progress is about one of them (`InBlock`), and
those not marked free are the callers' but for that one (`Owned`). It holds whatever fails, and gives `HeapTiled` and `CallersOwnBlocks`. `Memory`
is about frames: every page has one use, no frame is mapped twice, a mapped page has its table, and the pages of the block of a call that are
mapped *for certain* at each place of its loops (`Ready`). It holds until a page table cannot be allocated: from
then on linear_to_physical reads the words at address 0 and the undo loop frees what it finds there (see 5). `LiveMemoryBacked`
and `VmallocUsesAllocator` follow from it, and claim no more than that.

`SchedProofs`: for any number of processes, `LinksEnd` and `TakesTurns`. The list is *some* sequence of processes
that the links run through (`Queued`), which is also the refinement mapping to `RoundRobin`; a link, that of a process removed long ago too,
always leads upwards in *some* rank (`Ranked`). Each operation is matched by the witness it needs: an append, a sequence without one
member, a rank raised for the new process. The properties are stated with `Follow`, which is
recursive: `Iterates` and `WalkIs` give its solution in closed form, once, for any links. The argument needs
`Procs` to be finite.

`InputProofs`, of the interrupt controllers: with devices on any of the lines 0 to 12 and any number of requests, `OnlyCascadeStuck`.
The invariant `InService` says what is in service *while* a handler runs: the line it is for
and at most the cascade, and if the line is the master's it is the more urgent one, because the 8259A
would not have forwarded it otherwise. So `Eoi(Master)` ends that line and not the cascade. The theorem
assumes that no device is on the lines 13 to 15; for those it is false, since their stubs push another
number (isr.asm:84) and no EOI is sent.

`InputProofs`, of the keyboard: for every keyboard whose codes lie in the tables (`KeyboardAssumption`), and however many bytes wait in its queue,
`SwallowedBounded`, `PrefixedKeysPrintNothing` and `NoStickyModifier`. The driver lags behind the keys, so the invariant about the modifiers
relates the whole queue to the keys that are down: the last byte in it that concerns a modifier decides
what becomes of that one (`HeldInv`). For the prefix, a flag that is still set though the last byte was none is a detour that has not swallowed
its character yet (`PrefixInv`). For the console, and a screen of any size, `ScreenShowsTail`: `ConsoleInv` is the property with the text's lines
for any history. The lines are defined by recursion on the text, so that such a function exists and that it grows by
`Continued` with each character comes first (`LinesExist`, `LinesOfMore`, by the least counterexample); then a line break
shows what it should, scrolling if the screen is full (`ShowsNewLine`), and so does a character behind the last line (`ShowsChar`),
because no two places have one cell (`CellsApart`). A character that wraps is the one after the other.

`FloppyProofs`: `OneInterruptPerWait`, for every disk, set of errors and number of retries. The property
counts; the invariant `FInv` says *where* the one interrupt is (`Executing`, `Raised`, `Seen`) by the kind
of place the driver is at, and that the flag is already seen where it is about to be cleared. Each step of the driver is
then one of three: it sends when nothing is under way, clears what it has seen, or does neither.
`DInv == Shape /\ OneOwner /\ Prepared /\ Commanded` is about the DMA page: within a call the channel's registers spell the
page of the call (`Prepared`, by the arithmetic of three bytes, for which low memory must be within their reach: the 16 MB of
`FloppyAssumption`), and a transfer is only under way while the driver polls for it (`Commanded`). So `DmaIntoOwnPage`, and
with `OneOwner`, `MemSpec`. `DataInv` is about the sectors, for a disk of any format whose positions fit their bytes: what has been
stored or written so far is the first `Done` sectors of the request (`ReadSoFar`, `WrittenSoFar`), and the command under way is for the
next one, however often it is repeated (`Aimed`). It tells apart a sector that is on the disk from one the call knows of: between the end of a
good write and `Transferred` there is one more (`Written`). That the sector found is the one meant is `PositionFound` and
`NumberApart`: floppy_get_position is the inverse of the numbering. In a write that passes number 255 the INT8U falls
back to 0, behind the beginning of the request; from then on nothing is claimed. So `ReadReturnsSectors` and `WriteHitsSectors`.

`ProcessProofs`: `MemSpec`, that process_create is a client as Physical specifies it, for every size
of memory and stack, wherever an allocation fails. That the undo loop gives back only pages that are held, and each
once, needs that the entries below `call.todo` name different pages, all taken (`InHand`); that they
differ needs that the allocator hands out a page without an owner (`OneOwner`, `AllocAnswers`). A step is `Allowed` if
it is one of Physical's or a stutter and keeps `OneOwner`. `MemoryAssumption` asks of memory
what Physical assumes. `NoPageLost` and `PagesOfItsOwn` (`FramesAccounted`, `StacksApart`) need more than the call in progress: `UInv`
names each use of a page by its kind, the directory of the process and a number, and says that the pages taken are
those in use and that each has one use (`Exact`). Every step adds one use, drops one, or keeps all (`Adds`,
`Drops`, `Stays`); when a process is created its uses only change hands. `Owners` (a directory is of one process) keeps a new stack
out of the page tables of an older one, and `Built` says that a stack is complete or that nothing of it is left, which is what makes the
ignored -1 of process.c:96 harmless to the accounts.

`Fat12Proofs`: `HeapAccounted`, for every disk and call and wherever a read or an allocation fails. The property speaks of the time
between calls; `HeapInv == Places /\ Quiet /\ Owned` speaks of every step. `Owned` names six owners who share the heap and have
nothing in common: the mounted tables, the list of a caller, what is known to be lost, the buffer of the search, the buffer of the listing
and the nodes it has gathered. The last three are needed because a search may run within a listing, and because a list that
fails gives back its nodes and not the caller's. `Quiet` says when each of them is empty: without it a search could begin over the buffer of another, or a
listing end while its search holds one. Each step hands blocks from one owner to the next (`SearchMoves`, `ListMoves`), and a block
that is new is nobody's (`FreshBlock`).
`TablesLoaded`, for a disk of any geometry that `DiskAssumption` calls one: a table read sector by sector is the table (`PartsFlattened`: parts of
equal length put together, by the least counterexample, since FlattenSeq is recursive), the FAT and the root lie where the format puts them (`FatRead`, `RootRead`;
a sector in front of the clusters belongs to none, `NoClusterThere`), and a 12-bit entry is read back from the bytes it shares with its neighbour (`EntryRead`, `LinkFollowed`).

`SearchResolves`: what a path names is `Walk`, one start cluster for each component passed (`Resolve` is the last). `SearchInv` says where on it
a search is: while it parses, the current entry leads where the walk is after the components passed (`Leads`); while it scans, it is at an entry of that
directory's first cluster, and none before it is looked for (`NotYet`); at its end it has found what the walk ends at, or the walk ends nowhere
(`EndsAt`). Six facts carry the steps. A cluster that is read is the disk's (`ClusterRead`), and a directory is its clusters, one behind another
(`DirectoryIs`). The code's name of an entry, read backwards over whatever looks like a long name, is the format's if no deleted one lies there
(`IntactName`). For a name with at most one dot, between other characters, the code's lengths
are those of the name's two parts (`OrdinaryLengths`), and a short name is never taken for a long one
(`ShortIsNotLong`), so the comparison finds exactly the entries with that name among those `Searchable` admits (`Telling`). A name found is the only one (`LookupFinds`), and where the scan ends without it there is none (`LookupFails`). `Searchable` is the premise of
the property, not of the invariant's other parts: section 5 names the lines that make each of its conditions necessary.
`ListComplete`: `ListInv` adds where a listing is, in the root or in the m-th cluster of a chain with the index counted from its first (`At`), and that the names it has
are those of the visible entries it has passed (`Lists`, `Upto`), each as it is `Displayed`. An entry of a cluster has the name it has in the directory because no long name
crosses clusters (`SameName`, from `NamesIntact`); after the last entry of a cluster the link leads to the next of the chain or ends
it there (`ClusterAdvance`), and behind an unused entry nothing is visible (`NothingMore`). A listing by path takes over what `SearchInv` says of its search.
The walk and the list are defined by recursion; each is shown to exist by the least number for which it would not
(`WalkExists`, `ShownExists`), and the proofs cite its steps (`WalkIs`, `UptoIs`).

The assumptions are those of the format. `IsDisk`: tables fill their sectors, FAT entries lie in the FAT, the chain of every
directory ends and stays in clusters of directories, a directory's first entry is its own ".", no two entries of a directory have the same kind and a name in common, a short
name and its extension fit their fields and have no dot in them ("." and ".." aside), and a long name has at most three blocks.
`IsPath`: the components of a path are texts, and none is empty. TLC evaluates both on every disk and call of the run `fat12`. A disk with a cyclic chain is outside of them.

Only model-checked: liveness, which the prover does not handle (`CallsReturn`, `EveryoneRuns`, `FindsList`, `EveryRequestServed`). Every safety property of a passing run has a theorem.

## 5. Where the code and its comments part

Shown by runs:

- mm/physical.c:131 adds up all entries of the memory map, reserved ones included
  (mb_info.h:57 calls all others reserved): reserved memory is handed out. `memmap`
- mm/kmalloc.c:144 never moves p_prev_node, so returning a page that is not first cuts off
  the pages before it; blocks in them can no longer be freed. `kmalloc_unlink`
- mm/vmalloc.c:140 leaves the last mapped page mapped when a call fails, although the comment says
  all is released; the next use of the block forgets its frame. `vmalloc_undo`

Part of the models, which state what remains true all the same:

- interrupt/interrupt.c:133 sends a slave's EOI to the slave alone; from the first interrupt of the
  slave on, the master serves only line 1 (line 0 is masked). `EveryRequestServed` makes
  exactly this exception, and `OnlyCascadeStuck` shows that nothing else gets stuck.
- drivers/floppy.c:424: floppy_write takes the sector number as an INT8U, so a write behind sector 255 hits another sector.
  `WriteHitsSectors` follows the truncated number.
- drivers/floppy.c:313 (and every test like it) looks at bit 0, so a CRC error passes
  for success. `ReadReturnsSectors` leaves out reads with such an error (`unnoticed`).
- fat12.c:500: a search goes on along the chain of the directory it *began* in (none, from the
  root), and goes on at all only if the last entry of the table has a cluster (499). So a
  name is sure to be found only in the first cluster of each directory on the way: `Searchable`. A listing, line 653,
  does it right, and `ListComplete` asks it of every cluster.
- fat12.c:327-340: a short name and its extension are compared separately, each up to the length given: "G" finds "GG"
  and "G.TXT", "A.B" finds "AA.BC", if that comes first. `Searchable` asks that no other entry has a name *and* an extension
  that begin with those given (`Begins`).
- fat12.c:152-162, 289: the dots of a name are not counted, and one is added again. A long name with two dots
  ("archive.tar.gz"), or with a dot at its beginning or end, is therefore never found, and a short one with a dot in front has no length
  at all (272). `Searchable` asks for names with at most one dot, between other characters (`Ordinary`). A long name of the size of a short one is
  looked for as a short name only.
- fat12.c:295, 384: the long name of a deleted file next to another file's is taken for
  part of that one's. (The bit-field `end` is really the ordinal of the block, so
  names longer than three blocks stop at the fourth.)
- fat12.c:368-379: a listing shows a file's short name with a dot even if it has no extension, and a directory's without its
  extension. `ListComplete` says the first (`Displayed`) and leaves out directories with such an entry (`NamesShown`).
- fat12.c:462: whether the search is in the root is read off the *first entry* of the
  table, so on a disk whose root begins with a directory the search enters that one.
  fat12.h:55 takes the boot sector for the only reserved one.
- fat12.c:576 lists the root for *any* path that begins with "/"; a relative path that leads to the
  root (".." in a top directory) fails at line 91.
- fat12.c:436 gives the buffer to kfree, which knows nothing of it; 585 forgets it; the lists of 773 and 781
  are dropped. `HeapAccounted` counts these as `lost` and allows no other loss.
- fat12.c:520 reads is_match before it is set if the path is empty, 773 reads `file` although
  the search may have failed: any start cluster of 16 bits is possible in the model.
- process.c:96 compares an INT8U with -1, so a process whose stack could not be built is created with
  page tables that name frames given back; the clean-up behind it would free the wrong addresses. A kernel stack (93) or a
  TSS stack (110, 127) that could not be had is not looked at either.
  `FramesAccounted` and `StacksApart` say what such a process does not damage.

Seen while modelling, and described here without a run:

- kmalloc.c:85: in a class of one block a page, the chain starts at a block that does
  not exist. The kernel only uses the smallest class, and `Kmalloc` asks for none of one block (`RequestAssumption`).
- fat12.c:113: the last FAT entry may be read up to two bytes behind the table; no cluster of a
  disk has its entry there.
- kmalloc.c:60: an INT8U is compared with -1; the size check above makes it harmless.
- vmalloc.c:86, 112: once the heap address wrapped to 0, no request succeeds, even if
  a free block fits. vmalloc.c:129: the loop goes on after a mapping failed ("and
  stop", says its comment), so the undo works on pages that were never mapped.
- interrupt.c:181: "enable all interrupt" masks the timer. isr.asm:84-86 number the last three
  lines 48 to 50. interrupt.c:157 accepts one number too many.
- keyboard.c:120-125 is dead: right Ctrl and Alt return above (their code equals the left
  key's) and leave the prefix set, which swallows the next character.
- floppy.c:213 turns the motor off between seek and transfer. floppy.c:261-263 let one
  track and one head too many pass; reading past the last track then answers 0,
  since "no data" is an error nobody sees. floppy.c:325-331: -2 is never returned.
  The comments on floppy_motor_on and floppy_motor_off are swapped.

## 6. What is not modelled

- The TLB, CR3 and the enabling of paging; system_page_init. What a stale translation does
  depends on the instructions that touch the page, which no module here has.
- Code interrupted inside console_put_char, and registers the stubs do not save
  (isr.asm:15-23): both lie below the steps of these models. Since the stubs save no registers, what
  an interrupt leaves of the interrupted statement is anything at all, and nothing could be claimed.
- fat12.c's writing branches, which nothing reaches; long names of more than three blocks; what lies in memory in
  front of a table (its words are taken to be no long name); the fields dir_cluster_idx and fdb_idx of a result. Upper and lower case: the code turns the caller's short name
  to upper case (324), shows short names in lower case and compares long ones as they are; here letters have no case. A directory with a second
  attribute, which the code takes for a file (fat12.h:63-64, fat12.c:371).
- process_delete, which is empty.
- Clients that free twice or free what they do not own: free_mem_page counts such a
  page again and drifts. The clients modelled here are shown not to.
- CPU exceptions, descriptor layouts, segments, console_printf, the library, the start-up sequence
  (the Init of each module is the state it leaves), the boot code and the vendored tools.

Of the repository's 19 400 lines of C, some 14 500 are headers of the vendored cross
compiler under build_tools and no part of the kernel. Of the kernel's own 4 800 lines,
the modules stand for about 2 100; the rest is declarations, register sequences, tables, messages
and the components listed above.

## 7. Plan

Done: the allocators, the scheduler, interrupts, keyboard and console, floppy, FAT12, processes.

1. A page table with a TLB, and what may be read through a stale entry.
