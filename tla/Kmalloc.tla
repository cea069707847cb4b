------------------------------- MODULE Kmalloc -------------------------------
(***************************************************************************)
(* The kernel's small block allocator, mm/kmalloc.c.  A request is rounded *)
(* up to a size class; each class has a list of pages (nodes) cut into     *)
(* blocks of its size, and the free blocks of a page are chained through   *)
(* their own first word, a block being named by its index from 1.          *)
(*                                                                         *)
(* The pages come from Physical.  "other" is the rest of the kernel, which *)
(* takes and returns pages as well; "live" is history: the blocks that     *)
(* were handed out and not yet freed.                                      *)
(***************************************************************************)
EXTENDS Integers, FiniteSets, SequencesExt

CONSTANTS
    PAGE_MEM_SIZE, BITS, PHYSICAL_LOW_MEM, physical_mem_size, free_mem_start,
    BLOCK_NODE_SIZE,     \* the header at the start of a node's page
    block_entry,         \* the size classes: [block_size, block_total], by size
    Requests,            \* the sizes that are asked for
    WORD                 \* 2^32: free_block_num wraps

VARIABLES
    bitmap, free_mem_size,
    node_head,           \* per class, the pages of its list, first to last
    node,                \* the content of every page kmalloc holds
    live,
    other                \* the pages the rest of the kernel holds

vars == <<bitmap, free_mem_size, node_head, node, live, other>>

(* A page cut off its list is never returned, so it is still kmalloc's.    *)
Held == [c \in {"kmalloc", "other"} |-> IF c = "kmalloc" THEN DOMAIN node ELSE other]

Mem == INSTANCE Physical WITH Clients <- {"kmalloc", "other"}, held <- Held

Entries == DOMAIN block_entry

ASSUME MemoryAssumption == Mem!SizeAssumption /\ Mem!BootAssumption

ASSUME BlockAssumption ==
    /\ BLOCK_NODE_SIZE \in Nat \ {0}
    /\ Requests \subseteq Nat
    /\ WORD \in Nat \ {0}
    /\ PAGE_MEM_SIZE <= WORD
    /\ block_entry \in Seq([block_size : Nat \ {0}, block_total : Nat \ {0}])
    /\ \A e \in Entries :
          BLOCK_NODE_SIZE + block_entry[e].block_total * block_entry[e].block_size
             <= PAGE_MEM_SIZE
    /\ \A e, f \in Entries : e < f => block_entry[e].block_size < block_entry[f].block_size

-----------------------------------------------------------------------------
(* The largest request is that of the last class.                          *)
max_block_size == IF block_entry = <<>> THEN 0 ELSE Last(block_entry).block_size

(* The smallest class that holds the size.                                 *)
get_entry_index(size) ==
    CHOOSE e \in Entries : /\ size <= block_entry[e].block_size
                           /\ \A f \in 1 .. e - 1 : block_entry[f].block_size < size

Total(e) == block_entry[e].block_total

(* A new page chains its blocks from the second one on whether or not      *)
(* there is one, so the class of one block a page is left alone.  The      *)
(* kernel asks only for the smallest class (vmalloc.c:51, 104).            *)
ASSUME RequestAssumption ==
    \A size \in Requests \cap (1 .. max_block_size) : Total(get_entry_index(size)) >= 2

get_block_addr(e, page, idx) ==
    page + (idx - 1) * block_entry[e].block_size + BLOCK_NODE_SIZE

get_block_index(e, page, addr) ==
    (addr - page - BLOCK_NODE_SIZE) \div block_entry[e].block_size + 1

Block(e, page, idx) == [entry |-> e, addr |-> get_block_addr(e, page, idx)]

Bytes(b) == b.addr .. b.addr + block_entry[b.entry].block_size - 1

(* A page's header and the words of its free blocks.  The word of a block  *)
(* that is in use belongs to its owner and is not part of the record.      *)
NodeType(e) ==
    [free_block_idx : 0 .. Total(e), free_block_num : 0 .. Total(e),
     link : UNION {[F -> 0 .. Total(e)] : F \in SUBSET (1 .. Total(e))}]

(* Reading the word of a block that is not free, or that lies outside the  *)
(* page, yields whatever is there.                                         *)
Garbage == 0 .. 2
Word(p, i) ==
    IF i \in DOMAIN node[p].link THEN {node[p].link[i]} ELSE Garbage

Init ==
    /\ Mem!physical_mem_init
    /\ node_head = [e \in Entries |-> <<>>]
    /\ node = <<>>
    /\ live = {}
    /\ other = {}

-----------------------------------------------------------------------------
(* kmalloc: the first page of the class with a free block serves it.       *)

HasRoom(p) == node[p].free_block_idx # 0

(* Its place in the list, 0 when every page of the class is full.          *)
FirstRoomy(e) == SelectInSeq(node_head[e], HasRoom)

(* Faulty: the count of free blocks is not lowered.                        *)
PopUncounted(p, next) ==
    [free_block_idx |-> next,
     free_block_num |-> node[p].free_block_num,
     link |-> [i \in DOMAIN node[p].link \ {node[p].free_block_idx} |-> node[p].link[i]]]

Pop(p, next) ==
    [free_block_idx |-> next,
     free_block_num |-> (node[p].free_block_num - 1) % WORD,
     link |-> [i \in DOMAIN node[p].link \ {node[p].free_block_idx} |-> node[p].link[i]]]

kmalloc_exist(size) ==
    LET e == get_entry_index(size)
        p == node_head[e][FirstRoomy(e)]
    IN  /\ size \in 1 .. max_block_size
        /\ FirstRoomy(e) # 0
        /\ \E next \in Word(p, node[p].free_block_idx) :
              node' = [node EXCEPT ![p] = Pop(p, next)]
        /\ live' = live \cup {Block(e, p, node[p].free_block_idx)}
        /\ UNCHANGED <<bitmap, free_mem_size, node_head, other>>

(* A fresh page: block 1 is handed out at once, 2 is first in the chain.   *)
NewNode(e) ==
    [free_block_idx |-> 2,
     free_block_num |-> Total(e) - 1,
     link |-> [i \in 2 .. Total(e) |-> IF i = Total(e) THEN 0 ELSE i + 1]]

kmalloc_new(size) ==
    LET e == get_entry_index(size)
        p == Mem!alloc_mem_page
    IN  /\ size \in 1 .. max_block_size
        /\ FirstRoomy(e) = 0
        /\ p # Mem!NULL
        /\ Mem!Take(p)
        /\ node' = [q \in DOMAIN node \cup {p} |-> IF q = p THEN NewNode(e) ELSE node[q]]
        /\ node_head' = [node_head EXCEPT ![e] = Append(@, p)]
        /\ live' = live \cup {Block(e, p, 1)}
        /\ UNCHANGED other

(* kfree: the block's page is looked for in the lists.  An address that no *)
(* listed page contains is ignored.                                        *)

InPage(p, addr) == p < addr /\ addr < p + PAGE_MEM_SIZE

Push(p, idx) ==
    [free_block_idx |-> idx,
     free_block_num |-> (node[p].free_block_num + 1) % WORD,
     link |-> [i \in DOMAIN node[p].link \cup {idx} |->
                  IF i = idx THEN node[p].free_block_idx ELSE node[p].link[i]]]

(* Faulty: the list begins at the page that is given back.                 *)
UnlinkNothing(e, p) == node_head

(* p_prev_node stays NULL during the whole scan, so the list always begins *)
(* behind the page that is taken out: the pages before it are cut off.     *)
Unlink(e, p) ==
    LET list == node_head[e]
        at   == CHOOSE i \in DOMAIN list : list[i] = p
    IN  [node_head EXCEPT ![e] = SubSeq(list, at + 1, Len(list))]

(* Faulty: a page is given back while its last block is still in use.      *)
EmptyTooSoon(e, p) == node[p].free_block_num + 2 = Total(e)

(* Faulty: the comparison misses by one the other way.                     *)
NeverEmpty(e, p) == node[p].free_block_num = Total(e)

(* The block about to be freed was the last one in use.                    *)
BecomesEmpty(e, p) == (node[p].free_block_num + 1) % WORD = Total(e)

(* Faulty: the page is given back but stays in its list.                   *)
RetireKeepsPage(e, p) ==
    /\ Mem!free_mem_page(p)
    /\ UNCHANGED <<node_head, node>>

Retire(e, p) ==
    /\ Mem!free_mem_page(p)
    /\ node_head' = Unlink(e, p)
    /\ node' = [q \in DOMAIN node \ {p} |-> node[q]]

kfree(b) ==
    /\ b \in live
    /\ live' = live \ {b}
    /\ UNCHANGED other
    /\ \/ \E e \in Entries : \E p \in ToSet(node_head[e]) :
             /\ InPage(p, b.addr)
             /\ IF BecomesEmpty(e, p)
                THEN Retire(e, p)
                ELSE /\ node' = [node EXCEPT ![p] = Push(p, get_block_index(e, p, b.addr))]
                     /\ UNCHANGED <<bitmap, free_mem_size, node_head>>
       \/ /\ \A e \in Entries : \A p \in ToSet(node_head[e]) : ~ InPage(p, b.addr)
          /\ UNCHANGED <<bitmap, free_mem_size, node_head, node>>

-----------------------------------------------------------------------------
(* The rest of the kernel takes pages from the same allocator.             *)
OtherAlloc ==
    /\ Mem!alloc_mem_page # Mem!NULL
    /\ Mem!Take(Mem!alloc_mem_page)
    /\ other' = other \cup {Mem!alloc_mem_page}
    /\ UNCHANGED <<node_head, node, live>>

OtherFree ==
    /\ \E p \in other : /\ Mem!free_mem_page(p)
                        /\ other' = other \ {p}
    /\ UNCHANGED <<node_head, node, live>>

Next ==
    \/ \E size \in Requests : kmalloc_exist(size) \/ kmalloc_new(size)
    \/ \E b \in live : kfree(b)
    \/ OtherAlloc
    \/ OtherFree

Spec == Init /\ [][Next]_vars

-----------------------------------------------------------------------------
(* The indices met by following the chain from its head.                   *)
Chain(p) ==
    LET next(i) == IF i \in DOMAIN node[p].link THEN node[p].link[i] ELSE 0
        at[k \in Nat] == IF k = 0 THEN node[p].free_block_idx ELSE next(at[k - 1])
    IN  {at[k] : k \in 0 .. Cardinality(DOMAIN node[p].link)} \ {0}

(* The shape of the state: the lists hold kmalloc's pages, each once.      *)
TypeOK ==
    /\ Mem!TypeOK
    /\ \A p \in DOMAIN node : \E e \in Entries : node[p] \in NodeType(e)
    /\ \A e \in Entries : /\ IsInjective(node_head[e])
                          /\ ToSet(node_head[e]) \subseteq DOMAIN node
    /\ \A b \in live : b.entry \in Entries /\ b.addr \in Nat

(* A block in use lies wholly inside a page of kmalloc's, behind its       *)
(* header.                                                                 *)
LiveInPage ==
    \A b \in live : \E p \in DOMAIN node :
        Bytes(b) \subseteq p + BLOCK_NODE_SIZE .. p + PAGE_MEM_SIZE - 1

(* No byte is handed out twice, or outside kmalloc's pages, whatever the   *)
(* sizes and the order in which blocks are freed.                          *)
LiveDisjoint ==
    /\ LiveInPage
    /\ \A b, c \in live : b # c => Bytes(b) \cap Bytes(c) = {}

(* The free chain of a listed page runs through exactly those blocks that  *)
(* nobody uses, ends, and free_block_num is their number: no block is lost *)
(* from a page and none is both free and in use.                           *)
FreeChain ==
    \A e \in Entries : \A p \in ToSet(node_head[e]) :
        LET idle == {i \in 1 .. Total(e) : Block(e, p, i) \notin live}
        IN  /\ Chain(p) = idle
            /\ DOMAIN node[p].link = idle
            /\ node[p].free_block_num = Cardinality(idle)

(* A listed page is in use: the last free returns it, and no earlier one.  *)
PagesEarned ==
    \A e \in Entries : \A p \in ToSet(node_head[e]) : \E b \in live : InPage(p, b.addr)

(* kmalloc is a well-behaved client of the page allocator: it takes pages  *)
(* through alloc_mem_page and returns only pages it holds, once each.      *)
MemSpec == Mem!Spec

(* "scan every block node", says kfree: the page of every block in use can *)
(* be found by kfree, which needs it to be in its class's list.            *)
LiveBlocksFound ==
    \A b \in live : \E p \in ToSet(node_head[b.entry]) : InPage(p, b.addr)

=============================================================================
