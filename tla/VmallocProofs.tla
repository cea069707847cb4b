---------------------------- MODULE VmallocProofs ----------------------------
(***************************************************************************)
(* vmalloc and vfree, for every size of memory and of the heap and every   *)
(* sequence of requests: the blocks tile the heap, those not marked free   *)
(* are the callers', and, until a page table cannot be allocated, memory   *)
(* in use is backed by frames of its own and the page allocator is used as *)
(* its specification allows.                                               *)
(*                                                                         *)
(* The invariant has two halves.  Space is about addresses and holds       *)
(* whatever happens; Memory is about frames and holds until the kernel has *)
(* to do without a page table.                                             *)
(***************************************************************************)
EXTENDS Vmalloc, SequenceTheorems, WellFoundedInduction, TLAPS

-----------------------------------------------------------------------------
(* The inductive invariant: the address space.                             *)

BlockType == [p_start_addr : Nat, alloc_page_num : Nat \ {0}, is_free : BOOLEAN]

CallType == [pc : {"idle", "page", "map", "undo", "undone", "free", "freed"},
             start : Nat, pages : Nat, todo : Nat, frame : Nat, fail : BOOLEAN]

Types ==
    /\ bitmap \in SUBSET Nat
    /\ blocks \in Seq(BlockType)
    /\ system_heap_start \in Nat
    /\ page_dir \in [Tables -> Nat]
    /\ pte \in [HeapPages -> Nat]
    /\ other \in SUBSET Nat
    /\ table_failed \in BOOLEAN
    /\ call \in CallType

(* The end of the heap so far, and of a block.                             *)
Top(start) == IF start = 0 THEN WORD ELSE start
End(b)     == b.p_start_addr + b.alloc_page_num * PAGE_MEM_SIZE

(* The blocks s fill the heap up to top, side by side.                     *)
Tiles(s, top) ==
    /\ top \in SYSTEM_HEAP_BASE .. WORD
    /\ top % PAGE_MEM_SIZE = 0
    /\ \A i \in 1 .. Len(s) :
          /\ s[i].p_start_addr % PAGE_MEM_SIZE = 0
          /\ SYSTEM_HEAP_BASE <= s[i].p_start_addr
          /\ End(s[i]) <= top
    /\ \A i, j \in 1 .. Len(s) :
          i # j => End(s[i]) <= s[j].p_start_addr \/ End(s[j]) <= s[i].p_start_addr
    /\ \A a \in HeapPages :
          a < top => \E i \in 1 .. Len(s) : s[i].p_start_addr <= a /\ a < End(s[i])

(* A call is about one block, and its loop stays in it.                    *)
InBlock ==
    IF call.pc = "idle"
    THEN call.start = 0 /\ call.frame = 0
    ELSE /\ \E i \in 1 .. Len(blocks) : /\ blocks[i].p_start_addr = call.start
                                        /\ blocks[i].alloc_page_num = call.pages
         /\ call.todo <= call.pages
         /\ call.pc \in {"map", "freed"} => call.todo < call.pages
         /\ call.pc = "undone" => call.todo > 1

(* The blocks not marked free are live, but for the one of the call.       *)
Used(s) == {s[i].p_start_addr : i \in {j \in 1 .. Len(s) : ~ s[j].is_free}}

Owned == call.start \notin live /\ Used(blocks) \ {call.start} = live

Space == Types /\ Tiles(blocks, Top(system_heap_start)) /\ InBlock /\ Owned

-----------------------------------------------------------------------------
(* The inductive invariant: the pages, as long as no page table was missed.*)

Mapped == Frames \ {NULL}
TablePages == {page_dir[t] : t \in Tables} \ {NULL}
InHand == {call.frame} \ {NULL}

(* No page is used twice.                                                  *)
Apart(b, m, t, h, d, l, o) ==
    /\ b \cup m \cup t \cup h \cup d \cup l \cup o \subseteq Mem!ManagedPages
    /\ b \cap m = {} /\ b \cap t = {} /\ b \cap h = {} /\ b \cap d = {} /\ b \cap l = {}
    /\ b \cap o = {} /\ m \cap t = {} /\ m \cap h = {} /\ m \cap d = {} /\ m \cap l = {}
    /\ m \cap o = {} /\ t \cap h = {} /\ t \cap d = {} /\ t \cap l = {} /\ t \cap o = {}
    /\ h \cap d = {} /\ h \cap l = {} /\ h \cap o = {} /\ d \cap l = {} /\ d \cap o = {}
    /\ l \cap o = {}

OneUse == Apart(bitmap, Mapped, TablePages, InHand, desc_pages, lost, other)

(* No frame is mapped at two addresses, and a mapped one has its table.    *)
Entries(e, d) ==
    /\ \A a, b \in HeapPages : e[a] # NULL /\ e[a] = e[b] => a = b
    /\ \A a \in HeapPages : e[a] # NULL => d[Table(a)] # NULL

(* The pages of the block of a call that are mapped for certain.           *)
Ready ==
    CASE call.pc \in {"page", "map"} -> {k \in Nat : k < call.todo}
      [] call.pc = "undo"            -> {k \in Nat : k + 1 < call.todo}
      [] call.pc = "undone"          -> {k \in Nat : k + 2 < call.todo}
      [] call.pc = "free"            -> {k \in Nat : call.todo <= k /\ k < call.pages}
      [] call.pc = "freed"           -> {k \in Nat : call.todo < k /\ k < call.pages}
      [] OTHER                       -> {}

ReadyMapped == \A k \in Ready : pte[Addr(k)] # NULL

(* So are those of the blocks of the callers.                              *)
LiveMapped ==
    \A i \in 1 .. Len(blocks) : blocks[i].p_start_addr \in live =>
        \A a \in PagesOf(blocks[i]) : pte[a] # NULL

(* A page is in the code's hands between two steps of a loop turn only.    *)
Marks ==
    /\ call.frame # NULL <=> call.pc \in {"map", "undone", "freed"}
    /\ call.pc \in {"page", "map"} => ~ call.fail

Memory == OneUse /\ Entries(pte, page_dir) /\ ReadyMapped /\ LiveMapped /\ Marks

VInv == Space /\ (table_failed \/ Memory)

-----------------------------------------------------------------------------
(* Arithmetic of addresses.                                                *)

LEMMA ProductGrows ==
    ASSUME NEW a \in Nat, NEW b \in Nat, a <= b, NEW s \in Nat
    PROVE  /\ a * s \in Nat
           /\ b * s \in Nat
           /\ a * s <= b * s
<1>1. PICK d \in Nat : b = a + d
  <2>1. b - a \in Nat /\ b = a + (b - a)
    OBVIOUS
  <2> QED BY <2>1
<1>2. b * s = (a * s) + (d * s)
  BY <1>1
<1>3. a * s \in Nat /\ d * s \in Nat
  OBVIOUS
<1> QED BY <1>2, <1>3

LEMMA Multiple ==
    ASSUME NEW a \in Nat, NEW p \in Nat \ {0}
    PROVE  a % p = 0 <=> \E m \in Nat : a = m * p
<1>1. ASSUME a % p = 0 PROVE \E m \in Nat : a = m * p
  <2>1. a \div p \in Nat /\ a = (p * (a \div p)) + (a % p)
    OBVIOUS
  <2>2. a = (a \div p) * p
    BY <1>1, <2>1
  <2> QED BY <2>1, <2>2
<1>2. ASSUME NEW m \in Nat, a = m * p PROVE a % p = 0
  <2>1. (m * p) % p = 0
    OBVIOUS
  <2> QED BY <1>2, <2>1
<1> QED BY <1>1, <1>2

(* The heap begins and ends at page boundaries.                            *)
LEMMA HeapType ==
    /\ PAGE_MEM_SIZE \in Nat \ {0}
    /\ SYSTEM_HEAP_BASE \in Nat \ {0}
    /\ WORD \in Nat
    /\ SYSTEM_HEAP_BASE < WORD
    /\ SYSTEM_HEAP_BASE % PAGE_MEM_SIZE = 0
    /\ WORD % PAGE_MEM_SIZE = 0
    /\ HeapPages = {a \in Nat : SYSTEM_HEAP_BASE <= a /\ a < WORD /\ a % PAGE_MEM_SIZE = 0}
<1>1. /\ PAGE_MEM_SIZE \in Nat \ {0}
      /\ PAGE_BASIC_NUM \in Nat \ {0}
      /\ SYSTEM_HEAP_BASE \in Nat \ {0}
      /\ WORD \in Nat
      /\ SYSTEM_HEAP_BASE < WORD
      /\ SYSTEM_HEAP_BASE % (PAGE_MEM_SIZE * PAGE_BASIC_NUM) = 0
      /\ WORD % (PAGE_MEM_SIZE * PAGE_BASIC_NUM) = 0
  BY HeapAssumption, MemoryAssumption DEF Mem!SizeAssumption
<1>2. PAGE_MEM_SIZE * PAGE_BASIC_NUM \in Nat \ {0}
  BY <1>1
<1>3. ASSUME NEW a \in Nat, a % (PAGE_MEM_SIZE * PAGE_BASIC_NUM) = 0
      PROVE  a % PAGE_MEM_SIZE = 0
  <2>1. PICK m \in Nat : a = m * (PAGE_MEM_SIZE * PAGE_BASIC_NUM)
    BY <1>2, <1>3, Multiple
  <2>2. m * (PAGE_MEM_SIZE * PAGE_BASIC_NUM) = (m * PAGE_BASIC_NUM) * PAGE_MEM_SIZE
    BY <1>1
  <2>3. m * PAGE_BASIC_NUM \in Nat
    BY <1>1
  <2> QED BY <1>1, <2>1, <2>2, <2>3, Multiple
<1>4. HeapPages = {a \in Nat : SYSTEM_HEAP_BASE <= a /\ a < WORD /\ a % PAGE_MEM_SIZE = 0}
  BY <1>1 DEF HeapPages, SYSTEM_HEAP_END
<1> QED BY <1>1, <1>3, <1>4

(* n pages behind a page boundary there is another one.                    *)
LEMMA Behind ==
    ASSUME NEW a \in Nat, a % PAGE_MEM_SIZE = 0, NEW n \in Nat
    PROVE  /\ n * PAGE_MEM_SIZE \in Nat
           /\ a + n * PAGE_MEM_SIZE \in Nat
           /\ (a + n * PAGE_MEM_SIZE) % PAGE_MEM_SIZE = 0
<1>1. PAGE_MEM_SIZE \in Nat \ {0}
  BY HeapType
<1>2. PICK m \in Nat : a = m * PAGE_MEM_SIZE
  BY <1>1, Multiple
<1>3. a + n * PAGE_MEM_SIZE = (m + n) * PAGE_MEM_SIZE
  BY <1>1, <1>2
<1>4. n * PAGE_MEM_SIZE \in Nat /\ m + n \in Nat /\ (m + n) * PAGE_MEM_SIZE \in Nat
  BY <1>1
<1> QED BY <1>1, <1>3, <1>4, Multiple

(* The pages of n pages from a on.                                         *)
LEMMA PagesFrom ==
    ASSUME NEW a \in Nat, a % PAGE_MEM_SIZE = 0, NEW n \in Nat
    PROVE  /\ \A x \in Nat : x % PAGE_MEM_SIZE = 0 /\ a <= x /\ x < a + n * PAGE_MEM_SIZE
                 => \E k \in 0 .. n - 1 : x = a + k * PAGE_MEM_SIZE
           /\ \A k \in 0 .. n - 1 : /\ a + k * PAGE_MEM_SIZE \in Nat
                                    /\ (a + k * PAGE_MEM_SIZE) % PAGE_MEM_SIZE = 0
                                    /\ a <= a + k * PAGE_MEM_SIZE
                                    /\ a + k * PAGE_MEM_SIZE < a + n * PAGE_MEM_SIZE
<1> DEFINE P == PAGE_MEM_SIZE
<1>1. P \in Nat \ {0}
  BY HeapType
<1>2. ASSUME NEW x \in Nat, x % P = 0, a <= x, x < a + n * P
      PROVE  \E k \in 0 .. n - 1 : x = a + k * P
  <2>1. PICK i \in Nat : a = i * P
    BY <1>1, Multiple
  <2>2. PICK j \in Nat : x = j * P
    BY <1>1, <1>2, Multiple
  <2> HIDE DEF P
  <2>3. i <= j
    <3>1. CASE j + 1 <= i
      <4>1. (j + 1) * P <= i * P
        BY <1>1, <3>1, ProductGrows
      <4>2. (j + 1) * P = (j * P) + P /\ j * P \in Nat /\ i * P \in Nat
        BY <1>1
      <4> QED BY <1>1, <1>2, <2>1, <2>2, <4>1, <4>2
    <3>2. CASE ~ (j + 1 <= i)
      BY <3>2
    <3> QED BY <3>1, <3>2
  <2>4. j < i + n
    <3>1. CASE i + n <= j
      <4>1. (i + n) * P <= j * P
        BY <1>1, <3>1, ProductGrows
      <4>2. (i + n) * P = (i * P) + (n * P) /\ i * P \in Nat /\ n * P \in Nat /\ j * P \in Nat
        BY <1>1
      <4> QED BY <1>2, <2>1, <2>2, <4>1, <4>2
    <3>2. CASE ~ (i + n <= j)
      BY <3>2
    <3> QED BY <3>1, <3>2
  <2>5. PICK k \in Nat : j = i + k
    <3>1. j - i \in Nat /\ j = i + (j - i)
      BY <2>3
    <3> QED BY <3>1
  <2>6. x = a + k * P
    <3>1. (i + k) * P = (i * P) + (k * P)
      BY <1>1
    <3> QED BY <2>1, <2>2, <2>5, <3>1
  <2>7. k \in 0 .. n - 1
    BY <2>4, <2>5
  <2> QED BY <2>6, <2>7
<1>3. ASSUME NEW k \in 0 .. n - 1
      PROVE  /\ a + k * P \in Nat
             /\ (a + k * P) % P = 0
             /\ a <= a + k * P
             /\ a + k * P < a + n * P
  <2>1. k \in Nat /\ k + 1 <= n
    OBVIOUS
  <2>2. k * P \in Nat /\ a + k * P \in Nat /\ (a + k * P) % P = 0
    BY <2>1, Behind
  <2> HIDE DEF P
  <2>3. (k + 1) * P <= n * P /\ n * P \in Nat
    BY <1>1, <2>1, ProductGrows
  <2>4. (k + 1) * P = (k * P) + P
    BY <1>1, <2>1
  <2> QED BY <1>1, <2>2, <2>3, <2>4
<1> QED BY <1>2, <1>3 DEF P

(* The pages of a block are those between its ends.                        *)
LEMMA PagesOfBlock ==
    ASSUME NEW b \in BlockType, b.p_start_addr % PAGE_MEM_SIZE = 0,
           SYSTEM_HEAP_BASE <= b.p_start_addr, End(b) <= WORD
    PROVE  /\ PagesOf(b) = {a \in HeapPages : b.p_start_addr <= a /\ a < End(b)}
           /\ End(b) \in Nat
           /\ b.p_start_addr < End(b)
           /\ b.p_start_addr \in HeapPages
<1> DEFINE s == b.p_start_addr
           n == b.alloc_page_num
           P == PAGE_MEM_SIZE
<1>1. s \in Nat /\ n \in Nat \ {0} /\ P \in Nat \ {0} /\ s % P = 0
      /\ SYSTEM_HEAP_BASE \in Nat /\ WORD \in Nat
  BY HeapType DEF BlockType
<1>2. PagesOf(b) = {s + k * P : k \in 0 .. n - 1} /\ End(b) = s + n * P
  BY DEF PagesOf, End
<1> HIDE DEF s, n
<1>3. /\ \A x \in Nat : x % P = 0 /\ s <= x /\ x < s + n * P => \E k \in 0 .. n - 1 : x = s + k * P
      /\ \A k \in 0 .. n - 1 : /\ s + k * P \in Nat
                               /\ (s + k * P) % P = 0
                               /\ s <= s + k * P
                               /\ s + k * P < s + n * P
  BY <1>1, PagesFrom
<1>4. n * P \in Nat /\ s + n * P \in Nat
  BY <1>1, Behind
<1> HIDE DEF P
<1>5. SYSTEM_HEAP_BASE <= s /\ s + n * P <= WORD
  BY <1>2 DEF s
<1>6. HeapPages = {a \in Nat : SYSTEM_HEAP_BASE <= a /\ a < WORD /\ a % P = 0}
  BY HeapType DEF P
<1>7. ASSUME NEW k \in 0 .. n - 1
      PROVE  s + k * P \in HeapPages /\ s <= s + k * P /\ s + k * P < s + n * P
  <2> DEFINE x == s + k * P
             e == s + n * P
  <2>1. x \in Nat /\ x % P = 0 /\ s <= x /\ x < e /\ e \in Nat /\ e <= WORD
    BY <1>3, <1>4, <1>5
  <2> HIDE DEF x, e
  <2>2. SYSTEM_HEAP_BASE <= x /\ x < WORD
    BY <1>1, <1>5, <2>1
  <2>3. x \in HeapPages
    BY <1>6, <2>1, <2>2
  <2> QED BY <2>1, <2>3 DEF x, e
<1>8. PagesOf(b) = {a \in HeapPages : s <= a /\ a < End(b)}
  <2>1. ASSUME NEW a \in HeapPages, s <= a, a < s + n * P
        PROVE  a \in {s + k * P : k \in 0 .. n - 1}
    <3>1. a \in Nat /\ a % P = 0
      BY <1>6
    <3> QED BY <1>3, <2>1, <3>1
  <2>2. {s + k * P : k \in 0 .. n - 1} = {a \in HeapPages : s <= a /\ a < s + n * P}
    BY <1>7, <2>1
  <2> QED BY <1>2, <2>2
<1>9. s < s + n * P
  <2>1. 1 * P <= n * P
    BY <1>1, ProductGrows
  <2>2. 1 * P = P
    BY <1>1
  <2> QED BY <1>1, <1>4, <2>1, <2>2
<1>10. s < WORD
  BY <1>1, <1>4, <1>5, <1>9
<1>11. s \in HeapPages
  BY <1>1, <1>5, <1>6, <1>10
<1> QED BY <1>2, <1>4, <1>8, <1>9, <1>11 DEF s

-----------------------------------------------------------------------------
(* How the list of the blocks changes.                                     *)

LEMMA SeqFacts ==
    ASSUME NEW S, NEW s \in Seq(S)
    PROVE  /\ Len(s) \in Nat
           /\ DOMAIN s = 1 .. Len(s)
           /\ \A i \in 1 .. Len(s) : s[i] \in S
OBVIOUS

LEMMA OneElement ==
    ASSUME NEW S, NEW e \in S
    PROVE  <<e>> \in Seq(S) /\ Len(<<e>>) = 1 /\ <<e>>[1] = e
OBVIOUS

(* The ends of the blocks, as numbers.                                     *)
LEMMA Ends ==
    ASSUME NEW s \in Seq(BlockType), NEW top, Tiles(s, top)
    PROVE  /\ Len(s) \in Nat
           /\ top \in Nat
           /\ top <= WORD
           /\ \A i \in 1 .. Len(s) :
                 /\ s[i] \in BlockType
                 /\ s[i].p_start_addr \in HeapPages
                 /\ s[i].p_start_addr \in Nat
                 /\ s[i].p_start_addr # 0
                 /\ End(s[i]) \in Nat
                 /\ s[i].p_start_addr < End(s[i])
                 /\ End(s[i]) <= top
                 /\ PagesOf(s[i]) = {a \in HeapPages : s[i].p_start_addr <= a /\ a < End(s[i])}
<1>1. Len(s) \in Nat /\ \A i \in 1 .. Len(s) : s[i] \in BlockType
  BY SeqFacts
<1>2. top \in Nat /\ top <= WORD /\ WORD \in Nat /\ SYSTEM_HEAP_BASE \in Nat \ {0}
  BY HeapType DEF Tiles
<1>3. ASSUME NEW i \in 1 .. Len(s)
      PROVE  /\ s[i].p_start_addr \in HeapPages
             /\ s[i].p_start_addr \in Nat
             /\ s[i].p_start_addr # 0
             /\ End(s[i]) \in Nat
             /\ s[i].p_start_addr < End(s[i])
             /\ End(s[i]) <= top
             /\ PagesOf(s[i]) = {a \in HeapPages : s[i].p_start_addr <= a /\ a < End(s[i])}
  <2> DEFINE b == s[i]
  <2>1. b \in BlockType
    BY <1>1
  <2>2. b.p_start_addr % PAGE_MEM_SIZE = 0 /\ SYSTEM_HEAP_BASE <= b.p_start_addr
        /\ End(b) <= top
    BY DEF Tiles
  <2>3. b.p_start_addr \in Nat /\ b.alloc_page_num \in Nat
    BY <2>1 DEF BlockType
  <2>4. End(b) \in Nat
    BY <2>2, <2>3, Behind DEF End
  <2> HIDE DEF b
  <2>5. End(b) <= WORD
    BY <1>2, <2>2, <2>4
  <2>6. /\ PagesOf(b) = {a \in HeapPages : b.p_start_addr <= a /\ a < End(b)}
        /\ b.p_start_addr < End(b)
        /\ b.p_start_addr \in HeapPages
    BY <2>1, <2>2, <2>5, PagesOfBlock
  <2>7. b.p_start_addr # 0
    BY <1>2, <2>2, <2>3
  <2> QED BY <2>2, <2>3, <2>4, <2>6, <2>7 DEF b
<1> QED BY <1>1, <1>2, <1>3

(* No two blocks begin at the same address.                                *)
LEMMA StartsDiffer ==
    ASSUME NEW s \in Seq(BlockType), NEW top, Tiles(s, top),
           NEW i \in 1 .. Len(s), NEW j \in 1 .. Len(s)
    PROVE  s[i].p_start_addr = s[j].p_start_addr => i = j
<1>1. /\ s[i].p_start_addr \in Nat /\ End(s[i]) \in Nat /\ s[i].p_start_addr < End(s[i])
      /\ s[j].p_start_addr \in Nat /\ End(s[j]) \in Nat /\ s[j].p_start_addr < End(s[j])
  BY Ends
<1>2. i # j => End(s[i]) <= s[j].p_start_addr \/ End(s[j]) <= s[i].p_start_addr
  BY DEF Tiles
<1> QED BY <1>1, <1>2

(* Marking a block moves none.                                             *)
LEMMA TilesSame ==
    ASSUME NEW s \in Seq(BlockType), NEW top, Tiles(s, top), NEW t, Len(t) = Len(s),
           \A i \in 1 .. Len(s) : /\ t[i].p_start_addr = s[i].p_start_addr
                                  /\ t[i].alloc_page_num = s[i].alloc_page_num
    PROVE  Tiles(t, top)
<1>1. \A i \in 1 .. Len(s) : End(t[i]) = End(s[i])
  BY DEF End
<1> QED BY <1>1 DEF Tiles

(* A block is cut in two.                                                  *)
IsSplit(t, i, n) ==
    /\ t \in Seq(BlockType)
    /\ Len(t) = Len(blocks) + 1
    /\ \A j \in 1 .. i - 1 : t[j] = blocks[j]
    /\ t[i] = [blocks[i] EXCEPT !.alloc_page_num = @ - n]
    /\ t[i + 1] = VmemBlock(End(t[i]), n, FALSE)
    /\ End(t[i + 1]) = End(blocks[i])
    /\ End(t[i]) % PAGE_MEM_SIZE = 0
    /\ \A j \in i + 2 .. Len(blocks) + 1 : t[j] = blocks[j - 1]

LEMMA SplitIs ==
    ASSUME blocks \in Seq(BlockType), NEW i \in 1 .. Len(blocks), NEW n \in Nat \ {0},
           n < blocks[i].alloc_page_num, blocks[i].p_start_addr % PAGE_MEM_SIZE = 0
    PROVE  IsSplit(Split(i, n), i, n)
<1> DEFINE m == Len(blocks)
           b == blocks[i]
           rest == b.alloc_page_num - n
           c == [b EXCEPT !.alloc_page_num = rest]
           new == VmemBlock(b.p_start_addr + rest * PAGE_MEM_SIZE, n, FALSE)
           r == [blocks EXCEPT ![i].alloc_page_num = rest]
           t == Split(i, n)
<1>1. /\ m \in Nat /\ b \in BlockType /\ i \in 1 .. m
      /\ \A j \in 1 .. m : blocks[j] \in BlockType
  BY SeqFacts
<1>2. b.p_start_addr \in Nat /\ b.alloc_page_num \in Nat \ {0} /\ b.is_free \in BOOLEAN
      /\ rest \in Nat \ {0} /\ rest + n = b.alloc_page_num
  BY <1>1 DEF BlockType
<1>3. c \in BlockType /\ c.p_start_addr = b.p_start_addr /\ c.alloc_page_num = rest
  BY <1>1, <1>2 DEF BlockType
<1>4. b.p_start_addr + rest * PAGE_MEM_SIZE = End(c)
  BY <1>3 DEF End
<1>5. End(c) \in Nat /\ End(c) % PAGE_MEM_SIZE = 0
  <2> HIDE DEF rest, b
  <2> QED BY <1>2, <1>4, Behind DEF b
<1>6. new = VmemBlock(End(c), n, FALSE) /\ new \in BlockType
  BY <1>4, <1>5 DEF VmemBlock, BlockType
<1>7. End(new) = End(b)
  <2>1. End(new) = (b.p_start_addr + rest * PAGE_MEM_SIZE) + n * PAGE_MEM_SIZE
    BY DEF End, VmemBlock
  <2>2. End(b) = b.p_start_addr + b.alloc_page_num * PAGE_MEM_SIZE
    BY DEF End
  <2> DEFINE a == b.p_start_addr
             k == b.alloc_page_num
  <2>3. a \in Nat /\ k \in Nat /\ rest \in Nat /\ rest + n = k /\ PAGE_MEM_SIZE \in Nat
    BY <1>2, HeapType
  <2> HIDE DEF a, k, rest
  <2>4. (a + rest * PAGE_MEM_SIZE) + n * PAGE_MEM_SIZE = a + (rest + n) * PAGE_MEM_SIZE
    BY <2>3
  <2> QED BY <2>1, <2>2, <2>3, <2>4 DEF a, k
<1>8. /\ r \in Seq(BlockType) /\ Len(r) = m /\ r[i] = c
      /\ \A j \in 1 .. m : j # i => r[j] = blocks[j]
  <2>1. r = [blocks EXCEPT ![i] = c]
    OBVIOUS
  <2> HIDE DEF c, r
  <2> QED BY <1>1, <1>3, <2>1
<1> HIDE DEF m, b, rest, c, new, r
<1>9. t = InsertAt(r, i + 1, new)
  BY DEF Split, r, rest, b, new
<1>10. t = SubSeq(r, 1, i) \o <<new>> \o SubSeq(r, i + 1, m)
  <2>1. (i + 1) - 1 = i
    BY <1>1
  <2> QED BY <1>8, <1>9, <2>1 DEF InsertAt
<1> DEFINE u == SubSeq(r, 1, i)
           v == SubSeq(r, i + 1, m)
<1>11. u \in Seq(BlockType) /\ Len(u) = i /\ \A j \in 1 .. i : u[j] = r[j]
  BY <1>1, <1>8
<1>12. v \in Seq(BlockType) /\ Len(v) = m - i /\ \A j \in 1 .. m - i : v[j] = r[i + j]
  BY <1>1, <1>8
<1> HIDE DEF u, v
<1>13. /\ u \o <<new>> \in Seq(BlockType)
       /\ Len(u \o <<new>>) = i + 1
       /\ \A j \in 1 .. i + 1 : (u \o <<new>>)[j] = IF j <= i THEN r[j] ELSE new
  <2>1. u \in Seq(BlockType) /\ <<new>> \in Seq(BlockType) /\ Len(<<new>>) = 1 /\ <<new>>[1] = new
    BY <1>6, <1>11, OneElement
  <2> DEFINE w == <<new>>
  <2> HIDE DEF w
  <2>2. /\ u \o w \in Seq(BlockType)
        /\ Len(u \o w) = Len(u) + Len(w)
        /\ \A j \in 1 .. Len(u) + Len(w) : (u \o w)[j] = IF j <= Len(u) THEN u[j] ELSE w[j - Len(u)]
    BY <2>1, ConcatProperties DEF w
  <2>3. Len(u) = i /\ Len(w) = 1 /\ w[1] = new
    BY <1>11, <2>1 DEF w
  <2>4. \A j \in 1 .. i + 1 : (u \o w)[j] = IF j <= i THEN r[j] ELSE new
    BY <1>1, <1>11, <2>2, <2>3
  <2> QED BY <2>2, <2>3, <2>4 DEF w
<1> DEFINE x == u \o <<new>>
<1> HIDE DEF x
<1>14. /\ t \in Seq(BlockType)
       /\ Len(t) = m + 1
       /\ \A j \in 1 .. m + 1 : t[j] = IF j <= i THEN r[j] ELSE IF j = i + 1 THEN new ELSE r[j - 1]
  <2>1. x \in Seq(BlockType) /\ v \in Seq(BlockType) /\ t = x \o v
    BY <1>10, <1>12, <1>13 DEF x, u, v
  <2>2. /\ x \o v \in Seq(BlockType)
        /\ Len(x \o v) = Len(x) + Len(v)
        /\ \A j \in 1 .. Len(x) + Len(v) : (x \o v)[j] = IF j <= Len(x) THEN x[j] ELSE v[j - Len(x)]
    BY <2>1, ConcatProperties
  <2>3. Len(x) = i + 1 /\ Len(v) = m - i
    BY <1>12, <1>13 DEF x
  <2>4. (i + 1) + (m - i) = m + 1
    BY <1>1
  <2>5. ASSUME NEW j \in 1 .. m + 1
        PROVE  t[j] = IF j <= i THEN r[j] ELSE IF j = i + 1 THEN new ELSE r[j - 1]
    <3>1. t[j] = IF j <= i + 1 THEN x[j] ELSE v[j - (i + 1)]
      BY <2>1, <2>2, <2>3, <2>4
    <3>2. CASE j <= i + 1
      <4>1. j \in 1 .. i + 1
        BY <1>1, <3>2
      <4>2. x[j] = IF j <= i THEN r[j] ELSE new
        BY <1>13, <4>1 DEF x
      <4> QED BY <1>1, <3>1, <3>2, <4>2
    <3>3. CASE ~ (j <= i + 1)
      <4>1. j - (i + 1) \in 1 .. m - i /\ i + (j - (i + 1)) = j - 1 /\ ~ (j <= i) /\ j # i + 1
        BY <1>1, <3>3
      <4>2. v[j - (i + 1)] = r[i + (j - (i + 1))]
        BY <1>12, <4>1
      <4> QED BY <3>1, <3>3, <4>1, <4>2
    <3> QED BY <3>2, <3>3
  <2> QED BY <2>1, <2>2, <2>3, <2>4, <2>5
<1> HIDE DEF t
<1>15. t[i] = c /\ t[i + 1] = new
  <2>1. i \in 1 .. m + 1 /\ i + 1 \in 1 .. m + 1 /\ i <= i /\ ~ (i + 1 <= i)
    BY <1>1
  <2> QED BY <1>8, <1>14, <2>1
<1>16. \A j \in 1 .. i - 1 : t[j] = blocks[j]
  <2> SUFFICES ASSUME NEW j \in 1 .. i - 1 PROVE t[j] = blocks[j]
    OBVIOUS
  <2>1. j \in 1 .. m + 1 /\ j <= i /\ j \in 1 .. m /\ j # i
    BY <1>1
  <2> QED BY <1>8, <1>14, <2>1
<1>17. \A j \in i + 2 .. m + 1 : t[j] = blocks[j - 1]
  <2> SUFFICES ASSUME NEW j \in i + 2 .. m + 1 PROVE t[j] = blocks[j - 1]
    OBVIOUS
  <2>1. j \in 1 .. m + 1 /\ ~ (j <= i) /\ j # i + 1 /\ j - 1 \in 1 .. m /\ j - 1 # i
    BY <1>1
  <2> QED BY <1>8, <1>14, <2>1
<1>18. c = [blocks[i] EXCEPT !.alloc_page_num = @ - n]
  BY DEF c, rest, b
<1>19. IsSplit(t, i, n)
  <2>1. t[i] = [blocks[i] EXCEPT !.alloc_page_num = @ - n]
    BY <1>15, <1>18
  <2>2. End(t[i + 1]) = End(blocks[i])
    BY <1>7, <1>15 DEF b
  <2>3. t[i + 1] = VmemBlock(End(t[i]), n, FALSE) /\ End(t[i]) % PAGE_MEM_SIZE = 0
    BY <1>5, <1>6, <1>15
  <2> QED BY <1>14, <1>16, <1>17, <2>1, <2>2, <2>3 DEF IsSplit, m
<1> QED BY <1>19 DEF t

(* The two parts fill the place of the whole.                              *)
LEMMA TilesSplit ==
    ASSUME blocks \in Seq(BlockType), NEW top, Tiles(blocks, top),
           NEW i \in 1 .. Len(blocks), NEW n \in Nat \ {0}, n < blocks[i].alloc_page_num
    PROVE  Tiles(Split(i, n), top)
<1> DEFINE m == Len(blocks)
           t == Split(i, n)
           old(j) == IF j <= i THEN j ELSE j - 1
           lo(j) == blocks[j].p_start_addr
           hi(j) == End(blocks[j])
           low(j) == t[j].p_start_addr
           high(j) == End(t[j])
           cut == high(i)
<1>1. /\ m \in Nat
      /\ top \in Nat
      /\ i \in 1 .. m
      /\ \A j \in 1 .. m :
            /\ lo(j) \in Nat
            /\ hi(j) \in Nat
            /\ lo(j) < hi(j)
            /\ hi(j) <= top
            /\ lo(j) % PAGE_MEM_SIZE = 0
            /\ SYSTEM_HEAP_BASE <= lo(j)
  <2>1. \A j \in 1 .. m : lo(j) % PAGE_MEM_SIZE = 0 /\ SYSTEM_HEAP_BASE <= lo(j)
    BY DEF Tiles
  <2> QED BY <2>1, Ends
<1>2. /\ t \in Seq(BlockType)
      /\ Len(t) = m + 1
      /\ \A j \in 1 .. i - 1 : t[j] = blocks[j]
      /\ t[i] = [blocks[i] EXCEPT !.alloc_page_num = @ - n]
      /\ t[i + 1] = VmemBlock(cut, n, FALSE)
      /\ high(i + 1) = hi(i)
      /\ cut % PAGE_MEM_SIZE = 0
      /\ \A j \in i + 2 .. m + 1 : t[j] = blocks[j - 1]
  <2>1. IsSplit(t, i, n)
    BY <1>1, SplitIs
  <2> HIDE DEF t
  <2> QED BY <2>1 DEF IsSplit
<1>3. low(i) = lo(i) /\ low(i + 1) = cut
  <2>1. blocks[i] \in BlockType
    BY SeqFacts
  <2> QED BY <1>2, <2>1 DEF VmemBlock, BlockType
<1>4. cut \in Nat /\ lo(i) < cut /\ cut < hi(i)
  <2>1. t[i] \in BlockType /\ t[i + 1] \in BlockType
    <3>1. i \in 1 .. m + 1 /\ i + 1 \in 1 .. m + 1
      BY <1>1
    <3> QED BY <1>2, <3>1, SeqFacts
  <2>2. ASSUME NEW b \in BlockType, b.p_start_addr % PAGE_MEM_SIZE = 0
        PROVE  End(b) \in Nat /\ b.p_start_addr < End(b)
    <3> DEFINE a == b.p_start_addr
               k == b.alloc_page_num
    <3>1. a \in Nat /\ k \in Nat \ {0} /\ PAGE_MEM_SIZE \in Nat \ {0} /\ End(b) = a + k * PAGE_MEM_SIZE
      BY HeapType DEF BlockType, End
    <3> HIDE DEF a, k
    <3>2. 1 * PAGE_MEM_SIZE <= k * PAGE_MEM_SIZE /\ k * PAGE_MEM_SIZE \in Nat
      BY <3>1, ProductGrows
    <3>3. 1 * PAGE_MEM_SIZE = PAGE_MEM_SIZE
      BY <3>1
    <3>4. End(b) \in Nat /\ a < End(b)
      BY <3>1, <3>2, <3>3
    <3> QED BY <3>4 DEF a
  <2>3. low(i) % PAGE_MEM_SIZE = 0 /\ low(i + 1) % PAGE_MEM_SIZE = 0
    BY <1>1, <1>2, <1>3
  <2> QED BY <1>2, <1>3, <2>1, <2>2, <2>3
<1> HIDE DEF t, m, cut
<1>5. /\ \A j \in 1 .. i - 1 : low(j) = lo(j) /\ high(j) = hi(j)
      /\ \A j \in i + 2 .. m + 1 : low(j) = lo(j - 1) /\ high(j) = hi(j - 1)
  BY <1>2
<1>6. high(i) = cut /\ low(i) = lo(i) /\ low(i + 1) = cut /\ high(i + 1) = hi(i)
  BY <1>2, <1>3 DEF cut
<1>7. \A j, k \in 1 .. m : j # k => hi(j) <= lo(k) \/ hi(k) <= lo(j)
  BY DEF Tiles, m
<1>8. \A a \in HeapPages : a < top => \E j \in 1 .. m : lo(j) <= a /\ a < hi(j)
  BY DEF Tiles, m
<1> HIDE DEF lo, hi, low, high
<1>9. ASSUME NEW j \in 1 .. m + 1
      PROVE  /\ old(j) \in 1 .. m
             /\ low(j) \in Nat
             /\ high(j) \in Nat
             /\ lo(old(j)) <= low(j)
             /\ high(j) <= hi(old(j))
             /\ low(j) < high(j)
             /\ low(j) % PAGE_MEM_SIZE = 0
  <2>1. old(j) \in 1 .. m
    BY <1>1
  <2>2. CASE j < i
    <3>1. j \in 1 .. i - 1 /\ old(j) = j
      BY <1>1, <2>2
    <3> QED BY <1>1, <1>5, <2>1, <3>1
  <2>3. CASE j = i
    BY <1>1, <1>4, <1>6, <2>1, <2>3
  <2>4. CASE j = i + 1
    <3>1. old(j) = i
      BY <1>1, <2>4
    <3> QED BY <1>1, <1>2, <1>4, <1>6, <2>4, <3>1
  <2>5. CASE j > i + 1
    <3>1. j \in i + 2 .. m + 1 /\ old(j) = j - 1
      BY <1>1, <2>5
    <3> QED BY <1>1, <1>5, <2>1, <3>1
  <2> QED BY <1>1, <2>2, <2>3, <2>4, <2>5
<1>10. ASSUME NEW j \in 1 .. m + 1, NEW k \in 1 .. m + 1, j # k
       PROVE  high(j) <= low(k) \/ high(k) <= low(j)
  <2> DEFINE p == old(j)
             q == old(k)
  <2>1. /\ p \in 1 .. m /\ q \in 1 .. m
        /\ low(j) \in Nat /\ high(j) \in Nat /\ lo(p) <= low(j) /\ high(j) <= hi(p)
        /\ low(k) \in Nat /\ high(k) \in Nat /\ lo(q) <= low(k) /\ high(k) <= hi(q)
    BY <1>9
  <2>2. p = q => (j = i /\ k = i + 1) \/ (k = i /\ j = i + 1)
    BY <1>1, <1>10
  <2> HIDE DEF p, q
  <2>3. CASE p # q
    <3>1. hi(p) <= lo(q) \/ hi(q) <= lo(p)
      BY <1>7, <2>1, <2>3
    <3>2. lo(p) \in Nat /\ lo(q) \in Nat /\ hi(p) \in Nat /\ hi(q) \in Nat
      BY <1>1, <2>1
    <3> QED BY <2>1, <3>1, <3>2
  <2>4. CASE p = q
    BY <1>4, <1>6, <2>2, <2>4
  <2> QED BY <2>3, <2>4
<1>11. ASSUME NEW a \in HeapPages, a < top
       PROVE  \E j \in 1 .. m + 1 : low(j) <= a /\ a < high(j)
  <2>1. a \in Nat
    BY HeapType
  <2>2. PICK j \in 1 .. m : lo(j) <= a /\ a < hi(j)
    BY <1>8, <1>11
  <2>3. CASE j < i
    <3>1. j \in 1 .. i - 1 /\ j \in 1 .. m + 1
      BY <1>1, <2>3
    <3> QED BY <1>5, <2>2, <3>1
  <2>4. CASE j > i
    <3>1. j + 1 \in i + 2 .. m + 1 /\ j + 1 \in 1 .. m + 1 /\ (j + 1) - 1 = j
      BY <1>1, <2>4
    <3> QED BY <1>5, <2>2, <3>1
  <2>5. CASE j = i
    <3>1. i \in 1 .. m + 1 /\ i + 1 \in 1 .. m + 1
      BY <1>1
    <3>2. a < cut \/ cut <= a
      BY <1>4, <2>1
    <3> QED BY <1>6, <2>2, <2>5, <3>1, <3>2
  <2> QED BY <1>1, <2>3, <2>4, <2>5
<1>12. ASSUME NEW j \in 1 .. m + 1
       PROVE  SYSTEM_HEAP_BASE <= low(j) /\ high(j) <= top
  <2>1. /\ SYSTEM_HEAP_BASE <= lo(old(j)) /\ hi(old(j)) <= top
        /\ lo(old(j)) \in Nat /\ hi(old(j)) \in Nat
    BY <1>1, <1>9
  <2>2. /\ low(j) \in Nat /\ high(j) \in Nat
        /\ lo(old(j)) <= low(j) /\ high(j) <= hi(old(j))
    BY <1>9
  <2>3. SYSTEM_HEAP_BASE \in Nat
    BY HeapType
  <2> HIDE DEF old
  <2> QED BY <1>1, <2>1, <2>2, <2>3
<1>13. top \in SYSTEM_HEAP_BASE .. WORD /\ top % PAGE_MEM_SIZE = 0
  BY DEF Tiles
<1>14. Len(t) = m + 1
  BY <1>2
<1> QED BY <1>9, <1>10, <1>11, <1>12, <1>13, <1>14 DEF Tiles, low, high, t

(* A new block in front of the list, from the old end of the heap on.      *)
InFront(top, n, s) == <<VmemBlock(top, n, FALSE)>> \o s

LEMMA TilesGrow ==
    ASSUME NEW s \in Seq(BlockType), NEW top, Tiles(s, top), NEW n \in Nat \ {0}, NEW more,
           more = top + n * PAGE_MEM_SIZE, more <= WORD
    PROVE  /\ InFront(top, n, s) \in Seq(BlockType)
           /\ Len(InFront(top, n, s)) = Len(s) + 1
           /\ InFront(top, n, s)[1] = VmemBlock(top, n, FALSE)
           /\ \A i \in 2 .. Len(s) + 1 : InFront(top, n, s)[i] = s[i - 1]
           /\ Tiles(InFront(top, n, s), more)
<1> DEFINE m == Len(s)
           t == InFront(top, n, s)
           new == VmemBlock(top, n, FALSE)
           w == <<new>>
<1>1. /\ m \in Nat
      /\ top \in Nat
      /\ top \in SYSTEM_HEAP_BASE .. WORD
      /\ top % PAGE_MEM_SIZE = 0
      /\ SYSTEM_HEAP_BASE \in Nat
      /\ \A i \in 1 .. m : /\ s[i].p_start_addr \in Nat
                           /\ End(s[i]) \in Nat
                           /\ End(s[i]) <= top
                           /\ s[i].p_start_addr % PAGE_MEM_SIZE = 0
                           /\ SYSTEM_HEAP_BASE <= s[i].p_start_addr
                           /\ s[i].p_start_addr < End(s[i])
  <2>1. /\ top \in SYSTEM_HEAP_BASE .. WORD
        /\ top % PAGE_MEM_SIZE = 0
        /\ \A i \in 1 .. m : /\ s[i].p_start_addr % PAGE_MEM_SIZE = 0
                             /\ SYSTEM_HEAP_BASE <= s[i].p_start_addr
    BY DEF Tiles
  <2> QED BY <2>1, Ends, HeapType
<1>2. new \in BlockType /\ new.p_start_addr = top /\ End(new) = more
  BY <1>1 DEF VmemBlock, BlockType, End
<1>3. more \in Nat /\ more % PAGE_MEM_SIZE = 0 /\ top < more
  <2>1. more \in Nat /\ more % PAGE_MEM_SIZE = 0
    BY <1>1, Behind
  <2>2. 1 * PAGE_MEM_SIZE <= n * PAGE_MEM_SIZE /\ PAGE_MEM_SIZE \in Nat \ {0}
        /\ n * PAGE_MEM_SIZE \in Nat
    BY ProductGrows, HeapType
  <2>3. 1 * PAGE_MEM_SIZE = PAGE_MEM_SIZE
    BY <2>2
  <2> QED BY <1>1, <2>1, <2>2, <2>3
<1> HIDE DEF new
<1>4. w \in Seq(BlockType) /\ Len(w) = 1 /\ w[1] = new
  BY <1>2, OneElement
<1>5. t = w \o s
  BY DEF new, InFront
<1> HIDE DEF w, t
<1>6. /\ w \o s \in Seq(BlockType)
      /\ Len(w \o s) = Len(w) + Len(s)
      /\ \A i \in 1 .. Len(w) + Len(s) :
            (w \o s)[i] = IF i <= Len(w) THEN w[i] ELSE s[i - Len(w)]
  BY <1>4, ConcatProperties
<1>7. t \in Seq(BlockType) /\ Len(t) = m + 1 /\ t[1] = new
  <2>1. 1 \in 1 .. 1 + m /\ 1 + m = m + 1
    BY <1>1
  <2>2. (w \o s)[1] = w[1]
    BY <1>4, <1>6, <2>1
  <2>3. Len(w \o s) = m + 1
    BY <1>1, <1>4, <1>6
  <2>4. Len(t) = m + 1 /\ t[1] = w[1] /\ t \in Seq(BlockType)
    BY <1>5, <1>6, <2>2, <2>3, Zenon
  <2> QED BY <1>4, <2>4
<1>8. \A i \in 2 .. m + 1 : t[i] = s[i - 1]
  <2> SUFFICES ASSUME NEW i \in 2 .. m + 1 PROVE t[i] = s[i - 1]
    OBVIOUS
  <2>1. i \in 1 .. 1 + m /\ ~ (i <= 1)
    BY <1>1
  <2> QED BY <1>4, <1>5, <1>6, <2>1
<1> HIDE DEF m
<1>9. \A i \in 1 .. m + 1 : i = 1 \/ (i \in 2 .. m + 1 /\ i - 1 \in 1 .. m)
  BY <1>1
<1>10. ASSUME NEW i \in 1 .. m + 1
       PROVE  /\ t[i].p_start_addr % PAGE_MEM_SIZE = 0
              /\ SYSTEM_HEAP_BASE <= t[i].p_start_addr
              /\ End(t[i]) <= more
  <2>1. CASE i = 1
    <3>1. t[i] = new
      BY <1>7, <2>1
    <3>2. SYSTEM_HEAP_BASE <= top /\ more <= more
      BY <1>1, <1>3
    <3> QED BY <1>1, <1>2, <3>1, <3>2
  <2>2. CASE i # 1
    <3>1. i - 1 \in 1 .. m /\ t[i] = s[i - 1]
      BY <1>8, <1>9, <2>2
    <3>2. End(s[i - 1]) \in Nat /\ End(s[i - 1]) <= top
      BY <1>1, <3>1
    <3>3. End(s[i - 1]) <= more
      BY <1>1, <1>3, <3>2
    <3> QED BY <1>1, <3>1, <3>3
  <2> QED BY <2>1, <2>2
<1>11. ASSUME NEW i \in 1 .. m + 1, NEW j \in 1 .. m + 1, i # j
       PROVE  End(t[i]) <= t[j].p_start_addr \/ End(t[j]) <= t[i].p_start_addr
  <2>1. CASE i = 1
    <3>1. j - 1 \in 1 .. m /\ t[j] = s[j - 1]
      BY <1>8, <1>9, <1>11, <2>1
    <3> QED BY <1>1, <1>2, <1>7, <2>1, <3>1
  <2>2. CASE j = 1
    <3>1. i - 1 \in 1 .. m /\ t[i] = s[i - 1]
      BY <1>8, <1>9, <1>11, <2>2
    <3> QED BY <1>1, <1>2, <1>7, <2>2, <3>1
  <2>3. CASE i # 1 /\ j # 1
    <3>1. i - 1 \in 1 .. m /\ t[i] = s[i - 1] /\ j - 1 \in 1 .. m /\ t[j] = s[j - 1]
      BY <1>8, <1>9, <2>3
    <3>2. i - 1 # j - 1
      BY <1>11
    <3> QED BY <3>1, <3>2 DEF Tiles, m
  <2> QED BY <2>1, <2>2, <2>3
<1>12. ASSUME NEW a \in HeapPages, a < more
       PROVE  \E i \in 1 .. m + 1 : t[i].p_start_addr <= a /\ a < End(t[i])
  <2>1. a \in Nat
    BY HeapType
  <2>2. CASE a < top
    <3>1. PICK i \in 1 .. m : s[i].p_start_addr <= a /\ a < End(s[i])
      BY <2>2 DEF Tiles, m
    <3>2. i + 1 \in 2 .. m + 1 /\ i + 1 \in 1 .. m + 1 /\ (i + 1) - 1 = i
      BY <1>1
    <3>3. t[i + 1] = s[i]
      BY <1>8, <3>2
    <3> QED BY <3>1, <3>2, <3>3
  <2>3. CASE ~ (a < top)
    <3>1. 1 \in 1 .. m + 1 /\ top <= a
      BY <1>1, <2>1, <2>3
    <3> QED BY <1>2, <1>7, <1>12, <3>1
  <2> QED BY <2>2, <2>3
<1>13. more \in SYSTEM_HEAP_BASE .. WORD
  BY <1>1, <1>3, HeapType
<1>14. Tiles(t, more)
  BY <1>3, <1>7, <1>10, <1>11, <1>12, <1>13 DEF Tiles
<1> QED BY <1>7, <1>8, <1>14 DEF m, new, t

-----------------------------------------------------------------------------
(* What the page allocator answers, and what do_mem_mapping does.          *)

LEMMA LeastNumber ==
    ASSUME NEW S, S \subseteq Nat, S # {}
    PROVE  \E n \in S : \A m \in S : n <= m
<1>1. PICK n \in S : \A m \in S : ~ (<<m, n>> \in OpToRel(<, Nat))
  BY WFMin, NatLessThanWellFounded
<1>2. ASSUME NEW m \in S PROVE n <= m
  <2>1. <<m, n>> \in OpToRel(<, Nat) <=> m < n
    BY DEF OpToRel
  <2>2. ~ (m < n)
    BY <1>1, <2>1, Zenon
  <2> QED BY <2>2
<1> QED BY <1>2

LEMMA NullIs == NULL = 0 /\ Mem!NULL = 0
BY DEF NULL, Mem!NULL

LEMMA AllocAnswers ==
    ASSUME bitmap \in SUBSET Nat
    PROVE  /\ Mem!alloc_mem_page \in bitmap \cup {0}
           /\ Mem!alloc_mem_page \in Nat
<1>1. ASSUME NEW start, NEW end PROVE Mem!Scan(start, end) \in bitmap \cup {0}
  <2> DEFINE found == {p \in bitmap : /\ Mem!GroupBase(start) <= Mem!GroupBase(p)
                                      /\ Mem!GroupBase(p) < end}
  <2>1. CASE found = {}
    BY <2>1 DEF Mem!Scan, Mem!NULL
  <2>2. CASE found # {}
    <3>1. Mem!First(found) \in found
      BY <2>2, LeastNumber DEF Mem!First
    <3> QED BY <2>2, <3>1 DEF Mem!Scan
  <2> QED BY <2>1, <2>2
<1>2. ASSUME NEW start, NEW end
      PROVE  Mem!alloc_physical_mem_page(start, end) \in bitmap \cup {0}
  BY <1>1 DEF Mem!alloc_physical_mem_page, Mem!NULL
<1>3. Mem!alloc_mem_page \in bitmap \cup {0}
  BY <1>2 DEF Mem!alloc_mem_page, Mem!alloc_low_mem_page, Mem!alloc_high_mem_page
<1> QED BY <1>3

LEMMA TakeTyped ==
    ASSUME bitmap \in SUBSET Nat, NEW p, Mem!Take(p)
    PROVE  bitmap' \in SUBSET Nat
BY DEF Mem!Take

LEMMA GiveTyped ==
    ASSUME bitmap \in SUBSET Nat, NEW p \in Nat, Mem!free_mem_page(p)
    PROVE  bitmap' \in SUBSET Nat
BY DEF Mem!free_mem_page

LEMMA MappingTyped ==
    ASSUME Types, NEW a \in HeapPages, NEW frame \in Nat, do_mem_mapping(a, frame)
    PROVE  /\ bitmap' \in SUBSET Nat
           /\ page_dir' \in [Tables -> Nat]
           /\ pte' \in [HeapPages -> Nat]
           /\ pte' = [pte EXCEPT ![a] = frame]
<1>1. pte \in [HeapPages -> Nat] /\ page_dir \in [Tables -> Nat] /\ bitmap \in SUBSET Nat
  BY DEF Types
<1>2. pte' = [pte EXCEPT ![a] = frame]
  BY DEF do_mem_mapping
<1>3. pte' \in [HeapPages -> Nat]
  BY <1>1, <1>2
<1>4. CASE page_dir' = page_dir /\ bitmap' = bitmap
  BY <1>1, <1>2, <1>3, <1>4
<1>5. CASE /\ Mem!Take(Mem!alloc_mem_page)
           /\ page_dir' = [page_dir EXCEPT ![Table(a)] = Mem!alloc_mem_page]
  <2>1. Mem!alloc_mem_page \in Nat
    BY <1>1, AllocAnswers
  <2>2. page_dir' \in [Tables -> Nat]
    BY <1>1, <1>5, <2>1
  <2>3. bitmap' \in SUBSET Nat
    BY <1>1, <1>5, TakeTyped
  <2> QED BY <1>2, <1>3, <2>2, <2>3
<1> QED BY <1>4, <1>5 DEF do_mem_mapping

(* ClearEntry reads the entry's frame, or a word at address 0.             *)
LEMMA ClearTyped ==
    ASSUME Types, NEW a \in HeapPages, NEW next, ClearEntry(a, next)
    PROVE  /\ bitmap' \in SUBSET Nat
           /\ page_dir' \in [Tables -> Nat]
           /\ pte' \in [HeapPages -> Nat]
           /\ \E frame \in Nat : call' = [call EXCEPT !.pc = next, !.frame = frame]
           /\ UNCHANGED <<blocks, system_heap_start, desc_pages, other, history>>
<1>1. /\ do_mem_mapping(a, NULL) \/ UNCHANGED <<alloc_vars, page_dir, pte>>
      /\ \E frame \in linear_to_physical(a) :
            call' = [call EXCEPT !.pc = next, !.frame = frame]
      /\ UNCHANGED <<blocks, system_heap_start, desc_pages, other, history>>
  BY DEF ClearEntry
<1>2. linear_to_physical(a) \subseteq Nat
  BY HeapAssumption DEF linear_to_physical, Types
<1>3. CASE do_mem_mapping(a, NULL)
  BY <1>1, <1>2, <1>3, MappingTyped, NullIs
<1>4. CASE UNCHANGED <<alloc_vars, page_dir, pte>>
  BY <1>1, <1>2, <1>4 DEF Types, alloc_vars
<1> QED BY <1>1, <1>3, <1>4

-----------------------------------------------------------------------------
(* The block of the call in progress.                                      *)

(* Its pages are heap pages, and no other block begins where it begins.    *)
LEMMA CallBlock ==
    ASSUME Space, call.pc # "idle"
    PROVE  \E i \in 1 .. Len(blocks) :
              /\ blocks[i] \in BlockType
              /\ blocks[i].p_start_addr = call.start
              /\ blocks[i].alloc_page_num = call.pages
              /\ \A j \in 1 .. Len(blocks) : blocks[j].p_start_addr = call.start => j = i
              /\ PagesOf(blocks[i]) = {Addr(k) : k \in 0 .. call.pages - 1}
              /\ PagesOf(blocks[i]) \subseteq HeapPages
              /\ \A k, l \in 0 .. call.pages - 1 : Addr(k) = Addr(l) => k = l
<1>1. blocks \in Seq(BlockType) /\ Tiles(blocks, Top(system_heap_start))
  BY DEF Space, Types
<1>2. PICK i \in 1 .. Len(blocks) : /\ blocks[i].p_start_addr = call.start
                                    /\ blocks[i].alloc_page_num = call.pages
  BY DEF Space, InBlock
<1>3. /\ blocks[i] \in BlockType
      /\ \A j \in 1 .. Len(blocks) : blocks[j].p_start_addr = call.start => j = i
      /\ PagesOf(blocks[i]) \subseteq HeapPages
  BY <1>1, <1>2, Ends, StartsDiffer
<1>4. PagesOf(blocks[i]) = {Addr(k) : k \in 0 .. call.pages - 1}
  BY <1>2 DEF PagesOf, Addr
<1>5. ASSUME NEW k \in 0 .. call.pages - 1, NEW l \in 0 .. call.pages - 1, Addr(k) = Addr(l)
      PROVE  k = l
  <2> DEFINE P == PAGE_MEM_SIZE
             s == call.start
  <2>1. s \in Nat /\ P \in Nat \ {0} /\ k \in Nat /\ l \in Nat /\ s + k * P = s + l * P
    BY <1>2, <1>3, <1>5, HeapType DEF BlockType, Addr
  <2>2. ASSUME NEW x \in Nat, NEW y \in Nat, x < y PROVE x * P < y * P
    <3>1. (x + 1) * P <= y * P /\ y * P \in Nat
      BY <2>1, <2>2, ProductGrows
    <3>2. (x + 1) * P = (x * P) + P /\ x * P \in Nat
      BY <2>1
    <3> QED BY <2>1, <3>1, <3>2
  <2>3. k * P \in Nat /\ l * P \in Nat
    BY <2>1
  <2> HIDE DEF P, s
  <2>4. k * P = l * P
    BY <2>1, <2>3
  <2>5. ~ (k < l) /\ ~ (l < k)
    BY <2>1, <2>2, <2>3, <2>4
  <2> QED BY <2>1, <2>5
<1> QED BY <1>2, <1>3, <1>4, <1>5

LEMMA CallPage ==
    ASSUME Space, call.pc # "idle", NEW k \in 0 .. call.pages - 1
    PROVE  Addr(k) \in HeapPages
BY CallBlock

LEMMA CallIs ==
    ASSUME Types
    PROVE  /\ call.start \in Nat /\ call.pages \in Nat /\ call.todo \in Nat
           /\ call.frame \in Nat /\ call.fail \in BOOLEAN
           /\ call = [pc |-> call.pc, start |-> call.start, pages |-> call.pages,
                      todo |-> call.todo, frame |-> call.frame, fail |-> call.fail]
           /\ call.pc \in {"idle", "page", "map", "undo", "undone", "free", "freed"}
BY DEF Types, CallType

LEMMA IdleIs ==
    /\ Idle \in CallType
    /\ Idle.pc = "idle" /\ Idle.start = 0 /\ Idle.pages = 0 /\ Idle.todo = 0
    /\ Idle.frame = 0 /\ Idle.fail = FALSE
BY DEF Idle, CallType

(* SetFree marks the block of the call and moves none.                     *)
LEMMA SetFreeIs ==
    ASSUME Space, call.pc # "idle", NEW free \in BOOLEAN, SetFree(free)
    PROVE  /\ blocks' \in Seq(BlockType)
           /\ Len(blocks') = Len(blocks)
           /\ \A i \in 1 .. Len(blocks) :
                 /\ blocks'[i].p_start_addr = blocks[i].p_start_addr
                 /\ blocks'[i].alloc_page_num = blocks[i].alloc_page_num
                 /\ PagesOf(blocks'[i]) = PagesOf(blocks[i])
           /\ Tiles(blocks', Top(system_heap_start))
           /\ Used(blocks') = IF free THEN live ELSE live \cup {call.start}
<1> DEFINE m == Len(blocks)
           s == call.start
           t == blocks'
<1>1. /\ blocks \in Seq(BlockType)
      /\ Tiles(blocks, Top(system_heap_start))
      /\ s \notin live
      /\ Used(blocks) \ {s} = live
  BY DEF Space, Types, Owned
<1>2. m \in Nat /\ DOMAIN blocks = 1 .. m /\ \A i \in 1 .. m : blocks[i] \in BlockType
  BY <1>1, SeqFacts
<1>3. t = [i \in 1 .. m |-> IF blocks[i].p_start_addr = s
                            THEN [blocks[i] EXCEPT !.is_free = free] ELSE blocks[i]]
  BY <1>2 DEF SetFree
<1> HIDE DEF m, t
<1>4. ASSUME NEW i \in 1 .. m
      PROVE  /\ t[i] \in BlockType
             /\ t[i].p_start_addr = blocks[i].p_start_addr
             /\ t[i].alloc_page_num = blocks[i].alloc_page_num
             /\ t[i].is_free = IF blocks[i].p_start_addr = s THEN free ELSE blocks[i].is_free
  <2>1. blocks[i] \in BlockType
    BY <1>2
  <2>2. t[i] = IF blocks[i].p_start_addr = s
               THEN [blocks[i] EXCEPT !.is_free = free] ELSE blocks[i]
    BY <1>3
  <2> QED BY <2>1, <2>2 DEF BlockType
<1>5. t \in Seq(BlockType) /\ Len(t) = m
  <2>1. t \in [1 .. m -> BlockType]
    BY <1>3, <1>4
  <2> QED BY <1>2, <2>1
<1>6. Tiles(t, Top(system_heap_start))
  BY <1>1, <1>4, <1>5, TilesSame DEF m
<1>7. \A i \in 1 .. m : PagesOf(t[i]) = PagesOf(blocks[i])
  BY <1>4 DEF PagesOf
<1>8. \E i \in 1 .. m : blocks[i].p_start_addr = s
  BY CallBlock DEF m
<1>9. /\ Used(blocks) = {blocks[i].p_start_addr : i \in {j \in 1 .. m : ~ blocks[j].is_free}}
      /\ Used(t) = {t[i].p_start_addr : i \in {j \in 1 .. m : ~ t[j].is_free}}
  BY <1>5 DEF Used, m
<1>10. CASE free
  <2>1. Used(t) = Used(blocks) \ {s}
    <3>1. \A i \in 1 .. m : ~ t[i].is_free <=> ~ blocks[i].is_free /\ blocks[i].p_start_addr # s
      BY <1>4, <1>10
    <3>2. {t[i].p_start_addr : i \in {j \in 1 .. m : ~ t[j].is_free}}
            = {blocks[i].p_start_addr : i \in {j \in 1 .. m : ~ blocks[j].is_free}} \ {s}
      BY <1>4, <3>1
    <3> QED BY <1>9, <3>2
  <2> QED BY <1>1, <1>4, <1>5, <1>6, <1>7, <1>10, <2>1 DEF m, t
<1>11. CASE ~ free
  <2>1. Used(t) = Used(blocks) \cup {s}
    BY <1>4, <1>8, <1>9, <1>11
  <2> QED BY <1>1, <1>4, <1>5, <1>6, <1>7, <1>11, <2>1 DEF m, t
<1> QED BY <1>10, <1>11

-----------------------------------------------------------------------------
(* vmalloc finds a block.                                                  *)

(* The blocks of the callers are still there.                              *)
LiveKept ==
    \A j \in 1 .. Len(blocks') : blocks'[j].p_start_addr \in live =>
        \E i \in 1 .. Len(blocks) : /\ blocks'[j].p_start_addr = blocks[i].p_start_addr
                                    /\ blocks'[j].alloc_page_num = blocks[i].alloc_page_num

(* A block of n pages from start on that no caller has.                    *)
Found(start, n) ==
    /\ blocks' \in Seq(BlockType)
    /\ system_heap_start' \in Nat
    /\ Tiles(blocks', Top(system_heap_start'))
    /\ \E i \in 1 .. Len(blocks') : /\ blocks'[i].p_start_addr = start
                                    /\ blocks'[i].alloc_page_num = n
    /\ start \in Nat
    /\ start \notin live
    /\ Used(blocks') \ {start} = live
    /\ LiveKept

LEMMA WhenIdle ==
    ASSUME Space, call.pc = "idle"
    PROVE  /\ Used(blocks) = live
           /\ \A i \in 1 .. Len(blocks) :
                 blocks[i].p_start_addr \in live <=> ~ blocks[i].is_free
<1>1. blocks \in Seq(BlockType) /\ Tiles(blocks, Top(system_heap_start))
  BY DEF Space, Types
<1>2. call.start = 0 /\ Used(blocks) \ {0} = live
  BY DEF Space, InBlock, Owned
<1>3. \A i \in 1 .. Len(blocks) : blocks[i].p_start_addr # 0 /\ blocks[i] \in BlockType
  BY <1>1, Ends
<1>4. Used(blocks) = live
  BY <1>2, <1>3 DEF Used
<1>5. ASSUME NEW i \in 1 .. Len(blocks), blocks[i].p_start_addr \in live
      PROVE  ~ blocks[i].is_free
  <2>1. PICK j \in 1 .. Len(blocks) :
           ~ blocks[j].is_free /\ blocks[j].p_start_addr = blocks[i].p_start_addr
    BY <1>4, <1>5 DEF Used
  <2>2. j = i
    BY <1>1, <2>1, StartsDiffer
  <2> QED BY <2>1, <2>2
<1>6. \A i \in 1 .. Len(blocks) : ~ blocks[i].is_free => blocks[i].p_start_addr \in live
  BY <1>4 DEF Used
<1> QED BY <1>4, <1>5, <1>6

LEMMA FirstIs ==
    ASSUME blocks \in Seq(BlockType), NEW n \in Nat, Adaptable(n) # {}
    PROVE  /\ FirstAdaptable(n) \in 1 .. Len(blocks)
           /\ blocks[FirstAdaptable(n)].is_free
           /\ blocks[FirstAdaptable(n)].alloc_page_num >= n
<1>1. Len(blocks) \in Nat /\ DOMAIN blocks = 1 .. Len(blocks)
  BY SeqFacts
<1>2. Adaptable(n) \subseteq Nat
  BY <1>1 DEF Adaptable
<1>3. \E i \in Adaptable(n) : \A j \in Adaptable(n) : i <= j
  BY <1>2, LeastNumber
<1>4. FirstAdaptable(n) \in Adaptable(n)
  BY <1>3 DEF FirstAdaptable
<1> QED BY <1>1, <1>4 DEF Adaptable

LEMMA ExactFound ==
    ASSUME Space, call.pc = "idle", NEW n \in Nat \ {0}, VmallocExact(n)
    PROVE  /\ \E start \in Nat : Found(start, n) /\ Begin(start, n)
           /\ bitmap' \in SUBSET Nat
<1> DEFINE i == FirstAdaptable(n)
           b == blocks[i]
<1>1. /\ Adaptable(n) # {}
      /\ b.alloc_page_num = n
      /\ Begin(b.p_start_addr, n)
      /\ blocks' = blocks
      /\ system_heap_start' = system_heap_start
      /\ bitmap' = bitmap
  BY DEF VmallocExact, alloc_vars
<1>2. /\ blocks \in Seq(BlockType)
      /\ Tiles(blocks, Top(system_heap_start))
      /\ system_heap_start \in Nat
      /\ bitmap \in SUBSET Nat
  BY DEF Space, Types
<1>3. i \in 1 .. Len(blocks) /\ b.is_free
  BY <1>1, <1>2, FirstIs
<1>4. b.p_start_addr \in Nat
  BY <1>2, <1>3, Ends
<1>5. b.p_start_addr \notin live /\ Used(blocks) = live
  BY <1>3, WhenIdle
<1> HIDE DEF i
<1>6. Found(b.p_start_addr, n)
  BY <1>1, <1>2, <1>3, <1>4, <1>5 DEF Found, LiveKept
<1> QED BY <1>1, <1>2, <1>4, <1>6

LEMMA DescriptorTyped ==
    ASSUME bitmap \in SUBSET Nat, NewDescriptor
    PROVE  bitmap' \in SUBSET Nat
BY TakeTyped DEF NewDescriptor

LEMMA SplitFound ==
    ASSUME Space, call.pc = "idle", NEW n \in Nat \ {0}, VmallocSplit(n)
    PROVE  /\ \E start \in Nat : Found(start, n) /\ Begin(start, n)
           /\ bitmap' \in SUBSET Nat
<1>1. PICK i \in 1 .. Len(blocks) :
         /\ i = FirstAdaptable(n)
         /\ blocks[i].is_free
         /\ blocks[i].alloc_page_num >= n
         /\ blocks[i].alloc_page_num # n
  <2>1. blocks \in Seq(BlockType) /\ Adaptable(n) # {}
    BY DEF Space, Types, VmallocSplit
  <2>2. blocks[FirstAdaptable(n)].alloc_page_num # n
    BY DEF VmallocSplit
  <2> QED BY <2>1, <2>2, FirstIs
<1> DEFINE m == Len(blocks)
           t == blocks'
           start == t[i + 1].p_start_addr
<1>2. /\ NewDescriptor
      /\ blocks' = Split(i, n)
      /\ Begin(start, n)
      /\ system_heap_start' = system_heap_start
  BY <1>1 DEF VmallocSplit
<1>3. /\ blocks \in Seq(BlockType)
      /\ Tiles(blocks, Top(system_heap_start))
      /\ system_heap_start \in Nat
      /\ bitmap \in SUBSET Nat
  BY DEF Space, Types
<1>4. bitmap' \in SUBSET Nat
  BY <1>2, <1>3, DescriptorTyped
<1>5. /\ m \in Nat /\ i \in 1 .. m
      /\ \A j \in 1 .. m : blocks[j] \in BlockType
      /\ n < blocks[i].alloc_page_num
      /\ blocks[i].p_start_addr % PAGE_MEM_SIZE = 0
  <2>1. m \in Nat /\ \A j \in 1 .. m : blocks[j] \in BlockType
    BY <1>3, SeqFacts
  <2>2. blocks[i].alloc_page_num \in Nat
    BY <2>1 DEF BlockType
  <2>3. blocks[i].p_start_addr % PAGE_MEM_SIZE = 0
    BY <1>3 DEF Tiles
  <2> QED BY <1>1, <2>1, <2>2, <2>3
<1>6. /\ t \in Seq(BlockType)
      /\ Len(t) = m + 1
      /\ \A j \in 1 .. i - 1 : t[j] = blocks[j]
      /\ t[i] = [blocks[i] EXCEPT !.alloc_page_num = @ - n]
      /\ t[i + 1] = VmemBlock(End(t[i]), n, FALSE)
      /\ \A j \in i + 2 .. m + 1 : t[j] = blocks[j - 1]
  <2>1. IsSplit(Split(i, n), i, n)
    <3>1. blocks \in Seq(BlockType) /\ i \in 1 .. Len(blocks) /\ n \in Nat \ {0}
      BY <1>3, <1>5
    <3>2. n < blocks[i].alloc_page_num /\ blocks[i].p_start_addr % PAGE_MEM_SIZE = 0
      BY <1>5
    <3> HIDE DEF t, m, start
    <3> QED BY <3>1, <3>2, SplitIs
  <2>2. t = Split(i, n)
    BY <1>2
  <2>3. Len(blocks) = m
    OBVIOUS
  <2> HIDE DEF t, m
  <2> QED BY <2>1, <2>2, <2>3 DEF IsSplit
<1>7. Tiles(t, Top(system_heap_start))
  BY <1>2, <1>3, <1>5, TilesSplit
<1> HIDE DEF t, m
<1>8. /\ t[i].p_start_addr = blocks[i].p_start_addr /\ t[i].is_free
      /\ t[i + 1].alloc_page_num = n /\ ~ t[i + 1].is_free
  BY <1>1, <1>5, <1>6 DEF BlockType, VmemBlock
<1>9. /\ i \in 1 .. m + 1 /\ i + 1 \in 1 .. m + 1
      /\ \A j \in 1 .. m + 1 :
            \/ j = i
            \/ j = i + 1
            \/ j \in 1 .. i - 1 /\ j \in 1 .. m
            \/ j \in i + 2 .. m + 1 /\ j - 1 \in 1 .. m
      /\ \A j \in 1 .. m :
            \/ j = i
            \/ j \in 1 .. i - 1 /\ j \in 1 .. m + 1
            \/ j + 1 \in i + 2 .. m + 1 /\ j + 1 \in 1 .. m + 1 /\ (j + 1) - 1 = j
  BY <1>5
<1>10. /\ Used(blocks) = live
       /\ \A j \in 1 .. m : blocks[j].p_start_addr \in live <=> ~ blocks[j].is_free
  BY WhenIdle DEF m
<1>11. Used(t) = live \cup {start}
  <2>1. Used(t) = {t[j].p_start_addr : j \in {k \in 1 .. m + 1 : ~ t[k].is_free}}
    BY <1>6 DEF Used
  <2>2. ASSUME NEW j \in 1 .. m + 1, ~ t[j].is_free
        PROVE  t[j].p_start_addr \in live \cup {start}
    <3>1. CASE j = i
      BY <1>8, <2>2, <3>1
    <3>2. CASE j = i + 1
      BY <3>2
    <3>3. CASE j \in 1 .. i - 1 /\ j \in 1 .. m
      BY <1>6, <1>10, <2>2, <3>3
    <3>4. CASE j \in i + 2 .. m + 1 /\ j - 1 \in 1 .. m
      BY <1>6, <1>10, <2>2, <3>4
    <3> QED BY <1>9, <3>1, <3>2, <3>3, <3>4
  <2>3. ASSUME NEW a \in live PROVE \E j \in 1 .. m + 1 : ~ t[j].is_free /\ t[j].p_start_addr = a
    <3>1. PICK k \in 1 .. m : ~ blocks[k].is_free /\ blocks[k].p_start_addr = a
      BY <1>10 DEF Used, m
    <3>2. k # i
      BY <1>1, <3>1
    <3> QED BY <1>6, <1>9, <3>1, <3>2
  <2> QED BY <1>8, <1>9, <2>1, <2>2, <2>3
<1>12. start \in Nat /\ start \notin live
  <2>1. start \in Nat
    BY <1>6, <1>7, <1>9, Ends
  <2>2. ASSUME start \in live PROVE FALSE
    <3>1. PICK k \in 1 .. m : ~ blocks[k].is_free /\ blocks[k].p_start_addr = start
      BY <1>10, <2>2 DEF Used, m
    <3>2. k # i
      BY <1>1, <3>1
    <3>3. PICK j \in 1 .. m + 1 : j # i + 1 /\ t[j].p_start_addr = start
      <4>1. CASE k \in 1 .. i - 1
        <5>1. k # i + 1 /\ k \in 1 .. m + 1
          BY <1>5, <4>1
        <5>2. t[k] = blocks[k]
          BY <1>6, <4>1
        <5> QED BY <3>1, <5>1, <5>2
      <4>2. CASE k + 1 \in i + 2 .. m + 1
        <5>1. k + 1 # i + 1 /\ k + 1 \in 1 .. m + 1 /\ (k + 1) - 1 = k
          BY <1>5, <4>2
        <5>2. t[k + 1] = blocks[(k + 1) - 1]
          BY <1>6, <4>2
        <5>3. t[k + 1].p_start_addr = start
          BY <3>1, <5>1, <5>2
        <5> QED BY <5>1, <5>3
      <4> QED BY <1>9, <3>2, <4>1, <4>2
    <3> QED BY <1>6, <1>7, <1>9, <3>3, StartsDiffer
  <2> QED BY <2>1, <2>2
<1>13. ASSUME NEW j \in 1 .. m + 1, t[j].p_start_addr \in live
       PROVE  \E k \in 1 .. m : /\ t[j].p_start_addr = blocks[k].p_start_addr
                                /\ t[j].alloc_page_num = blocks[k].alloc_page_num
  <2>1. j # i + 1
    BY <1>12, <1>13
  <2>2. j # i
    BY <1>1, <1>5, <1>8, <1>10, <1>13
  <2> QED BY <1>6, <1>9, <2>1, <2>2
<1>14. Found(start, n)
  <2>1. LiveKept
    BY <1>6, <1>13 DEF LiveKept, t, m
  <2>2. \E j \in 1 .. Len(blocks') : blocks'[j].p_start_addr = start /\ blocks'[j].alloc_page_num = n
    BY <1>6, <1>8, <1>9 DEF t
  <2>3. Used(blocks') \ {start} = live
    BY <1>11, <1>12 DEF t
  <2> HIDE DEF start
  <2> QED BY <1>2, <1>3, <1>6, <1>7, <1>12, <2>1, <2>2, <2>3 DEF Found, t
<1> QED BY <1>2, <1>4, <1>12, <1>14

LEMMA GrowFound ==
    ASSUME Space, call.pc = "idle", NEW n \in Nat \ {0}, VmallocGrow(n),
           system_heap_start >= SYSTEM_HEAP_BASE
    PROVE  /\ \E start \in Nat : Found(start, n) /\ Begin(start, n)
           /\ bitmap' \in SUBSET Nat
<1> DEFINE m == Len(blocks)
           t == blocks'
           start == system_heap_start
           more == start + n * PAGE_MEM_SIZE
<1>1. /\ n * PAGE_MEM_SIZE <= (WORD - 1) - start + 1
      /\ NewDescriptor
      /\ t = <<VmemBlock(start, n, FALSE)>> \o blocks
      /\ system_heap_start' = more % WORD
      /\ Begin(start, n)
  BY DEF VmallocGrow, HeapRoom, SYSTEM_HEAP_END
<1>2. /\ blocks \in Seq(BlockType)
      /\ Tiles(blocks, Top(start))
      /\ start \in Nat
      /\ bitmap \in SUBSET Nat
  BY DEF Space, Types
<1>3. bitmap' \in SUBSET Nat
  BY <1>1, <1>2, DescriptorTyped
<1>4. Top(start) = start /\ start % PAGE_MEM_SIZE = 0 /\ WORD \in Nat /\ SYSTEM_HEAP_BASE \in Nat \ {0}
  BY <1>2, HeapType DEF Top, Tiles
<1>5. n * PAGE_MEM_SIZE \in Nat /\ more \in Nat /\ more <= WORD /\ more # 0
  <2>1. n * PAGE_MEM_SIZE \in Nat
    BY <1>2, <1>4, Behind
  <2> DEFINE k == n * PAGE_MEM_SIZE
  <2>2. k \in Nat /\ start \in Nat /\ k <= (WORD - 1) - start + 1 /\ start # 0 /\ more = start + k
    <3>1. start # 0
      BY <1>2, <1>4
    <3> QED BY <1>1, <1>2, <2>1, <3>1
  <2> HIDE DEF k, start, more
  <2> QED BY <1>4, <2>1, <2>2
<1> HIDE DEF start, more
<1>6. system_heap_start' \in Nat /\ Top(system_heap_start') = more
  <2>1. CASE more < WORD
    <3>1. more % WORD = more
      BY <1>4, <1>5, <2>1
    <3> QED BY <1>1, <1>5, <3>1 DEF Top
  <2>2. CASE more = WORD
    <3>1. more % WORD = 0
      BY <1>4, <1>5, <2>2
    <3> QED BY <1>1, <2>2, <3>1 DEF Top
  <2> QED BY <1>4, <1>5, <2>1, <2>2
<1>7. /\ t \in Seq(BlockType)
      /\ Len(t) = m + 1
      /\ t[1] = VmemBlock(start, n, FALSE)
      /\ \A i \in 2 .. m + 1 : t[i] = blocks[i - 1]
      /\ Tiles(t, more)
  <2>1. Tiles(blocks, start)
    BY <1>2, <1>4
  <2>2. more = start + n * PAGE_MEM_SIZE
    BY DEF more
  <2> DEFINE u == InFront(start, n, blocks)
  <2>3. /\ u \in Seq(BlockType)
        /\ Len(u) = m + 1
        /\ u[1] = VmemBlock(start, n, FALSE)
        /\ \A i \in 2 .. m + 1 : u[i] = blocks[i - 1]
        /\ Tiles(u, more)
    BY <1>2, <1>5, <2>1, <2>2, TilesGrow
  <2>4. t = u
    BY <1>1 DEF InFront
  <2> HIDE DEF u, t, m
  <2> QED BY <2>3, <2>4
<1>8. m \in Nat
  BY <1>2, SeqFacts
<1> HIDE DEF t, m
<1>9. /\ 1 \in 1 .. m + 1
      /\ \A j \in 1 .. m + 1 : j = 1 \/ (j \in 2 .. m + 1 /\ j - 1 \in 1 .. m)
      /\ \A j \in 1 .. m : j + 1 \in 2 .. m + 1 /\ j + 1 \in 1 .. m + 1 /\ (j + 1) - 1 = j /\ j + 1 # 1
  BY <1>8
<1>10. /\ Used(blocks) = live
       /\ \A j \in 1 .. m : blocks[j].p_start_addr \in live <=> ~ blocks[j].is_free
  BY WhenIdle DEF m
<1>11. t[1].p_start_addr = start /\ t[1].alloc_page_num = n /\ ~ t[1].is_free
  BY <1>7 DEF VmemBlock
<1>12. Used(t) = live \cup {start}
  <2>1. Used(t) = {t[j].p_start_addr : j \in {k \in 1 .. m + 1 : ~ t[k].is_free}}
    BY <1>7 DEF Used
  <2>2. ASSUME NEW j \in 1 .. m + 1, ~ t[j].is_free
        PROVE  t[j].p_start_addr \in live \cup {start}
    BY <1>7, <1>9, <1>10, <1>11, <2>2
  <2>3. ASSUME NEW a \in live PROVE \E j \in 1 .. m + 1 : ~ t[j].is_free /\ t[j].p_start_addr = a
    <3>1. PICK k \in 1 .. m : ~ blocks[k].is_free /\ blocks[k].p_start_addr = a
      BY <1>10 DEF Used, m
    <3> QED BY <1>7, <1>9, <3>1
  <2> QED BY <1>9, <1>11, <2>1, <2>2, <2>3
<1>13. start \notin live
  <2>1. ASSUME start \in live PROVE FALSE
    <3>1. PICK k \in 1 .. m : ~ blocks[k].is_free /\ blocks[k].p_start_addr = start
      BY <1>10, <2>1 DEF Used, m
    <3>2. t[k + 1].p_start_addr = start
      BY <1>7, <1>9, <3>1
    <3>3. k + 1 \in 1 .. Len(t) /\ 1 \in 1 .. Len(t) /\ k + 1 # 1
      BY <1>7, <1>9
    <3>4. t[k + 1].p_start_addr = t[1].p_start_addr
      BY <1>11, <3>2
    <3> QED BY <1>7, <3>3, <3>4, StartsDiffer
  <2> QED BY <2>1
<1>14. ASSUME NEW j \in 1 .. m + 1, t[j].p_start_addr \in live
       PROVE  \E k \in 1 .. m : /\ t[j].p_start_addr = blocks[k].p_start_addr
                                /\ t[j].alloc_page_num = blocks[k].alloc_page_num
  <2>1. j # 1
    BY <1>11, <1>13, <1>14
  <2> QED BY <1>7, <1>9, <2>1
<1>15. Found(start, n)
  <2>1. LiveKept
    BY <1>7, <1>14 DEF LiveKept, t, m
  <2>2. \E j \in 1 .. Len(blocks') : blocks'[j].p_start_addr = start /\ blocks'[j].alloc_page_num = n
    BY <1>7, <1>9, <1>11 DEF t
  <2>3. Used(blocks') \ {start} = live
    BY <1>12, <1>13 DEF t
  <2> QED BY <1>2, <1>6, <1>7, <1>13, <2>1, <2>2, <2>3 DEF Found, t
<1> QED BY <1>1, <1>2, <1>3, <1>15

(* vmalloc begins with a block of at least a page that no caller has.      *)
LEMMA VmallocBegins ==
    ASSUME Space, NEW size \in Requests, vmalloc(size)
    PROVE  /\ \E start \in Nat, n \in Nat \ {0} : Found(start, n) /\ Begin(start, n)
           /\ bitmap' \in SUBSET Nat
<1> DEFINE n == mem_size_align(size) \div PAGE_MEM_SIZE
<1>1. n \in Nat
  <2>1. size \in Nat /\ PAGE_MEM_SIZE \in Nat \ {0} /\ WORD \in Nat \ {0}
    BY HeapType, HeapAssumption
  <2>2. size \div PAGE_MEM_SIZE \in Nat
    BY <2>1
  <2>3. mem_size_align(size) \in Nat
    <3> DEFINE k == IF size % PAGE_MEM_SIZE # 0 THEN (size \div PAGE_MEM_SIZE) + 1
                    ELSE size \div PAGE_MEM_SIZE
    <3>1. k \in Nat
      BY <2>2
    <3> HIDE DEF k
    <3>2. k * PAGE_MEM_SIZE \in Nat
      BY <2>1, <3>1
    <3>3. (k * PAGE_MEM_SIZE) % WORD \in Nat
      BY <2>1, <3>2
    <3> QED BY <3>3 DEF mem_size_align, k
  <2> DEFINE a == mem_size_align(size)
  <2> HIDE DEF a
  <2>4. a \div PAGE_MEM_SIZE \in Nat
    BY <2>1, <2>3 DEF a
  <2> QED BY <2>4 DEF a
<1>2. /\ call.pc = "idle"
      /\ system_heap_start >= SYSTEM_HEAP_BASE
      /\ n > 0
      /\ VmallocExact(n) \/ VmallocSplit(n) \/ VmallocGrow(n)
  BY DEF vmalloc
<1> HIDE DEF n
<1>3. n \in Nat \ {0}
  BY <1>1, <1>2
<1> QED BY <1>2, <1>3, ExactFound, SplitFound, GrowFound

-----------------------------------------------------------------------------
(* The address space is kept by every step.                                *)

(* A step inside a loop.                                                   *)
LEMMA LoopSpace ==
    ASSUME Space, call.pc # "idle", Types',
           UNCHANGED <<blocks, system_heap_start, live>>,
           call'.start = call.start, call'.pages = call.pages, call'.pc # "idle",
           call'.todo <= call.pages,
           call'.pc \in {"map", "freed"} => call'.todo < call.pages,
           call'.pc = "undone" => call'.todo > 1
    PROVE  Space'
<1>1. /\ Tiles(blocks, Top(system_heap_start))
      /\ \E i \in 1 .. Len(blocks) : /\ blocks[i].p_start_addr = call.start
                                     /\ blocks[i].alloc_page_num = call.pages
      /\ call.start \notin live
      /\ Used(blocks) \ {call.start} = live
  BY DEF Space, InBlock, Owned
<1>2. blocks' = blocks /\ system_heap_start' = system_heap_start /\ live' = live
  OBVIOUS
<1>3. Tiles(blocks, Top(system_heap_start))'
  BY <1>1, <1>2
<1>4. InBlock'
  BY <1>1, <1>2 DEF InBlock
<1>5. Owned'
  BY <1>1, <1>2 DEF Owned
<1> QED BY <1>3, <1>4, <1>5 DEF Space

(* A call ends.                                                            *)
LEMMA EndSpace ==
    ASSUME Space, call.pc # "idle", NEW free \in BOOLEAN, SetFree(free), call' = Idle,
           live' = IF free THEN live ELSE live \cup {call.start},
           UNCHANGED <<bitmap, system_heap_start, page_dir, pte, other, table_failed>>
    PROVE  Space'
<1>1. /\ blocks' \in Seq(BlockType)
      /\ Tiles(blocks', Top(system_heap_start))
      /\ Used(blocks') = live'
  BY SetFreeIs
<1>2. Types'
  BY <1>1, IdleIs DEF Space, Types
<1>3. Tiles(blocks, Top(system_heap_start))'
  BY <1>1
<1>4. InBlock'
  BY IdleIs DEF InBlock
<1>5. \A i \in 1 .. Len(blocks') : blocks'[i].p_start_addr # 0
  BY <1>1, Ends
<1>6. 0 \notin live'
  BY <1>1, <1>5 DEF Used
<1>7. Owned'
  BY <1>1, <1>6, IdleIs DEF Owned
<1> QED BY <1>2, <1>3, <1>4, <1>7 DEF Space

LEMMA BeginIs ==
    ASSUME NEW start \in Nat, NEW n \in Nat, Begin(start, n)
    PROVE  /\ call' \in CallType
           /\ call'.pc = "page" /\ call'.start = start /\ call'.pages = n
           /\ call'.todo = 0 /\ call'.frame = 0 /\ ~ call'.fail
           /\ UNCHANGED <<page_dir, pte, other, live, lost, table_failed>>
BY DEF Begin, Idle, CallType, history

LEMMA VmallocSpace ==
    ASSUME Space, NEW size \in Requests, vmalloc(size)
    PROVE  Space'
<1>1. bitmap' \in SUBSET Nat
  BY VmallocBegins
<1>2. PICK start \in Nat, n \in Nat \ {0} : Found(start, n) /\ Begin(start, n)
  BY VmallocBegins
<1>3. /\ call' \in CallType
      /\ call'.pc = "page" /\ call'.start = start /\ call'.pages = n
      /\ call'.todo = 0
      /\ UNCHANGED <<page_dir, pte, other, live, table_failed>>
  BY <1>2, BeginIs
<1>4. Types'
  BY <1>1, <1>2, <1>3 DEF Found, Space, Types
<1>5. Tiles(blocks, Top(system_heap_start))'
  BY <1>2 DEF Found
<1>6. InBlock'
  BY <1>2, <1>3 DEF Found, InBlock
<1>7. Owned'
  BY <1>2, <1>3 DEF Found, Owned
<1> QED BY <1>4, <1>5, <1>6, <1>7 DEF Space

(* vfree finds the block of the address.                                   *)
LEMMA VfreeFinds ==
    ASSUME Space, NEW addr \in live, vfree(addr)
    PROVE  \E i \in 1 .. Len(blocks) :
              /\ blocks[i].p_start_addr = addr
              /\ call' = [Idle EXCEPT !.pc = "free", !.start = addr,
                                      !.pages = blocks[i].alloc_page_num]
<1>1. call.pc = "idle"
  BY DEF vfree
<1>2. Used(blocks) = live
  BY <1>1, WhenIdle
<1>3. \E j \in 1 .. Len(blocks) : blocks[j].p_start_addr = addr
  BY <1>2 DEF Used
<1> DEFINE i == CHOOSE j \in DOMAIN blocks : blocks[j].p_start_addr = addr
<1>4. DOMAIN blocks = 1 .. Len(blocks)
  BY SeqFacts DEF Space, Types
<1>5. i \in 1 .. Len(blocks) /\ blocks[i].p_start_addr = addr
  BY <1>3, <1>4
<1>6. call' = [Idle EXCEPT !.pc = "free", !.start = addr, !.pages = blocks[i].alloc_page_num]
  BY DEF vfree
<1> QED BY <1>5, <1>6

LEMMA VfreeSpace ==
    ASSUME Space, NEW addr \in live, vfree(addr)
    PROVE  Space'
<1>1. /\ call.pc = "idle"
      /\ live' = live \ {addr}
      /\ UNCHANGED <<bitmap, blocks, system_heap_start, page_dir, pte, other, table_failed>>
  BY DEF vfree, alloc_vars
<1>2. PICK i \in 1 .. Len(blocks) :
        /\ blocks[i].p_start_addr = addr
        /\ call' = [Idle EXCEPT !.pc = "free", !.start = addr,
                                !.pages = blocks[i].alloc_page_num]
  BY VfreeFinds
<1>3. blocks[i] \in BlockType
  BY SeqFacts DEF Space, Types
<1>4. /\ call' \in CallType
      /\ call'.pc = "free" /\ call'.start = addr /\ call'.pages = blocks[i].alloc_page_num
      /\ call'.todo = 0
  BY <1>2, <1>3 DEF BlockType, Idle, CallType
<1>5. Types'
  BY <1>1, <1>4 DEF Space, Types
<1>6. Tiles(blocks, Top(system_heap_start))'
  BY <1>1 DEF Space
<1>7. InBlock'
  BY <1>1, <1>2, <1>3, <1>4 DEF InBlock, BlockType
<1>8. Used(blocks) = live
  BY <1>1, WhenIdle
<1>9. Owned'
  BY <1>1, <1>4, <1>8 DEF Owned
<1> QED BY <1>5, <1>6, <1>7, <1>9 DEF Space

LEMMA TakeFrameSpace == ASSUME Space, TakeFrame PROVE Space'
<1>1. /\ call.pc = "page" /\ call.todo < call.pages
      /\ Mem!Take(Mem!alloc_mem_page)
      /\ call' = [call EXCEPT !.pc = "map", !.frame = Mem!alloc_mem_page]
      /\ UNCHANGED <<blocks, system_heap_start, page_dir, pte, other, live, table_failed>>
  BY DEF TakeFrame, history
<1>2. Types /\ call \in CallType /\ bitmap \in SUBSET Nat
  BY DEF Space, Types
<1>3. Mem!alloc_mem_page \in Nat /\ bitmap' \in SUBSET Nat
  BY <1>1, <1>2, AllocAnswers, TakeTyped
<1>4. /\ call' \in CallType
      /\ call'.pc = "map" /\ call'.start = call.start /\ call'.pages = call.pages
      /\ call'.todo = call.todo
  BY <1>1, <1>2, <1>3 DEF CallType
<1>5. Types'
  BY <1>1, <1>2, <1>3, <1>4 DEF Types
<1>6. call.todo \in Nat /\ call.pages \in Nat
  BY <1>2 DEF CallType
<1> QED BY <1>1, <1>4, <1>5, <1>6, LoopSpace

LEMMA OutOfFramesSpace == ASSUME Space, OutOfFrames PROVE Space'
<1>1. /\ call.pc = "page" /\ call.todo < call.pages
      /\ call' = [call EXCEPT !.pc = "undo", !.fail = TRUE]
      /\ UNCHANGED <<bitmap, blocks, system_heap_start, page_dir, pte, other, live, table_failed>>
  BY DEF OutOfFrames, BreakOut, alloc_vars, history
<1>2. Types /\ call \in CallType
  BY DEF Space, Types
<1>3. /\ call' \in CallType
      /\ call'.pc = "undo" /\ call'.start = call.start /\ call'.pages = call.pages
      /\ call'.todo = call.todo
  BY <1>1, <1>2 DEF CallType
<1>4. Types'
  BY <1>1, <1>2, <1>3 DEF Types
<1>5. call.todo \in Nat /\ call.pages \in Nat
  BY <1>2 DEF CallType
<1> QED BY <1>1, <1>3, <1>4, <1>5, LoopSpace

(* The page in the loop's hands belongs to the block.                      *)
LEMMA TodoInBlock ==
    ASSUME Space,
           \/ call.pc \in {"map", "freed"}
           \/ call.pc \in {"page", "free"} /\ call.todo < call.pages
    PROVE  /\ call.todo \in 0 .. call.pages - 1
           /\ Addr(call.todo) \in HeapPages
<1>1. call.todo \in Nat /\ call.pages \in Nat /\ call.todo < call.pages /\ call.pc # "idle"
  BY DEF Space, Types, CallType, InBlock
<1>2. call.todo \in 0 .. call.pages - 1
  BY <1>1
<1> QED BY <1>1, <1>2, CallPage

(* The loops turn to another page.                                         *)
LEMMA TurnIs ==
    ASSUME call \in CallType, NEW p \in {"page", "undo", "free"}, NEW t \in Nat,
           NEW f \in BOOLEAN,
           call' = [call EXCEPT !.pc = p, !.todo = t, !.frame = NULL, !.fail = f]
    PROVE  /\ call' \in CallType
           /\ call'.pc = p /\ call'.start = call.start /\ call'.pages = call.pages
           /\ call'.todo = t /\ call'.frame = NULL /\ call'.fail = f
BY NullIs DEF CallType

LEMMA TurnKeepsFail ==
    ASSUME call \in CallType, NEW p \in {"page", "undo", "free"}, NEW t \in Nat,
           call' = [call EXCEPT !.pc = p, !.todo = t, !.frame = NULL]
    PROVE  /\ call' \in CallType
           /\ call'.pc = p /\ call'.start = call.start /\ call'.pages = call.pages
           /\ call'.todo = t /\ call'.frame = NULL /\ call'.fail = call.fail
BY NullIs DEF CallType

LEMMA MapFrameSpace == ASSUME Space, MapFrame PROVE Space'
<1>1. /\ call.pc = "map"
      /\ do_mem_mapping(Addr(call.todo), call.frame)
      /\ call' = [call EXCEPT !.pc = "page", !.todo = @ + 1, !.frame = NULL]
      /\ UNCHANGED <<blocks, system_heap_start, other, live, table_failed>>
  BY DEF MapFrame
<1>2. Types /\ call \in CallType
  BY DEF Space, Types
<1>3. call.todo \in 0 .. call.pages - 1 /\ Addr(call.todo) \in HeapPages
  BY <1>1, TodoInBlock
<1>4. call.frame \in Nat /\ call.todo \in Nat /\ call.pages \in Nat
  BY <1>2 DEF CallType
<1>5. /\ bitmap' \in SUBSET Nat
      /\ page_dir' \in [Tables -> Nat]
      /\ pte' \in [HeapPages -> Nat]
  BY <1>1, <1>2, <1>3, <1>4, MappingTyped
<1> DEFINE next == call.todo + 1
<1>6. next \in Nat /\ call' = [call EXCEPT !.pc = "page", !.todo = next, !.frame = NULL]
  BY <1>1, <1>4
<1> HIDE DEF next
<1>7. /\ call' \in CallType
      /\ call'.pc = "page" /\ call'.start = call.start /\ call'.pages = call.pages
      /\ call'.todo = next
  BY <1>2, <1>6, TurnKeepsFail
<1>8. Types'
  BY <1>1, <1>2, <1>5, <1>7 DEF Types
<1>9. next <= call.pages
  BY <1>3, <1>4 DEF next
<1> QED BY <1>1, <1>7, <1>8, <1>9, LoopSpace

LEMMA MapFailsSpace == ASSUME Space, MapFails PROVE Space'
<1>1. /\ call.pc = "map"
      /\ Mem!free_mem_page(call.frame)
      /\ call' = [call EXCEPT !.pc = "page", !.todo = @ + 1, !.frame = NULL, !.fail = TRUE]
      /\ table_failed' = TRUE
      /\ UNCHANGED <<blocks, system_heap_start, page_dir, pte, other, live>>
  BY DEF MapFails, AfterMapFailure
<1>2. Types /\ call \in CallType /\ bitmap \in SUBSET Nat
  BY DEF Space, Types
<1>3. call.todo \in 0 .. call.pages - 1
  BY <1>1, TodoInBlock
<1>4. call.frame \in Nat /\ call.todo \in Nat /\ call.pages \in Nat
  BY <1>2 DEF CallType
<1>5. bitmap' \in SUBSET Nat
  BY <1>1, <1>2, <1>4, GiveTyped
<1> DEFINE next == call.todo + 1
<1>6. next \in Nat /\ call' = [call EXCEPT !.pc = "page", !.todo = next, !.frame = NULL, !.fail = TRUE]
  BY <1>1, <1>4
<1> HIDE DEF next
<1>7. /\ call' \in CallType
      /\ call'.pc = "page" /\ call'.start = call.start /\ call'.pages = call.pages
      /\ call'.todo = next
  BY <1>2, <1>6, TurnIs
<1>8. Types'
  BY <1>1, <1>2, <1>5, <1>7 DEF Types
<1>9. next <= call.pages
  BY <1>3, <1>4 DEF next
<1> QED BY <1>1, <1>7, <1>8, <1>9, LoopSpace

LEMMA VmallocReturnsSpace == ASSUME Space, VmallocReturns PROVE Space'
<1>1. /\ call.pc # "idle" /\ SetFree(FALSE) /\ call' = Idle
      /\ live' = live \cup {call.start}
      /\ UNCHANGED <<bitmap, system_heap_start, page_dir, pte, other, table_failed>>
  BY DEF VmallocReturns, Done, alloc_vars
<1> QED BY <1>1, EndSpace

LEMMA LoopEndsAfterFailureSpace == ASSUME Space, LoopEndsAfterFailure PROVE Space'
<1>1. /\ call.pc = "page" /\ call.todo = call.pages
      /\ call' = [call EXCEPT !.pc = "undo"]
      /\ UNCHANGED <<bitmap, blocks, system_heap_start, page_dir, pte, other, live, table_failed>>
  BY DEF LoopEndsAfterFailure, alloc_vars, history
<1>2. Types /\ call \in CallType
  BY DEF Space, Types
<1>3. /\ call' \in CallType
      /\ call'.pc = "undo" /\ call'.start = call.start /\ call'.pages = call.pages
      /\ call'.todo = call.todo
  BY <1>1, <1>2 DEF CallType
<1>4. Types'
  BY <1>1, <1>2, <1>3 DEF Types
<1>5. call.todo \in Nat /\ call.pages \in Nat
  BY <1>2 DEF CallType
<1> QED BY <1>1, <1>3, <1>4, <1>5, LoopSpace

(* The page the undo loop visits.                                          *)
LEMMA UndoInBlock ==
    ASSUME Space, call.pc \in {"undo", "undone"}, call.todo > 1
    PROVE  /\ call.todo - 2 \in 0 .. call.pages - 1
           /\ Addr(call.todo - 2) \in HeapPages
<1>1. call.todo \in Nat /\ call.pages \in Nat /\ call.todo <= call.pages /\ call.pc # "idle"
  BY DEF Space, Types, CallType, InBlock
<1>2. call.todo - 2 \in 0 .. call.pages - 1
  BY <1>1
<1> QED BY <1>1, <1>2, CallPage

LEMMA ClearSpace ==
    ASSUME Space, NEW a \in HeapPages, ClearEntry(a, "undone") \/ ClearEntry(a, "freed"),
           call.pc # "idle",
           ClearEntry(a, "undone") => call.todo > 1,
           ClearEntry(a, "freed") => call.todo < call.pages
    PROVE  Space'
<1>1. Types /\ call \in CallType /\ call.todo \in Nat /\ call.pages \in Nat /\ call.todo <= call.pages
  BY DEF Space, Types, CallType, InBlock
<1>2. ASSUME NEW next \in {"undone", "freed"}, ClearEntry(a, next),
             next = "undone" => call.todo > 1, next = "freed" => call.todo < call.pages
      PROVE  Space'
  <2>1. /\ bitmap' \in SUBSET Nat
        /\ page_dir' \in [Tables -> Nat]
        /\ pte' \in [HeapPages -> Nat]
        /\ \E frame \in Nat : call' = [call EXCEPT !.pc = next, !.frame = frame]
        /\ UNCHANGED <<blocks, system_heap_start, other, live, table_failed>>
    BY <1>1, <1>2, ClearTyped DEF history
  <2>2. /\ call' \in CallType
        /\ call'.pc = next /\ call'.start = call.start /\ call'.pages = call.pages
        /\ call'.todo = call.todo
    BY <1>1, <2>1 DEF CallType
  <2>3. Types'
    BY <1>1, <2>1, <2>2 DEF Types
  <2> QED BY <1>1, <1>2, <2>1, <2>2, <2>3, LoopSpace
<1> QED BY <1>2

LEMMA ReleaseSpace ==
    ASSUME Space, UndoRelease \/ FreeRelease
    PROVE  Space'
<1>1. Types /\ call \in CallType /\ bitmap \in SUBSET Nat /\ call.todo \in Nat
      /\ call.pages \in Nat /\ call.frame \in Nat /\ call.todo <= call.pages
  BY DEF Space, Types, CallType, InBlock, UndoRelease, FreeRelease
<1>2. /\ Mem!free_mem_page(call.frame)
      /\ UNCHANGED <<blocks, system_heap_start, page_dir, pte, other, live, table_failed>>
  BY DEF UndoRelease, FreeRelease, history
<1>3. bitmap' \in SUBSET Nat
  BY <1>1, <1>2, GiveTyped
<1>4. CASE UndoRelease
  <2>1. /\ call.pc = "undone"
        /\ call' = [call EXCEPT !.pc = "undo", !.todo = @ - 1, !.frame = NULL]
    BY <1>4 DEF UndoRelease
  <2>2. call.todo > 1
    BY <2>1 DEF Space, InBlock
  <2> DEFINE next == call.todo - 1
  <2>3. /\ next \in Nat /\ next <= call.pages
        /\ call' = [call EXCEPT !.pc = "undo", !.todo = next, !.frame = NULL]
    BY <1>1, <2>1, <2>2
  <2> HIDE DEF next
  <2>4. /\ call' \in CallType
        /\ call'.pc = "undo" /\ call'.start = call.start /\ call'.pages = call.pages
        /\ call'.todo = next
    BY <1>1, <2>3, TurnKeepsFail
  <2>5. Types'
    BY <1>1, <1>2, <1>3, <2>4 DEF Types
  <2> QED BY <1>2, <2>1, <2>3, <2>4, <2>5, LoopSpace
<1>5. CASE FreeRelease
  <2>1. /\ call.pc = "freed"
        /\ call' = [call EXCEPT !.pc = "free", !.todo = @ + 1, !.frame = NULL]
    BY <1>5 DEF FreeRelease
  <2>2. call.todo < call.pages
    BY <2>1 DEF Space, InBlock
  <2> DEFINE next == call.todo + 1
  <2>3. /\ next \in Nat /\ next <= call.pages
        /\ call' = [call EXCEPT !.pc = "free", !.todo = next, !.frame = NULL]
    BY <1>1, <2>1, <2>2
  <2> HIDE DEF next
  <2>4. /\ call' \in CallType
        /\ call'.pc = "free" /\ call'.start = call.start /\ call'.pages = call.pages
        /\ call'.todo = next
    BY <1>1, <2>3, TurnKeepsFail
  <2>5. Types'
    BY <1>1, <1>2, <1>3, <2>4 DEF Types
  <2> QED BY <1>2, <2>1, <2>3, <2>4, <2>5, LoopSpace
<1> QED BY <1>4, <1>5

LEMMA CallEndsSpace == ASSUME Space, VmallocFails \/ VfreeReturns PROVE Space'
<1>1. /\ call.pc # "idle" /\ SetFree(TRUE) /\ call' = Idle /\ live' = live
      /\ UNCHANGED <<bitmap, system_heap_start, page_dir, pte, other, table_failed>>
  BY DEF VmallocFails, VfreeReturns, alloc_vars, history
<1> QED BY <1>1, EndSpace

(* Nothing of the heap changes.                                            *)
LEMMA SameSpace ==
    ASSUME Space, bitmap' \in SUBSET Nat, other' \in SUBSET Nat,
           UNCHANGED <<blocks, system_heap_start, page_dir, pte, live, table_failed, call>>
    PROVE  Space'
BY DEF Space, Types, InBlock, Owned

LEMMA OtherSpace == ASSUME Space, OtherAlloc \/ OtherFree PROVE Space'
<1>1. UNCHANGED <<blocks, system_heap_start, page_dir, pte, live, table_failed, call>>
  BY DEF OtherAlloc, OtherFree, history
<1>2. bitmap \in SUBSET Nat /\ other \in SUBSET Nat
  BY DEF Space, Types
<1>3. bitmap' \in SUBSET Nat /\ other' \in SUBSET Nat
  <2>1. CASE OtherAlloc
    <3>1. Mem!alloc_mem_page \in Nat
      BY <1>2, AllocAnswers
    <3>2. Mem!Take(Mem!alloc_mem_page) /\ other' = other \cup {Mem!alloc_mem_page}
      BY <2>1 DEF OtherAlloc
    <3> QED BY <1>2, <3>1, <3>2, TakeTyped
  <2>2. CASE OtherFree
    <3>1. PICK p \in other : Mem!free_mem_page(p) /\ other' = other \ {p}
      BY <2>2 DEF OtherFree
    <3>2. p \in Nat
      BY <1>2
    <3> QED BY <1>2, <3>1, <3>2, GiveTyped
  <2> QED BY <2>1, <2>2
<1> QED BY <1>1, <1>3, SameSpace

LEMMA NextSpace == ASSUME Space, [Next]_vars PROVE Space'
<1>1. CASE UNCHANGED vars
  <2>1. bitmap \in SUBSET Nat /\ other \in SUBSET Nat
    BY DEF Space, Types
  <2>2. UNCHANGED <<bitmap, blocks, system_heap_start, page_dir, pte, other, live,
                    table_failed, call>>
    BY <1>1 DEF vars
  <2> QED BY <2>1, <2>2, SameSpace
<1>2. ASSUME NEW size \in Requests, vmalloc(size) PROVE Space'
  BY <1>2, VmallocSpace
<1>3. ASSUME NEW addr \in live, vfree(addr) PROVE Space'
  BY <1>3, VfreeSpace
<1>4. ASSUME Proceed PROVE Space'
  <2>1. CASE UndoPage
    <3>1. /\ call.pc = "undo" /\ call.todo > 1
          /\ ClearEntry(Addr(call.todo - 2), "undone")
      BY <2>1 DEF UndoPage
    <3>2. Addr(call.todo - 2) \in HeapPages
      BY <3>1, UndoInBlock
    <3>3. ~ ClearEntry(Addr(call.todo - 2), "freed") \/ call.todo < call.pages
      <4>1. ASSUME ClearEntry(Addr(call.todo - 2), "freed") PROVE FALSE
        <5>1. call \in CallType
          BY DEF Space, Types
        <5> QED BY <3>1, <4>1, <5>1 DEF ClearEntry, CallType
      <4> QED BY <4>1
    <3> QED BY <3>1, <3>2, <3>3, ClearSpace
  <2>2. CASE FreePage
    <3>1. /\ call.pc = "free" /\ call.todo < call.pages
          /\ ClearEntry(Addr(call.todo), "freed")
      BY <2>2 DEF FreePage
    <3>2. Addr(call.todo) \in HeapPages
      BY <3>1, TodoInBlock
    <3>3. ~ ClearEntry(Addr(call.todo), "undone") \/ call.todo > 1
      <4>1. ASSUME ClearEntry(Addr(call.todo), "undone") PROVE FALSE
        <5>1. call \in CallType
          BY DEF Space, Types
        <5> QED BY <3>1, <4>1, <5>1 DEF ClearEntry, CallType
      <4> QED BY <4>1
    <3> QED BY <3>1, <3>2, <3>3, ClearSpace
  <2> QED BY <1>4, <2>1, <2>2, TakeFrameSpace, OutOfFramesSpace, MapFrameSpace, MapFailsSpace,
             VmallocReturnsSpace, LoopEndsAfterFailureSpace, ReleaseSpace, CallEndsSpace
          DEF Proceed
<1>5. ASSUME OtherAlloc \/ OtherFree PROVE Space'
  BY <1>5, OtherSpace
<1> QED BY <1>1, <1>2, <1>3, <1>4, <1>5 DEF Next

LEMMA StartType == Mem!available_mem_start \in Nat \ {0}
<1> DEFINE size == Mem!mem_bitmap_size
           addr == free_mem_start + size
           P == PAGE_MEM_SIZE
<1>1. P \in Nat \ {0} /\ free_mem_start \in Nat \ {0} /\ BITS \in Nat \ {0}
      /\ physical_mem_size \in Nat
  BY MemoryAssumption DEF Mem!SizeAssumption
<1>2. size \in Nat
  <2>1. physical_mem_size \div P \in Nat
    BY <1>1
  <2> DEFINE q == physical_mem_size \div P
  <2> HIDE DEF q
  <2>2. q \div BITS \in Nat
    BY <1>1, <2>1 DEF q
  <2> QED BY <2>2 DEF Mem!mem_bitmap_size, q
<1> HIDE DEF size
<1>3. addr \in Nat \ {0}
  BY <1>1, <1>2
<1> HIDE DEF addr
<1>4. addr % P \in 0 .. P - 1 /\ (addr % P = 0 \/ addr - (addr % P) + P \in Nat \ {0})
  <2>1. addr % P \in 0 .. P - 1 /\ addr % P <= addr
    BY <1>1, <1>3
  <2> QED BY <1>1, <1>3, <2>1
<1>5. Mem!AlignUp(addr) \in Nat \ {0}
  BY <1>3, <1>4 DEF Mem!AlignUp
<1> QED BY <1>5 DEF Mem!available_mem_start, addr, size

LEMMA NoPages == Mem!ManagedPages \subseteq Nat \ {0}
<1>1. physical_mem_size \in Nat
  BY MemoryAssumption DEF Mem!SizeAssumption
<1> QED BY <1>1, StartType DEF Mem!ManagedPages

LEMMA InitSpace == ASSUME Init PROVE Space
<1>1. /\ bitmap = Mem!ManagedPages
      /\ blocks = <<>>
      /\ system_heap_start = SYSTEM_HEAP_BASE
      /\ page_dir = [t \in Tables |-> NULL]
      /\ pte = [a \in HeapPages |-> NULL]
      /\ other = {}
      /\ live = {}
      /\ table_failed = FALSE
      /\ call = Idle
  BY DEF Init, Mem!physical_mem_init
<1>2. Types
  <2>1. bitmap \in SUBSET Nat /\ other \in SUBSET Nat
    BY <1>1, NoPages
  <2>2. <<>> \in Seq(BlockType)
    OBVIOUS
  <2>3. page_dir \in [Tables -> Nat] /\ pte \in [HeapPages -> Nat]
    BY <1>1, NullIs
  <2>4. system_heap_start \in Nat /\ table_failed \in BOOLEAN /\ call \in CallType
    BY <1>1, HeapType, IdleIs
  <2> QED BY <1>1, <2>1, <2>2, <2>3, <2>4 DEF Types
<1>3. Top(system_heap_start) = SYSTEM_HEAP_BASE
  BY <1>1, HeapType DEF Top
<1>4. Tiles(blocks, SYSTEM_HEAP_BASE)
  <2>1. 1 .. Len(blocks) = {}
    BY <1>1
  <2>2. \A a \in HeapPages : ~ (a < SYSTEM_HEAP_BASE)
    BY HeapType
  <2>3. SYSTEM_HEAP_BASE \in SYSTEM_HEAP_BASE .. WORD /\ SYSTEM_HEAP_BASE % PAGE_MEM_SIZE = 0
    BY HeapType
  <2> QED BY <2>1, <2>2, <2>3 DEF Tiles
<1>5. InBlock
  BY <1>1, IdleIs DEF InBlock
<1>6. Owned
  BY <1>1 DEF Owned, Used
<1> QED BY <1>2, <1>3, <1>4, <1>5, <1>6 DEF Space

(* What the runs check of the address space follows.                       *)
LEMMA SpaceTiled == ASSUME Space PROVE BlocksTile
<1> DEFINE m == Len(blocks)
           top == Top(system_heap_start)
<1>1. /\ blocks \in Seq(BlockType)
      /\ Tiles(blocks, top)
      /\ system_heap_start \in Nat
  BY DEF Space, Types
<1>2. DOMAIN blocks = 1 .. m
  BY <1>1, SeqFacts
<1>3. \A i \in 1 .. m :
         /\ blocks[i].p_start_addr \in Nat
         /\ End(blocks[i]) \in Nat
         /\ End(blocks[i]) <= top
         /\ PagesOf(blocks[i]) =
               {a \in HeapPages : blocks[i].p_start_addr <= a /\ a < End(blocks[i])}
  BY <1>1, Ends
<1>4. top \in Nat /\ WORD \in Nat /\ \A a \in HeapPages : a \in Nat /\ a < WORD
  BY <1>1, Ends, HeapType
<1>5. ASSUME NEW i \in 1 .. m, NEW j \in 1 .. m, i # j
      PROVE  PagesOf(blocks[i]) \cap PagesOf(blocks[j]) = {}
  <2>1. End(blocks[i]) <= blocks[j].p_start_addr \/ End(blocks[j]) <= blocks[i].p_start_addr
    BY <1>1, <1>5 DEF Tiles
  <2>2. ASSUME NEW a \in PagesOf(blocks[i]), a \in PagesOf(blocks[j]) PROVE FALSE
    <3>1. /\ a \in HeapPages
          /\ blocks[i].p_start_addr <= a /\ a < End(blocks[i])
          /\ blocks[j].p_start_addr <= a /\ a < End(blocks[j])
      BY <1>3, <2>2
    <3> QED BY <1>3, <1>4, <2>1, <3>1
  <2> QED BY <2>2
<1>6. ASSUME NEW a \in HeapPages
      PROVE  a < top <=> (system_heap_start = 0 \/ a < system_heap_start)
  <2>1. a < WORD
    BY <1>4
  <2> QED BY <2>1 DEF Top
<1>7. ASSUME NEW a \in HeapPages, a < top PROVE \E i \in 1 .. m : a \in PagesOf(blocks[i])
  <2>1. PICK i \in 1 .. m : blocks[i].p_start_addr <= a /\ a < End(blocks[i])
    BY <1>1, <1>7 DEF Tiles
  <2> QED BY <1>3, <2>1
<1>8. ASSUME NEW i \in 1 .. m, NEW a \in PagesOf(blocks[i])
      PROVE  a \in HeapPages /\ a < top
  <2>1. a \in HeapPages /\ a < End(blocks[i])
    BY <1>3
  <2> QED BY <1>3, <1>4, <2>1
<1> HIDE DEF top
<1>9. UNION {PagesOf(blocks[i]) : i \in 1 .. m} = {a \in HeapPages : a < top}
  BY <1>7, <1>8
<1>10. {a \in HeapPages : a < top} =
          {a \in HeapPages : system_heap_start = 0 \/ a < system_heap_start}
  BY <1>6
<1> QED BY <1>2, <1>5, <1>9, <1>10 DEF BlocksTile

LEMMA SpaceMatched == ASSUME Space PROVE BlocksMatchCallers
<1>1. ASSUME call.pc = "idle"
      PROVE  {blocks[i].p_start_addr : i \in {j \in DOMAIN blocks : ~ blocks[j].is_free}} = live
  <2>1. DOMAIN blocks = 1 .. Len(blocks)
    BY SeqFacts DEF Space, Types
  <2>2. Used(blocks) = live
    BY <1>1, WhenIdle
  <2> QED BY <2>1, <2>2 DEF Used
<1> QED BY <1>1 DEF BlocksMatchCallers

-----------------------------------------------------------------------------
(* How pages move between their uses.                                      *)

LEMMA TakenByHand ==
    ASSUME NEW b, NEW m, NEW t, NEW d, NEW l, NEW o, Apart(b, m, t, {}, d, l, o), NEW p \in b
    PROVE  Apart(b \ {p}, m, t, {p}, d, l, o)
BY DEF Apart

LEMMA TakenByTable ==
    ASSUME NEW b, NEW m, NEW t, NEW h, NEW d, NEW l, NEW o, Apart(b, m, t, h, d, l, o), NEW p \in b
    PROVE  Apart(b \ {p}, m, t \cup {p}, h, d, l, o)
BY DEF Apart

LEMMA TakenByDescriptors ==
    ASSUME NEW b, NEW m, NEW t, NEW h, NEW d, NEW l, NEW o, Apart(b, m, t, h, d, l, o), NEW p \in b
    PROVE  Apart(b \ {p}, m, t, h, d \cup {p}, l, o)
BY DEF Apart

LEMMA TakenByOthers ==
    ASSUME NEW b, NEW m, NEW t, NEW h, NEW d, NEW l, NEW o, Apart(b, m, t, h, d, l, o), NEW p \in b
    PROVE  Apart(b \ {p}, m, t, h, d, l, o \cup {p})
BY DEF Apart

LEMMA GivenByOthers ==
    ASSUME NEW b, NEW m, NEW t, NEW h, NEW d, NEW l, NEW o, Apart(b, m, t, h, d, l, o), NEW p \in o
    PROVE  Apart(b \cup {p}, m, t, h, d, l, o \ {p})
BY DEF Apart

LEMMA GivenByHand ==
    ASSUME NEW b, NEW m, NEW t, NEW d, NEW l, NEW o, NEW p, Apart(b, m, t, {p}, d, l, o)
    PROVE  Apart(b \cup {p}, m, t, {}, d, l, o)
BY DEF Apart

LEMMA HandToEntry ==
    ASSUME NEW b, NEW m, NEW t, NEW d, NEW l, NEW o, NEW p, Apart(b, m, t, {p}, d, l, o),
           NEW old, old \subseteq m
    PROVE  Apart(b, (m \ old) \cup {p}, t, {}, d, l \cup old, o)
BY DEF Apart

LEMMA EntryToHand ==
    ASSUME NEW b, NEW m, NEW t, NEW d, NEW l, NEW o, Apart(b, m, t, {}, d, l, o), NEW p \in m
    PROVE  Apart(b, m \ {p}, t, {p}, d, l, o)
BY DEF Apart

(* Writing an entry exchanges its frame.                                   *)
LEMMA MappedAfter ==
    ASSUME pte \in [HeapPages -> Nat], Entries(pte, page_dir),
           NEW a \in HeapPages, NEW f \in Nat, pte' = [pte EXCEPT ![a] = f]
    PROVE  /\ Mapped' = (Mapped \ {pte[a]}) \cup ({f} \ {NULL})
           /\ ({pte[a]} \ {NULL}) \subseteq Mapped
           /\ Mapped \ {pte[a]} = Mapped \ ({pte[a]} \ {NULL})
<1>1. /\ Mapped = {pte[x] : x \in HeapPages} \ {NULL}
      /\ Mapped' = {pte'[x] : x \in HeapPages} \ {NULL}
  BY DEF Mapped, Frames, NULL, Mem!NULL
<1>2. /\ pte'[a] = f
      /\ \A x \in HeapPages \ {a} : pte'[x] = pte[x]
  OBVIOUS
<1>3. \A x \in HeapPages \ {a} : pte[x] # NULL => pte[x] # pte[a]
  BY DEF Entries
<1>4. ASSUME NEW y \in Mapped' PROVE y \in (Mapped \ {pte[a]}) \cup ({f} \ {NULL})
  <2>1. PICK x \in HeapPages : y = pte'[x] /\ y # NULL
    BY <1>1
  <2> QED BY <1>1, <1>2, <1>3, <2>1
<1>5. ASSUME NEW y \in (Mapped \ {pte[a]}) \cup ({f} \ {NULL}) PROVE y \in Mapped'
  <2>1. CASE y \in Mapped \ {pte[a]}
    <3>1. PICK x \in HeapPages : y = pte[x] /\ y # NULL
      BY <1>1, <2>1
    <3>2. x # a
      BY <2>1, <3>1
    <3> QED BY <1>1, <1>2, <3>1, <3>2
  <2>2. CASE y \in {f} \ {NULL}
    BY <1>1, <1>2, <2>2
  <2> QED BY <1>5, <2>1, <2>2
<1>6. NULL \notin Mapped
  BY <1>1
<1> QED BY <1>1, <1>4, <1>5, <1>6

LEMMA TablesAfter ==
    ASSUME page_dir \in [Tables -> Nat], NEW t \in Tables, page_dir[t] = NULL,
           NEW p \in Nat \ {NULL}, page_dir' = [page_dir EXCEPT ![t] = p]
    PROVE  TablePages' = TablePages \cup {p}
<1>1. /\ TablePages = {page_dir[x] : x \in Tables} \ {NULL}
      /\ TablePages' = {page_dir'[x] : x \in Tables} \ {NULL}
  BY DEF TablePages, NULL, Mem!NULL
<1>2. page_dir'[t] = p /\ \A x \in Tables \ {t} : page_dir'[x] = page_dir[x]
  OBVIOUS
<1>3. ASSUME NEW y \in TablePages' PROVE y \in TablePages \cup {p}
  BY <1>1, <1>2
<1>4. ASSUME NEW y \in TablePages \cup {p} PROVE y \in TablePages'
  <2>1. CASE y = p
    BY <1>1, <1>2, <2>1
  <2>2. CASE y \in TablePages
    <3>1. PICK x \in Tables : y = page_dir[x] /\ y # NULL
      BY <1>1, <2>2
    <3> QED BY <1>1, <1>2, <3>1
  <2> QED BY <2>1, <2>2
<1> QED BY <1>3, <1>4

LEMMA EntriesAfter ==
    ASSUME pte \in [HeapPages -> Nat], Entries(pte, page_dir),
           NEW a \in HeapPages, NEW f \in Nat, f \notin Mapped,
           NEW d, \A t \in Tables : page_dir[t] # NULL => d[t] # NULL,
           f # NULL => d[Table(a)] # NULL
    PROVE  Entries([pte EXCEPT ![a] = f], d)
<1> DEFINE e == [pte EXCEPT ![a] = f]
<1>1. e[a] = f /\ \A x \in HeapPages \ {a} : e[x] = pte[x]
  OBVIOUS
<1>2. \A x \in HeapPages : pte[x] # NULL => pte[x] # f
  BY DEF Mapped, Frames
<1>3. \A x \in HeapPages : Table(x) \in Tables
  BY DEF Tables
<1> HIDE DEF e
<1>4. ASSUME NEW x \in HeapPages, NEW y \in HeapPages, e[x] # NULL, e[x] = e[y] PROVE x = y
  BY <1>1, <1>2, <1>4 DEF Entries
<1>5. ASSUME NEW x \in HeapPages, e[x] # NULL PROVE d[Table(x)] # NULL
  BY <1>1, <1>3, <1>5 DEF Entries
<1>6. Entries(e, d)
  BY <1>4, <1>5 DEF Entries
<1> QED BY <1>6 DEF e

(* What do_mem_mapping does to the pages.                                  *)
LEMMA Remapped ==
    ASSUME Types, OneUse, Entries(pte, page_dir), NEW a \in HeapPages, NEW f \in Nat,
           f \notin Mapped, do_mem_mapping(a, f)
    PROVE  /\ pte' = [pte EXCEPT ![a] = f]
           /\ Mapped' = (Mapped \ ({pte[a]} \ {NULL})) \cup ({f} \ {NULL})
           /\ Entries(pte', page_dir')
           /\ \/ UNCHANGED <<bitmap, free_mem_size, page_dir>> /\ TablePages' = TablePages
              \/ /\ Mem!alloc_mem_page # NULL
                 /\ Mem!alloc_mem_page \in bitmap
                 /\ Mem!Take(Mem!alloc_mem_page)
                 /\ TablePages' = TablePages \cup {Mem!alloc_mem_page}
<1>1. /\ pte \in [HeapPages -> Nat]
      /\ page_dir \in [Tables -> Nat]
      /\ bitmap \in SUBSET Nat
  BY DEF Types
<1>2. pte' = [pte EXCEPT ![a] = f]
  BY DEF do_mem_mapping
<1>3. Mapped' = (Mapped \ ({pte[a]} \ {NULL})) \cup ({f} \ {NULL})
  BY <1>1, <1>2, MappedAfter
<1>4. Table(a) \in Tables
  BY DEF Tables
<1>5. CASE page_dir[Table(a)] # NULL /\ UNCHANGED <<bitmap, free_mem_size, page_dir>>
  <2>1. TablePages' = TablePages
    BY <1>5 DEF TablePages, NULL, Mem!NULL
  <2>2. Entries([pte EXCEPT ![a] = f], page_dir)
    BY <1>1, <1>5, EntriesAfter
  <2>3. Entries(pte', page_dir')
    BY <1>2, <1>5, <2>2
  <2> QED BY <1>2, <1>3, <1>5, <2>1, <2>3
<1>6. CASE /\ page_dir[Table(a)] = NULL
           /\ Mem!alloc_mem_page # NULL
           /\ Mem!Take(Mem!alloc_mem_page)
           /\ page_dir' = [page_dir EXCEPT ![Table(a)] = Mem!alloc_mem_page]
  <2> DEFINE p == Mem!alloc_mem_page
             d == [page_dir EXCEPT ![Table(a)] = p]
  <2>1. p \in bitmap /\ p \in Nat \ {NULL}
    BY <1>1, <1>6, AllocAnswers, NullIs
  <2>2. /\ d[Table(a)] = p
        /\ \A t \in Tables \ {Table(a)} : d[t] = page_dir[t]
    BY <1>1, <1>4
  <2>3. page_dir' = d /\ page_dir[Table(a)] = NULL /\ Mem!Take(p)
    BY <1>6
  <2> HIDE DEF p
  <2>4. TablePages' = TablePages \cup {p}
    BY <1>1, <1>4, <2>1, <2>3, TablesAfter
  <2> HIDE DEF d
  <2>5. Entries([pte EXCEPT ![a] = f], d)
    <3>1. \A t \in Tables : page_dir[t] # NULL => d[t] # NULL
      BY <2>1, <2>2
    <3>2. d[Table(a)] # NULL
      BY <2>1, <2>2
    <3> QED BY <1>1, <3>1, <3>2, EntriesAfter
  <2>6. Entries(pte', page_dir')
    BY <1>2, <2>3, <2>5
  <2> QED BY <1>2, <1>3, <2>1, <2>3, <2>4, <2>6 DEF p
<1> QED BY <1>5, <1>6 DEF do_mem_mapping

-----------------------------------------------------------------------------
(* The page allocator's view: the history variable it is used with.        *)

Own == Mapped \cup TablePages \cup InHand \cup desc_pages \cup lost

HeldBy(own, o) == [c \in {"vmalloc", "other"} |-> IF c = "other" THEN o ELSE own]

LEMMA HeldIs ==
    ASSUME 0 \notin desc_pages, 0 \notin lost
    PROVE  Held = HeldBy(Own, other)
<1>1. Own = (Frames \cup {page_dir[t] : t \in Tables} \cup {call.frame}
                    \cup desc_pages \cup lost) \ {0}
  BY NullIs DEF Own, Mapped, TablePages, InHand
<1> QED BY <1>1 DEF Held, HeldBy

LEMMA HeldIsNext ==
    ASSUME 0 \notin desc_pages', 0 \notin lost'
    PROVE  Held' = HeldBy(Own', other')
<1>1. Own' = (Frames' \cup {page_dir'[t] : t \in Tables} \cup {call'.frame}
                    \cup desc_pages' \cup lost') \ {0}
  BY NullIs DEF Own, Mapped, TablePages, InHand, NULL, Mem!NULL
<1> QED BY <1>1 DEF Held, HeldBy

Keeps == Memory' /\ [Mem!Next]_Mem!vars

LEMMA NoNull ==
    ASSUME NEW b, NEW m, NEW t, NEW h, NEW d, NEW l, NEW o, Apart(b, m, t, h, d, l, o)
    PROVE  0 \notin d /\ 0 \notin l /\ 0 \notin o
BY NoPages DEF Apart

(* A step that takes, gives back or leaves alone the allocator's pages.    *)
LEMMA StepTakes ==
    ASSUME OneUse, OneUse', Mem!alloc_mem_page # NULL, Mem!Take(Mem!alloc_mem_page),
           \/ Own' = Own \cup {Mem!alloc_mem_page} /\ other' = other
           \/ Own' = Own /\ other' = other \cup {Mem!alloc_mem_page}
    PROVE  [Mem!Next]_Mem!vars
<1>1. Held = HeldBy(Own, other) /\ Held' = HeldBy(Own', other')
  <2>1. 0 \notin desc_pages /\ 0 \notin lost
    BY NoNull DEF OneUse
  <2>2. 0 \notin desc_pages' /\ 0 \notin lost'
    BY NoNull DEF OneUse
  <2> QED BY <2>1, <2>2, HeldIs, HeldIsNext
<1> DEFINE p == Mem!alloc_mem_page
<1>2. PICK c \in {"vmalloc", "other"} : Held' = [Held EXCEPT ![c] = @ \cup {p}]
  <2>1. CASE Own' = Own \cup {p} /\ other' = other
    <3>1. Held' = [Held EXCEPT !["vmalloc"] = @ \cup {p}]
      BY <1>1, <2>1 DEF HeldBy
    <3> QED BY <3>1
  <2>2. CASE Own' = Own /\ other' = other \cup {p}
    <3>1. Held' = [Held EXCEPT !["other"] = @ \cup {p}]
      BY <1>1, <2>2 DEF HeldBy
    <3> QED BY <3>1
  <2> QED BY <2>1, <2>2
<1>3. Mem!Alloc(c)
  BY <1>2, NullIs DEF Mem!Alloc, Mem!Grant
<1> QED BY <1>3 DEF Mem!Next

LEMMA StepGives ==
    ASSUME OneUse, OneUse', NEW p, Mem!free_mem_page(p),
           \/ p \in Own /\ Own' = Own \ {p} /\ other' = other
           \/ p \in other /\ Own' = Own /\ other' = other \ {p}
    PROVE  [Mem!Next]_Mem!vars
<1>1. Held = HeldBy(Own, other) /\ Held' = HeldBy(Own', other')
  <2>1. 0 \notin desc_pages /\ 0 \notin lost
    BY NoNull DEF OneUse
  <2>2. 0 \notin desc_pages' /\ 0 \notin lost'
    BY NoNull DEF OneUse
  <2> QED BY <2>1, <2>2, HeldIs, HeldIsNext
<1>2. PICK c \in {"vmalloc", "other"} : p \in Held[c] /\ Held' = [Held EXCEPT ![c] = @ \ {p}]
  <2>1. CASE p \in Own /\ Own' = Own \ {p} /\ other' = other
    <3>1. p \in Held["vmalloc"] /\ Held' = [Held EXCEPT !["vmalloc"] = @ \ {p}]
      BY <1>1, <2>1 DEF HeldBy
    <3> QED BY <3>1
  <2>2. CASE p \in other /\ Own' = Own /\ other' = other \ {p}
    <3>1. p \in Held["other"] /\ Held' = [Held EXCEPT !["other"] = @ \ {p}]
      BY <1>1, <2>2 DEF HeldBy
    <3> QED BY <3>1
  <2> QED BY <2>1, <2>2
<1>3. Mem!Free(c, p)
  BY <1>2 DEF Mem!Free
<1> QED BY <1>2, <1>3 DEF Mem!Next

LEMMA StepRests ==
    ASSUME OneUse, OneUse', UNCHANGED <<bitmap, free_mem_size, other>>, Own' = Own
    PROVE  [Mem!Next]_Mem!vars
<1>1. Held = HeldBy(Own, other) /\ Held' = HeldBy(Own', other')
  <2>1. 0 \notin desc_pages /\ 0 \notin lost
    BY NoNull DEF OneUse
  <2>2. 0 \notin desc_pages' /\ 0 \notin lost'
    BY NoNull DEF OneUse
  <2> QED BY <2>1, <2>2, HeldIs, HeldIsNext
<1>2. Held' = Held
  BY <1>1
<1> QED BY <1>2 DEF Mem!vars

-----------------------------------------------------------------------------
(* The memory is kept, step by step, as long as there are page tables.     *)

LEMMA HandIs ==
    /\ call.frame = 0 => InHand = {}
    /\ call.frame # 0 => InHand = {call.frame}
    /\ call'.frame = 0 => InHand' = {}
    /\ call'.frame # 0 => InHand' = {call'.frame}
BY NullIs DEF InHand, NULL, Mem!NULL

(* A step that moves no page.                                              *)
LEMMA SamePages ==
    ASSUME Memory, call'.frame = call.frame,
           UNCHANGED <<bitmap, free_mem_size, page_dir, pte, desc_pages, other, lost>>
    PROVE  /\ OneUse'
           /\ Entries(pte, page_dir)'
           /\ [Mem!Next]_Mem!vars
<1>1. /\ Mapped' = Mapped /\ TablePages' = TablePages /\ InHand' = InHand
      /\ bitmap' = bitmap /\ desc_pages' = desc_pages /\ lost' = lost /\ other' = other
  BY DEF Mapped, Frames, TablePages, InHand
<1>2. OneUse /\ OneUse'
  BY <1>1 DEF Memory, OneUse
<1>3. Own' = Own
  BY <1>1 DEF Own
<1>4. Entries(pte, page_dir)'
  BY DEF Memory, Entries
<1> QED BY <1>1, <1>2, <1>3, <1>4, StepRests

LEMMA SameLive ==
    ASSUME LiveMapped, UNCHANGED <<blocks, live, pte>>
    PROVE  LiveMapped'
BY DEF LiveMapped

LEMMA TakeFrameKeeps == ASSUME Space, Memory, TakeFrame PROVE Keeps
<1> DEFINE p == Mem!alloc_mem_page
<1>1. /\ call.pc = "page"
      /\ p # NULL
      /\ Mem!Take(p)
      /\ call' = [call EXCEPT !.pc = "map", !.frame = p]
      /\ UNCHANGED <<blocks, page_dir, pte, desc_pages, other, live, lost>>
  BY DEF TakeFrame, history
<1>2. /\ p \in bitmap
      /\ call \in CallType
      /\ OneUse /\ Entries(pte, page_dir) /\ ReadyMapped /\ LiveMapped /\ Marks
  BY <1>1, AllocAnswers, NullIs DEF Space, Types, Memory
<1>3. bitmap' = bitmap \ {p}
  BY <1>1 DEF Mem!Take
<1> HIDE DEF p
<1>4. /\ call'.pc = "map" /\ call'.frame = p /\ call'.start = call.start
      /\ call'.todo = call.todo /\ call'.pages = call.pages /\ call'.fail = call.fail
      /\ call.frame = 0 /\ p # 0
  BY <1>1, <1>2, NullIs DEF CallType, Marks
<1>5. InHand = {} /\ InHand' = {p}
  BY <1>4, HandIs
<1>6. Mapped' = Mapped /\ TablePages' = TablePages
  BY <1>1 DEF Mapped, Frames, TablePages
<1>7. OneUse'
  <2>1. Apart(bitmap, Mapped, TablePages, {}, desc_pages, lost, other)
    BY <1>2, <1>5 DEF OneUse
  <2>2. Apart(bitmap \ {p}, Mapped, TablePages, {p}, desc_pages, lost, other)
    BY <1>2, <2>1, TakenByHand
  <2> QED BY <1>1, <1>3, <1>5, <1>6, <2>2 DEF OneUse
<1>8. [Mem!Next]_Mem!vars
  <2>1. Own' = Own \cup {p} /\ other' = other
    BY <1>1, <1>5, <1>6 DEF Own
  <2> QED BY <1>1, <1>2, <1>7, <2>1, NullIs, StepTakes DEF p
<1>9. Entries(pte, page_dir)'
  BY <1>1, <1>2 DEF Entries
<1>10. ReadyMapped'
  <2>1. Ready' = Ready
    BY <1>1, <1>4 DEF Ready
  <2> QED BY <1>1, <1>2, <1>4, <2>1 DEF ReadyMapped, Addr
<1>11. LiveMapped'
  BY <1>1, <1>2, SameLive
<1>12. Marks'
  BY <1>1, <1>2, <1>4, NullIs DEF Marks
<1> QED BY <1>7, <1>8, <1>9, <1>10, <1>11, <1>12 DEF Keeps, Memory

LEMMA OutOfFramesKeeps == ASSUME Space, Memory, OutOfFrames PROVE Keeps
<1>1. /\ call.pc = "page"
      /\ call' = [call EXCEPT !.pc = "undo", !.fail = TRUE]
      /\ UNCHANGED <<bitmap, free_mem_size, blocks, page_dir, pte, desc_pages, other, live, lost>>
  BY DEF OutOfFrames, BreakOut, alloc_vars, history
<1>2. call \in CallType /\ ReadyMapped /\ LiveMapped /\ Marks
  BY DEF Space, Types, Memory
<1>3. /\ call'.pc = "undo" /\ call'.frame = call.frame /\ call'.start = call.start
      /\ call'.todo = call.todo /\ call.todo \in Nat
  BY <1>1, <1>2 DEF CallType
<1>4. ReadyMapped'
  <2>1. Ready = {k \in Nat : k < call.todo} /\ Ready' = {k \in Nat : k + 1 < call.todo}
    BY <1>1, <1>3 DEF Ready
  <2>2. \A k \in Ready' : k \in Ready
    BY <1>3, <2>1
  <2> QED BY <1>1, <1>2, <1>3, <2>2 DEF ReadyMapped, Addr
<1>5. Marks'
  BY <1>1, <1>2, <1>3 DEF Marks
<1> QED BY <1>1, <1>2, <1>3, <1>4, <1>5, SamePages, SameLive DEF Keeps, Memory

LEMMA MapFrameKeeps == ASSUME Space, Memory, MapFrame PROVE Keeps
<1> DEFINE f == call.frame
           a == Addr(call.todo)
           old == {pte[a]} \ {NULL}
           p == Mem!alloc_mem_page
<1>1. /\ call.pc = "map"
      /\ do_mem_mapping(a, f)
      /\ call' = [call EXCEPT !.pc = "page", !.todo = @ + 1, !.frame = NULL]
      /\ lost' = lost \cup old
      /\ UNCHANGED <<blocks, desc_pages, other, live>>
  BY DEF MapFrame
<1>2. /\ Types /\ call \in CallType /\ pte \in [HeapPages -> Nat]
      /\ OneUse /\ Entries(pte, page_dir) /\ ReadyMapped /\ LiveMapped /\ Marks
  BY DEF Space, Types, Memory
<1>3. call.todo \in Nat /\ call.pages \in Nat /\ f \in Nat /\ f # 0
  BY <1>1, <1>2, NullIs DEF CallType, Marks
<1>4. a \in HeapPages
  BY <1>1, TodoInBlock
<1> DEFINE next == call.todo + 1
<1>5. next \in Nat /\ call' = [call EXCEPT !.pc = "page", !.todo = next, !.frame = NULL]
  BY <1>1, <1>3
<1> HIDE DEF next
<1>6. /\ call'.pc = "page" /\ call'.start = call.start /\ call'.todo = next
      /\ call'.frame = 0 /\ call'.fail = call.fail
  BY <1>2, <1>5, TurnKeepsFail, NullIs
<1>7. InHand = {f} /\ InHand' = {}
  BY <1>3, <1>6, HandIs
<1>8. Apart(bitmap, Mapped, TablePages, {f}, desc_pages, lost, other)
  BY <1>2, <1>7 DEF OneUse
<1>9. f \notin Mapped
  BY <1>8 DEF Apart
<1> HIDE DEF f, a
<1>10. /\ pte' = [pte EXCEPT ![a] = f]
       /\ Mapped' = (Mapped \ old) \cup ({f} \ {NULL})
       /\ Entries(pte', page_dir')
       /\ \/ UNCHANGED <<bitmap, free_mem_size, page_dir>> /\ TablePages' = TablePages
          \/ /\ p # NULL
             /\ p \in bitmap
             /\ Mem!Take(p)
             /\ TablePages' = TablePages \cup {p}
  BY <1>1, <1>2, <1>3, <1>4, <1>9, Remapped
<1>11. old \subseteq Mapped
  BY <1>2, <1>4 DEF Mapped, Frames
<1> HIDE DEF old
<1>12. Mapped' = (Mapped \ old) \cup {f}
  BY <1>3, <1>10, NullIs
<1>13. Apart(bitmap, (Mapped \ old) \cup {f}, TablePages, {}, desc_pages, lost \cup old, other)
  BY <1>8, <1>11, HandToEntry
<1>14. OneUse' /\ [Mem!Next]_Mem!vars
  <2>1. CASE UNCHANGED <<bitmap, free_mem_size, page_dir>> /\ TablePages' = TablePages
    <3>1. OneUse'
      BY <1>1, <1>7, <1>12, <1>13, <2>1 DEF OneUse
    <3>2. Own' = Own
      BY <1>1, <1>7, <1>11, <1>12, <2>1 DEF Own
    <3> QED BY <1>1, <1>2, <2>1, <3>1, <3>2, StepRests
  <2>2. CASE /\ p # NULL
             /\ p \in bitmap
             /\ Mem!Take(p)
             /\ TablePages' = TablePages \cup {p}
    <3>1. bitmap' = bitmap \ {p}
      BY <2>2 DEF Mem!Take
    <3> HIDE DEF p
    <3>2. Apart(bitmap \ {p}, (Mapped \ old) \cup {f}, TablePages \cup {p}, {}, desc_pages,
                lost \cup old, other)
      BY <1>13, <2>2, TakenByTable
    <3>3. OneUse'
      BY <1>1, <1>7, <1>12, <2>2, <3>1, <3>2 DEF OneUse
    <3>4. Own' = Own \cup {p} /\ other' = other
      BY <1>1, <1>7, <1>11, <1>12, <2>2 DEF Own
    <3> QED BY <1>2, <2>2, <3>3, <3>4, NullIs, StepTakes DEF p
  <2> QED BY <1>10, <2>1, <2>2
<1>15. \A x \in HeapPages : pte[x] # NULL => pte'[x] # NULL
  BY <1>2, <1>3, <1>4, <1>10, NullIs
<1>16. ReadyMapped'
  <2>1. Ready = {k \in Nat : k < call.todo} /\ Ready' = {k \in Nat : k < next}
    BY <1>1, <1>6 DEF Ready
  <2>2. \A k \in Nat : Addr(k)' = Addr(k)
    BY <1>6 DEF Addr
  <2>3. ASSUME NEW k \in Ready' PROVE pte'[Addr(k)] # NULL
    <3>1. k \in Nat /\ (k = call.todo \/ k < call.todo)
      BY <1>3, <2>1, <2>3 DEF next
    <3>2. CASE k = call.todo
      BY <1>2, <1>3, <1>4, <1>10, <3>2, NullIs DEF a
    <3>3. CASE k < call.todo
      <4>1. k \in Ready
        BY <2>1, <3>1, <3>3
      <4>2. k \in 0 .. call.pages - 1 /\ call.pc # "idle"
        BY <1>1, <1>3, <3>1, <3>3 DEF Space, InBlock
      <4>3. Addr(k) \in HeapPages
        BY <4>2, CallPage
      <4> QED BY <1>2, <1>15, <4>1, <4>3 DEF ReadyMapped
    <3> QED BY <3>1, <3>2, <3>3
  <2> QED BY <2>1, <2>2, <2>3 DEF ReadyMapped
<1>17. LiveMapped'
  <2>1. \A i \in 1 .. Len(blocks) : PagesOf(blocks[i]) \subseteq HeapPages
    BY Ends DEF Space, Types
  <2> QED BY <1>1, <1>2, <1>15, <2>1 DEF LiveMapped
<1>18. Marks'
  BY <1>1, <1>2, <1>6, NullIs DEF Marks
<1> QED BY <1>10, <1>14, <1>16, <1>17, <1>18 DEF Keeps, Memory

LEMMA VmallocReturnsKeeps == ASSUME Space, Memory, VmallocReturns PROVE Keeps
<1>1. /\ call.pc = "page" /\ call.todo = call.pages
      /\ SetFree(FALSE) /\ live' = live \cup {call.start} /\ call' = Idle
      /\ UNCHANGED <<bitmap, free_mem_size, page_dir, pte, desc_pages, other, lost>>
  BY DEF VmallocReturns, Done, alloc_vars
<1>2. call \in CallType /\ ReadyMapped /\ LiveMapped /\ Marks
  BY DEF Space, Types, Memory
<1>3. call.frame = 0 /\ call'.frame = call.frame
  BY <1>1, <1>2, IdleIs, NullIs DEF Marks
<1>4. ReadyMapped'
  BY <1>1, IdleIs DEF ReadyMapped, Ready
<1>5. Marks'
  BY <1>1, IdleIs, NullIs DEF Marks
<1>6. LiveMapped'
  <2>1. PICK i \in 1 .. Len(blocks) :
          /\ blocks[i].p_start_addr = call.start
          /\ \A j \in 1 .. Len(blocks) : blocks[j].p_start_addr = call.start => j = i
          /\ PagesOf(blocks[i]) = {Addr(k) : k \in 0 .. call.pages - 1}
    BY <1>1, CallBlock
  <2>2. /\ Len(blocks') = Len(blocks)
        /\ \A j \in 1 .. Len(blocks) : /\ blocks'[j].p_start_addr = blocks[j].p_start_addr
                                       /\ PagesOf(blocks'[j]) = PagesOf(blocks[j])
    BY <1>1, SetFreeIs
  <2>3. \A a \in PagesOf(blocks[i]) : pte[a] # NULL
    <3>1. \A k \in 0 .. call.pages - 1 : k \in Ready
      BY <1>1, <1>2 DEF Ready, CallType
    <3> QED BY <1>2, <2>1, <3>1 DEF ReadyMapped
  <2>4. ASSUME NEW j \in 1 .. Len(blocks), blocks[j].p_start_addr \in live \cup {call.start}
        PROVE  \A a \in PagesOf(blocks[j]) : pte[a] # NULL
    BY <1>2, <2>1, <2>3, <2>4 DEF LiveMapped
  <2> QED BY <1>1, <2>2, <2>4 DEF LiveMapped
<1> QED BY <1>1, <1>3, <1>4, <1>5, <1>6, SamePages DEF Keeps, Memory

(* The call ends without handing its block out.                            *)
LEMMA CallEndsKeeps == ASSUME Space, Memory, VmallocFails \/ VfreeReturns PROVE Keeps
<1>1. /\ call.pc \in {"undo", "free"}
      /\ SetFree(TRUE) /\ live' = live /\ call' = Idle
      /\ UNCHANGED <<bitmap, free_mem_size, page_dir, pte, desc_pages, other, lost>>
  BY DEF VmallocFails, VfreeReturns, alloc_vars, history
<1>2. LiveMapped /\ Marks
  BY DEF Memory
<1>3. call.frame = 0 /\ call'.frame = call.frame
  BY <1>1, <1>2, IdleIs, NullIs DEF Marks
<1>4. ReadyMapped'
  BY <1>1, IdleIs DEF ReadyMapped, Ready
<1>5. Marks'
  BY <1>1, IdleIs, NullIs DEF Marks
<1>6. /\ Len(blocks') = Len(blocks)
      /\ \A j \in 1 .. Len(blocks) : /\ blocks'[j].p_start_addr = blocks[j].p_start_addr
                                     /\ PagesOf(blocks'[j]) = PagesOf(blocks[j])
  BY <1>1, SetFreeIs
<1>7. LiveMapped'
  BY <1>1, <1>2, <1>6 DEF LiveMapped
<1> QED BY <1>1, <1>3, <1>4, <1>5, <1>7, SamePages DEF Keeps, Memory

LEMMA LoopEndsAfterFailureKeeps == ASSUME Memory, LoopEndsAfterFailure PROVE FALSE
BY DEF Memory, Marks, LoopEndsAfterFailure

(* Clearing the entry of the k-th page takes its frame in hand.            *)
LEMMA ClearKeeps ==
    ASSUME Space, Memory, call.frame = 0, call.pc # "idle",
           NEW next \in {"undone", "freed"}, NEW k \in 0 .. call.pages - 1, k \in Ready,
           \A j \in Ready' : j \in Ready \ {k} /\ j < call.pages,
           ClearEntry(Addr(k), next)
    PROVE  Keeps
<1> DEFINE a == Addr(k)
           f == pte[a]
<1>1. /\ do_mem_mapping(a, NULL) \/ (mapping_fails(a) /\ UNCHANGED <<alloc_vars, page_dir, pte>>)
      /\ \E frame \in linear_to_physical(a) :
            call' = [call EXCEPT !.pc = next, !.frame = frame]
      /\ UNCHANGED <<blocks, desc_pages, other, live, lost>>
  BY DEF ClearEntry, history
<1>2. /\ Types /\ call \in CallType /\ pte \in [HeapPages -> Nat]
      /\ OneUse /\ Entries(pte, page_dir) /\ ReadyMapped /\ LiveMapped /\ Marks
  BY DEF Space, Types, Memory
<1>3. a \in HeapPages
  BY CallPage
<1>4. f \in Nat \ {0} /\ f # NULL
  BY <1>2, <1>3, NullIs DEF ReadyMapped
<1>5. page_dir[Table(a)] # NULL
  BY <1>2, <1>3, <1>4 DEF Entries
<1>6. /\ pte' = [pte EXCEPT ![a] = NULL]
      /\ UNCHANGED <<bitmap, free_mem_size, page_dir>>
      /\ do_mem_mapping(a, NULL)
  BY <1>1, <1>5 DEF do_mem_mapping, mapping_fails
<1>7. call' = [call EXCEPT !.pc = next, !.frame = f]
  BY <1>1, <1>5 DEF linear_to_physical
<1>8. /\ call'.pc = next /\ call'.frame = f /\ call'.start = call.start
  BY <1>2, <1>7 DEF CallType
<1>9. InHand = {} /\ InHand' = {f}
  BY <1>4, <1>8, HandIs
<1>10. f \in Mapped
  BY <1>3, <1>4 DEF Mapped, Frames
<1>11. Mapped' = Mapped \ {f} /\ Entries(pte', page_dir')
  <2>1. NULL \in Nat /\ NULL \notin Mapped
    BY NullIs DEF Mapped
  <2>2. /\ Mapped' = (Mapped \ ({f} \ {NULL})) \cup ({NULL} \ {NULL})
        /\ Entries(pte', page_dir')
    BY <1>2, <1>3, <1>6, <2>1, Remapped
  <2> QED BY <1>4, <2>2
<1>12. TablePages' = TablePages
  BY <1>6 DEF TablePages
<1> HIDE DEF f
<1>13. OneUse'
  <2>1. Apart(bitmap, Mapped, TablePages, {}, desc_pages, lost, other)
    BY <1>2, <1>9 DEF OneUse
  <2>2. Apart(bitmap, Mapped \ {f}, TablePages, {f}, desc_pages, lost, other)
    BY <1>10, <2>1, EntryToHand
  <2> QED BY <1>1, <1>6, <1>9, <1>11, <1>12, <2>2 DEF OneUse
<1>14. [Mem!Next]_Mem!vars
  <2>1. Own' = Own
    BY <1>1, <1>9, <1>10, <1>11, <1>12 DEF Own
  <2> QED BY <1>1, <1>2, <1>6, <1>13, <2>1, StepRests
<1>15. \A x \in HeapPages \ {a} : pte'[x] = pte[x]
  BY <1>2, <1>3, <1>6
<1>16. ReadyMapped'
  <2>1. \A j \in Nat : Addr(j)' = Addr(j)
    BY <1>8 DEF Addr
  <2>2. Ready' \subseteq Nat
    BY DEF Ready
  <2>3. ASSUME NEW j \in Ready' PROVE pte'[Addr(j)] # NULL
    <3>1. j \in Ready /\ j # k /\ j \in 0 .. call.pages - 1
      BY <1>2, <2>2 DEF CallType
    <3>2. Addr(j) \in HeapPages /\ Addr(j) # a
      BY <3>1, CallBlock
    <3> QED BY <1>2, <1>15, <3>1, <3>2 DEF ReadyMapped
  <2> QED BY <2>1, <2>2, <2>3 DEF ReadyMapped
<1>17. LiveMapped'
  <2>1. PICK i \in 1 .. Len(blocks) :
          /\ blocks[i].p_start_addr = call.start
          /\ PagesOf(blocks[i]) = {Addr(j) : j \in 0 .. call.pages - 1}
    BY CallBlock
  <2>2. call.start \notin live
    BY DEF Space, Owned
  <2>3. \A j \in 1 .. Len(blocks) :
           /\ PagesOf(blocks[j]) \subseteq HeapPages
           /\ j # i => PagesOf(blocks[j]) \cap PagesOf(blocks[i]) = {}
    <3>1. \A j \in 1 .. Len(blocks) : PagesOf(blocks[j]) \subseteq HeapPages
      BY Ends DEF Space, Types
    <3>2. DOMAIN blocks = 1 .. Len(blocks)
      BY SeqFacts DEF Space, Types
    <3> QED BY <3>1, <3>2, SpaceTiled DEF BlocksTile
  <2>4. a \in PagesOf(blocks[i])
    BY <2>1
  <2>5. ASSUME NEW j \in 1 .. Len(blocks), blocks[j].p_start_addr \in live,
               NEW x \in PagesOf(blocks[j])
        PROVE  pte'[x] # NULL
    <3>1. j # i
      BY <2>1, <2>2, <2>5
    <3>2. x \in HeapPages \ {a}
      BY <2>3, <2>4, <3>1
    <3> QED BY <1>2, <1>15, <2>5, <3>2 DEF LiveMapped
  <2> QED BY <1>1, <2>5 DEF LiveMapped
<1>18. Marks'
  BY <1>4, <1>8, NullIs DEF Marks
<1> QED BY <1>11, <1>13, <1>14, <1>16, <1>17, <1>18 DEF Keeps, Memory

LEMMA UndoPageKeeps == ASSUME Space, Memory, UndoPage PROVE Keeps
<1>1. /\ call.pc = "undo" /\ call.todo > 1
      /\ ClearEntry(Addr(call.todo - 2), "undone")
  BY DEF UndoPage
<1>2. call.todo - 2 \in 0 .. call.pages - 1 /\ call.todo \in Nat /\ call.pages \in Nat
  BY <1>1, UndoInBlock DEF Space, Types, CallType
<1>3. call.frame = 0
  BY <1>1, NullIs DEF Memory, Marks
<1>4. call'.pc = "undone" /\ call'.todo = call.todo
  BY <1>1 DEF Space, Types, CallType, ClearEntry
<1>5. Ready = {k \in Nat : k + 1 < call.todo} /\ Ready' = {k \in Nat : k + 2 < call.todo}
  BY <1>1, <1>4 DEF Ready
<1> DEFINE k == call.todo - 2
<1>6. k \in Ready /\ \A j \in Ready' : j \in Ready \ {k} /\ j < call.pages
  BY <1>1, <1>2, <1>5
<1>7. k \in 0 .. call.pages - 1 /\ ClearEntry(Addr(k), "undone") /\ call.pc # "idle"
  BY <1>1, <1>2
<1> HIDE DEF k
<1> QED BY <1>3, <1>6, <1>7, ClearKeeps

LEMMA FreePageKeeps == ASSUME Space, Memory, FreePage PROVE Keeps
<1>1. /\ call.pc = "free" /\ call.todo < call.pages
      /\ ClearEntry(Addr(call.todo), "freed")
  BY DEF FreePage
<1>2. call.todo \in 0 .. call.pages - 1 /\ call.todo \in Nat /\ call.pages \in Nat
  BY <1>1, TodoInBlock DEF Space, Types, CallType
<1>3. call.frame = 0
  BY <1>1, NullIs DEF Memory, Marks
<1>4. call'.pc = "freed" /\ call'.todo = call.todo /\ call'.pages = call.pages
  BY <1>1 DEF Space, Types, CallType, ClearEntry
<1>5. /\ Ready = {k \in Nat : call.todo <= k /\ k < call.pages}
      /\ Ready' = {k \in Nat : call.todo < k /\ k < call.pages}
  BY <1>1, <1>4 DEF Ready
<1>6. call.todo \in Ready /\ \A j \in Ready' : j \in Ready \ {call.todo} /\ j < call.pages
  BY <1>1, <1>2, <1>5
<1> QED BY <1>1, <1>2, <1>3, <1>6, ClearKeeps

(* The page in hand goes back to the allocator.                            *)
LEMMA ReleaseKeeps ==
    ASSUME Space, Memory, call.frame # 0, Mem!free_mem_page(call.frame),
           call'.frame = 0, call'.start = call.start, call'.pc \in {"undo", "free"},
           \A j \in Ready' : j \in Ready,
           UNCHANGED <<blocks, page_dir, pte, desc_pages, other, live, lost>>
    PROVE  Keeps
<1> DEFINE f == call.frame
<1>1. OneUse /\ Entries(pte, page_dir) /\ ReadyMapped /\ LiveMapped /\ Marks
  BY DEF Memory
<1>2. InHand = {f} /\ InHand' = {}
  BY HandIs
<1>3. Mapped' = Mapped /\ TablePages' = TablePages
  BY DEF Mapped, Frames, TablePages
<1>4. Apart(bitmap, Mapped, TablePages, {f}, desc_pages, lost, other)
  BY <1>1, <1>2 DEF OneUse
<1>5. bitmap' = bitmap \cup {f}
  <2>1. f \in Mem!ManagedPages
    BY <1>4 DEF Apart
  <2>2. f \in Nat /\ f >= Mem!available_mem_start
    BY <2>1, NoPages, StartType, MemoryAssumption DEF Mem!ManagedPages, Mem!SizeAssumption
  <2> QED BY <2>2, StartType DEF Mem!free_mem_page
<1>6. OneUse'
  <2>1. Apart(bitmap \cup {f}, Mapped, TablePages, {}, desc_pages, lost, other)
    BY <1>4, GivenByHand
  <2> QED BY <1>2, <1>3, <1>5, <2>1 DEF OneUse
<1>7. [Mem!Next]_Mem!vars
  <2>1. f \in Own /\ Own' = Own \ {f} /\ other' = other
    BY <1>2, <1>3, <1>4 DEF Own, Apart
  <2> QED BY <1>1, <1>6, <2>1, StepGives
<1>8. Entries(pte, page_dir)'
  BY <1>1 DEF Entries
<1>9. ReadyMapped'
  BY <1>1 DEF ReadyMapped, Addr
<1>10. LiveMapped'
  BY <1>1, SameLive
<1>11. Marks'
  BY NullIs DEF Marks
<1> QED BY <1>6, <1>7, <1>8, <1>9, <1>10, <1>11 DEF Keeps, Memory

LEMMA UndoReleaseKeeps == ASSUME Space, Memory, UndoRelease PROVE Keeps
<1> DEFINE next == call.todo - 1
<1>1. /\ call.pc = "undone" /\ call.todo > 1 /\ call.todo \in Nat /\ call \in CallType
      /\ Mem!free_mem_page(call.frame)
      /\ UNCHANGED <<blocks, page_dir, pte, desc_pages, other, live, lost>>
  BY DEF UndoRelease, Space, InBlock, Types, CallType, history
<1>2. next \in Nat /\ call' = [call EXCEPT !.pc = "undo", !.todo = next, !.frame = NULL]
  BY <1>1 DEF UndoRelease
<1> HIDE DEF next
<1>3. call'.pc = "undo" /\ call'.frame = 0 /\ call'.start = call.start /\ call'.todo = next
  BY <1>1, <1>2, TurnKeepsFail, NullIs
<1>4. call.frame # 0
  BY <1>1, NullIs DEF Memory, Marks
<1>5. \A j \in Ready' : j \in Ready
  <2>1. Ready = {k \in Nat : k + 2 < call.todo} /\ Ready' = {k \in Nat : k + 1 < next}
    BY <1>1, <1>3 DEF Ready
  <2> QED BY <1>1, <2>1 DEF next
<1> QED BY <1>1, <1>3, <1>4, <1>5, ReleaseKeeps

LEMMA FreeReleaseKeeps == ASSUME Space, Memory, FreeRelease PROVE Keeps
<1> DEFINE next == call.todo + 1
<1>1. /\ call.pc = "freed" /\ call.todo \in Nat /\ call.pages \in Nat /\ call \in CallType
      /\ Mem!free_mem_page(call.frame)
      /\ UNCHANGED <<blocks, page_dir, pte, desc_pages, other, live, lost>>
  BY DEF FreeRelease, Space, Types, CallType, history
<1>2. next \in Nat /\ call' = [call EXCEPT !.pc = "free", !.todo = next, !.frame = NULL]
  BY <1>1 DEF FreeRelease
<1> HIDE DEF next
<1>3. /\ call'.pc = "free" /\ call'.frame = 0 /\ call'.start = call.start
      /\ call'.todo = next /\ call'.pages = call.pages
  BY <1>1, <1>2, TurnKeepsFail, NullIs
<1>4. call.frame # 0
  BY <1>1, NullIs DEF Memory, Marks
<1>5. \A j \in Ready' : j \in Ready
  <2>1. /\ Ready = {k \in Nat : call.todo < k /\ k < call.pages}
        /\ Ready' = {k \in Nat : next <= k /\ k < call.pages}
    BY <1>1, <1>3 DEF Ready
  <2> QED BY <1>1, <2>1 DEF next
<1> QED BY <1>1, <1>3, <1>4, <1>5, ReleaseKeeps

LEMMA VfreeKeeps == ASSUME Space, Memory, NEW addr \in live, vfree(addr) PROVE Keeps
<1>1. /\ call.pc = "idle"
      /\ live' = live \ {addr}
      /\ UNCHANGED <<bitmap, free_mem_size, blocks, page_dir, pte, desc_pages, other, lost>>
  BY DEF vfree, alloc_vars
<1>2. PICK i \in 1 .. Len(blocks) :
        /\ blocks[i].p_start_addr = addr
        /\ call' = [Idle EXCEPT !.pc = "free", !.start = addr,
                                !.pages = blocks[i].alloc_page_num]
  BY VfreeFinds
<1>3. LiveMapped /\ Marks
  BY DEF Memory
<1>4. /\ call'.pc = "free" /\ call'.start = addr /\ call'.pages = blocks[i].alloc_page_num
      /\ call'.todo = 0 /\ call'.frame = 0
  BY <1>2 DEF Idle
<1>5. call.frame = 0
  BY <1>1, <1>3, NullIs DEF Marks
<1>6. ReadyMapped'
  <2>1. blocks[i].alloc_page_num \in Nat
    <3>1. blocks[i] \in BlockType
      BY SeqFacts DEF Space, Types
    <3> QED BY <3>1 DEF BlockType
  <2>2. Ready' \subseteq 0 .. blocks[i].alloc_page_num - 1
    BY <1>4, <2>1 DEF Ready
  <2>3. \A k \in 0 .. blocks[i].alloc_page_num - 1 : Addr(k)' \in PagesOf(blocks[i])
    BY <1>2, <1>4 DEF Addr, PagesOf
  <2>4. \A a \in PagesOf(blocks[i]) : pte[a] # NULL
    BY <1>2, <1>3 DEF LiveMapped
  <2> QED BY <1>1, <2>2, <2>3, <2>4 DEF ReadyMapped
<1>7. LiveMapped'
  BY <1>1, <1>3 DEF LiveMapped
<1>8. Marks'
  BY <1>4, NullIs DEF Marks
<1> QED BY <1>1, <1>4, <1>5, <1>6, <1>7, <1>8, SamePages DEF Keeps, Memory

LEMMA DescriptorOr ==
    ASSUME NEW size, vmalloc(size)
    PROVE  NewDescriptor \/ UNCHANGED <<bitmap, free_mem_size, desc_pages>>
BY DEF vmalloc, VmallocExact, VmallocSplit, VmallocGrow, alloc_vars

LEMMA VmallocKeeps == ASSUME Space, Memory, NEW size \in Requests, vmalloc(size) PROVE Keeps
<1> DEFINE p == Mem!alloc_mem_page
<1>1. PICK start \in Nat, n \in Nat \ {0} : Found(start, n) /\ Begin(start, n)
  BY VmallocBegins
<1>2. /\ call'.pc = "page" /\ call'.todo = 0 /\ call'.frame = 0 /\ ~ call'.fail
      /\ UNCHANGED <<page_dir, pte, other, live, lost>>
  BY <1>1, BeginIs
<1>3. /\ call.pc = "idle"
      /\ bitmap \in SUBSET Nat
      /\ OneUse /\ Entries(pte, page_dir) /\ LiveMapped /\ Marks
  BY DEF vmalloc, Space, Types, Memory
<1>4. call.frame = 0
  BY <1>3, NullIs DEF Marks
<1>5. Mapped' = Mapped /\ TablePages' = TablePages /\ InHand' = InHand
  BY <1>2, <1>4 DEF Mapped, Frames, TablePages, InHand
<1>6. Entries(pte, page_dir)'
  BY <1>2, <1>3 DEF Entries
<1>7. ReadyMapped'
  <2>1. Ready' = {k \in Nat : k < 0}
    BY <1>2 DEF Ready
  <2>2. Ready' = {}
    BY <2>1
  <2> QED BY <2>2 DEF ReadyMapped
<1>8. LiveMapped'
  <2>1. ASSUME NEW j \in 1 .. Len(blocks'), blocks'[j].p_start_addr \in live
        PROVE  \A a \in PagesOf(blocks'[j]) : pte[a] # NULL
    <3>1. PICK i \in 1 .. Len(blocks) :
            /\ blocks'[j].p_start_addr = blocks[i].p_start_addr
            /\ blocks'[j].alloc_page_num = blocks[i].alloc_page_num
      BY <1>1, <2>1 DEF Found, LiveKept
    <3>2. PagesOf(blocks'[j]) = PagesOf(blocks[i])
      BY <3>1 DEF PagesOf
    <3> QED BY <1>3, <2>1, <3>1, <3>2 DEF LiveMapped
  <2> QED BY <1>2, <2>1 DEF LiveMapped
<1>9. Marks'
  BY <1>2, NullIs DEF Marks
<1>10. OneUse' /\ [Mem!Next]_Mem!vars
  <2>1. CASE UNCHANGED <<bitmap, free_mem_size, desc_pages>>
    <3>1. OneUse'
      BY <1>2, <1>3, <1>5, <2>1 DEF OneUse
    <3>2. Own' = Own
      BY <1>2, <1>5, <2>1 DEF Own
    <3> QED BY <1>2, <1>3, <2>1, <3>1, <3>2, StepRests
  <2>2. CASE /\ p # NULL
             /\ Mem!Take(p)
             /\ desc_pages' = desc_pages \cup {p}
    <3>1. p \in bitmap
      BY <1>3, <2>2, AllocAnswers, NullIs
    <3>2. bitmap' = bitmap \ {p}
      BY <2>2 DEF Mem!Take
    <3> HIDE DEF p
    <3>3. Apart(bitmap \ {p}, Mapped, TablePages, InHand, desc_pages \cup {p}, lost, other)
      BY <1>3, <3>1, TakenByDescriptors DEF OneUse
    <3>4. OneUse'
      BY <1>2, <1>5, <2>2, <3>2, <3>3 DEF OneUse
    <3>5. Own' = Own \cup {p} /\ other' = other
      BY <1>2, <1>5, <2>2 DEF Own
    <3> QED BY <1>3, <2>2, <3>4, <3>5, NullIs, StepTakes DEF p
  <2>3. \/ UNCHANGED <<bitmap, free_mem_size, desc_pages>>
        \/ p # NULL /\ Mem!Take(p) /\ desc_pages' = desc_pages \cup {p}
    BY DescriptorOr, NullIs DEF NewDescriptor
  <2> QED BY <2>1, <2>2, <2>3
<1> QED BY <1>6, <1>7, <1>8, <1>9, <1>10 DEF Keeps, Memory

LEMMA OtherKeeps == ASSUME Space, Memory, OtherAlloc \/ OtherFree PROVE Keeps
<1>1. UNCHANGED <<blocks, page_dir, pte, desc_pages, live, lost, call>>
  BY DEF OtherAlloc, OtherFree, history
<1>2. /\ bitmap \in SUBSET Nat
      /\ OneUse /\ Entries(pte, page_dir) /\ ReadyMapped /\ LiveMapped /\ Marks
  BY DEF Space, Types, Memory
<1>3. Mapped' = Mapped /\ TablePages' = TablePages /\ InHand' = InHand
  BY <1>1 DEF Mapped, Frames, TablePages, InHand
<1>4. Own' = Own
  BY <1>1, <1>3 DEF Own
<1>5. Entries(pte, page_dir)' /\ LiveMapped' /\ Marks'
  BY <1>1, <1>2 DEF Entries, LiveMapped, Marks
<1>6. ReadyMapped'
  <2>1. Ready' = Ready
    BY <1>1 DEF Ready
  <2> QED BY <1>1, <1>2, <2>1 DEF ReadyMapped, Addr
<1>7. CASE OtherAlloc
  <2> DEFINE p == Mem!alloc_mem_page
  <2>1. p # NULL /\ Mem!Take(p) /\ other' = other \cup {p}
    BY <1>7, NullIs DEF OtherAlloc
  <2>2. p \in bitmap /\ bitmap' = bitmap \ {p}
    BY <1>2, <2>1, AllocAnswers, NullIs DEF Mem!Take
  <2> HIDE DEF p
  <2>3. Apart(bitmap \ {p}, Mapped, TablePages, InHand, desc_pages, lost, other \cup {p})
    BY <1>2, <2>2, TakenByOthers DEF OneUse
  <2>4. OneUse'
    BY <1>1, <1>3, <2>1, <2>2, <2>3 DEF OneUse
  <2>5. [Mem!Next]_Mem!vars
    BY <1>2, <1>4, <2>1, <2>4, NullIs, StepTakes DEF p
  <2> QED BY <1>5, <1>6, <2>4, <2>5 DEF Keeps, Memory
<1>8. CASE OtherFree
  <2>1. PICK p \in other : Mem!free_mem_page(p) /\ other' = other \ {p}
    BY <1>8 DEF OtherFree
  <2>2. bitmap' = bitmap \cup {p}
    <3>1. p \in Mem!ManagedPages
      BY <1>2 DEF OneUse, Apart
    <3>2. p \in Nat /\ p >= Mem!available_mem_start
      BY <3>1, NoPages, StartType, MemoryAssumption DEF Mem!ManagedPages, Mem!SizeAssumption
    <3> QED BY <2>1, <3>2, StartType DEF Mem!free_mem_page
  <2>3. Apart(bitmap \cup {p}, Mapped, TablePages, InHand, desc_pages, lost, other \ {p})
    BY <1>2, GivenByOthers DEF OneUse
  <2>4. OneUse'
    BY <1>1, <1>3, <2>1, <2>2, <2>3 DEF OneUse
  <2>5. [Mem!Next]_Mem!vars
    BY <1>2, <1>4, <2>1, <2>4, StepGives
  <2> QED BY <1>5, <1>6, <2>4, <2>5 DEF Keeps, Memory
<1> QED BY <1>7, <1>8

LEMMA StutterKeeps == ASSUME Memory, UNCHANGED vars PROVE Keeps
<1>1. UNCHANGED <<bitmap, free_mem_size, blocks, page_dir, pte, desc_pages, other, live, lost,
                  call>>
  BY DEF vars
<1>2. ReadyMapped /\ LiveMapped /\ Marks
  BY DEF Memory
<1>3. ReadyMapped'
  BY <1>1, <1>2 DEF ReadyMapped, Ready, Addr
<1>4. LiveMapped' /\ Marks'
  BY <1>1, <1>2 DEF LiveMapped, Marks
<1> QED BY <1>1, <1>3, <1>4, SamePages DEF Keeps, Memory

(* A failed page table is remembered, and without one the memory is kept.  *)
LEMMA NextMemory ==
    ASSUME VInv, [Next]_vars
    PROVE  table_failed' \/ Keeps
<1>1. Space /\ table_failed \in BOOLEAN
  BY DEF VInv, Space, Types
<1>2. CASE table_failed
  <2>1. table_failed' = table_failed \/ table_failed' = TRUE
    BY DEF Next, vars, vmalloc, VmallocExact, VmallocSplit, VmallocGrow, Begin, history, vfree,
           Proceed, TakeFrame, OutOfFrames, MapFrame, MapFails, VmallocReturns,
           LoopEndsAfterFailure, UndoPage, UndoRelease, VmallocFails, FreePage, FreeRelease,
           VfreeReturns, ClearEntry, OtherAlloc, OtherFree
  <2> QED BY <1>2, <2>1
<1>3. CASE ~ table_failed
  <2>1. Memory
    BY <1>3 DEF VInv
  <2>2. CASE Next
    <3>1. ASSUME Proceed PROVE table_failed' \/ Keeps
      <4>1. CASE MapFails
        BY <4>1 DEF MapFails
      <4>2. CASE ~ MapFails
        BY <1>1, <2>1, <3>1, <4>2, TakeFrameKeeps, OutOfFramesKeeps, MapFrameKeeps,
           VmallocReturnsKeeps, LoopEndsAfterFailureKeeps, UndoPageKeeps, UndoReleaseKeeps,
           CallEndsKeeps, FreePageKeeps, FreeReleaseKeeps
           DEF Proceed
      <4> QED BY <4>1, <4>2
    <3> QED BY <1>1, <2>1, <2>2, <3>1, VmallocKeeps, VfreeKeeps, OtherKeeps DEF Next
  <2> QED BY <2>1, <2>2, StutterKeeps
<1> QED BY <1>2, <1>3

LEMMA InitMemory == ASSUME Init PROVE Memory /\ Mem!Init
<1>1. /\ Mem!physical_mem_init
      /\ bitmap = Mem!ManagedPages
      /\ blocks = <<>>
      /\ page_dir = [t \in Tables |-> NULL]
      /\ pte = [a \in HeapPages |-> NULL]
      /\ desc_pages = {} /\ other = {} /\ live = {} /\ lost = {}
      /\ call = Idle
  BY DEF Init, Mem!physical_mem_init
<1>2. call.pc = "idle" /\ call.frame = 0
  BY <1>1, IdleIs
<1>3. Mapped = {} /\ TablePages = {} /\ InHand = {}
  BY <1>1, <1>2, HandIs DEF Mapped, Frames, TablePages
<1>4. OneUse
  BY <1>1, <1>3 DEF OneUse, Apart
<1>5. Entries(pte, page_dir)
  BY <1>1 DEF Entries
<1>6. ReadyMapped /\ LiveMapped /\ Marks
  <2>1. Ready = {}
    BY <1>2 DEF Ready
  <2> QED BY <1>1, <1>2, <2>1, NullIs DEF ReadyMapped, LiveMapped, Marks
<1>7. Mem!Init
  <2>1. Held = HeldBy(Own, other) /\ Own = {}
    BY <1>1, <1>3, HeldIs DEF Own
  <2>2. Held = [c \in {"vmalloc", "other"} |-> {}]
    BY <1>1, <2>1 DEF HeldBy
  <2> QED BY <1>1, <2>2 DEF Mem!Init
<1> QED BY <1>4, <1>5, <1>6, <1>7 DEF Memory

-----------------------------------------------------------------------------
(* The theorems.                                                           *)

LEMMA InitVInv == Init => VInv /\ Mem!Init
BY InitSpace, InitMemory DEF VInv

LEMMA NextVInv == VInv /\ [Next]_vars => VInv' /\ (table_failed' \/ [Mem!Next]_Mem!vars)
BY NextSpace, NextMemory DEF VInv, Keeps

(* The inductive invariant, mm/vmalloc.c with mm/paging.c.                 *)
THEOREM VmallocInvariant == Spec => []VInv
<1>1. Init => VInv
  BY InitVInv
<1>2. VInv /\ [Next]_vars => VInv'
  BY NextVInv
<1> QED BY <1>1, <1>2, PTL DEF Spec

(* The blocks of the list fill the heap up to its end and share no page,   *)
(* however often vmalloc splits them and the heap grows.                   *)
THEOREM HeapTiled == Spec => []BlocksTile
<1>1. VInv => BlocksTile
  BY SpaceTiled DEF VInv
<1> QED BY <1>1, VmallocInvariant, PTL

(* Between calls the blocks not marked free are those that vmalloc handed  *)
(* out and vfree did not get back, also after calls that failed.           *)
THEOREM CallersOwnBlocks == Spec => []BlocksMatchCallers
<1>1. VInv => BlocksMatchCallers
  BY SpaceMatched DEF VInv
<1> QED BY <1>1, VmallocInvariant, PTL

LEMMA MemoryBacksLive == ASSUME Space, Memory PROVE LiveBacked
<1> DEFINE used == UNION {PagesOf(blocks[i]) :
                            i \in {j \in DOMAIN blocks : blocks[j].p_start_addr \in live}}
           spare == bitmap \cup desc_pages \cup other \cup {page_dir[t] : t \in Tables}
<1>1. /\ blocks \in Seq(BlockType)
      /\ Tiles(blocks, Top(system_heap_start))
      /\ OneUse /\ Entries(pte, page_dir) /\ LiveMapped
  BY DEF Space, Types, Memory
<1>2. DOMAIN blocks = 1 .. Len(blocks)
  BY <1>1, SeqFacts
<1>3. ASSUME NEW a \in used PROVE a \in HeapPages /\ pte[a] # NULL
  <2>1. PICK i \in 1 .. Len(blocks) : blocks[i].p_start_addr \in live /\ a \in PagesOf(blocks[i])
    BY <1>2
  <2> QED BY <1>1, <2>1, Ends DEF LiveMapped
<1>4. ASSUME NEW a \in used PROVE pte[a] \notin spare
  <2>1. pte[a] \in Mapped /\ pte[a] # NULL
    BY <1>3 DEF Mapped, Frames
  <2>2. pte[a] \notin bitmap \cup desc_pages \cup other \cup TablePages
    BY <1>1, <2>1 DEF OneUse, Apart
  <2> QED BY <2>1, <2>2 DEF TablePages
<1>5. ASSUME NEW a \in used, NEW b \in HeapPages \ {a} PROVE pte[a] # pte[b]
  BY <1>1, <1>3 DEF Entries
<1> QED BY <1>3, <1>4, <1>5 DEF LiveBacked

(* Every page of memory that vmalloc handed out is mapped to a frame of    *)
(* its own, which is neither free nor used for anything else, until a page *)
(* table could not be allocated.                                           *)
THEOREM LiveMemoryBacked == Spec => []LiveBacked
<1>1. VInv => LiveBacked
  <2>1. CASE table_failed
    BY <2>1 DEF LiveBacked
  <2> QED BY <2>1, MemoryBacksLive DEF VInv
<1> QED BY <1>1, VmallocInvariant, PTL

(* Until then vmalloc uses the page allocator as Physical specifies it: it *)
(* takes what alloc_mem_page answers and gives back only pages it holds.   *)
THEOREM VmallocUsesAllocator == Spec => MemSpecUntilTableFails
<1>1. Init => Mem!Init
  BY InitVInv
<1>2. VInv /\ [Next]_vars => [table_failed' \/ Mem!Next]_Mem!vars
  BY NextVInv
<1> QED BY <1>1, <1>2, VmallocInvariant, PTL DEF Spec, MemSpecUntilTableFails

=============================================================================
