--------------------------- MODULE KmallocProofs ----------------------------
(***************************************************************************)
(* kmalloc and kfree, for every size of memory, every table of size        *)
(* classes and every sequence of requests: no byte is handed out twice,    *)
(* the chain of a listed page runs through its unused blocks and counts    *)
(* them, no listed page is empty, and kmalloc uses the page allocator as   *)
(* its specification allows.                                               *)
(*                                                                         *)
(* A block in use is the i-th block of one page, and a page serves one     *)
(* class; the chain of a listed page is some order of its unused blocks,   *)
(* which kmalloc shortens at the front and kfree extends there.            *)
(***************************************************************************)
EXTENDS Kmalloc, FiniteSetTheorems, WellFoundedInduction, TLAPS

-----------------------------------------------------------------------------
(* What the page allocator answers.                                        *)

LEMMA StartType == Mem!available_mem_start \in Nat \ {0}
<1> USE MemoryAssumption DEF Mem!SizeAssumption
<1>1. ASSUME NEW a \in Nat, NEW b \in Nat \ {0} PROVE a \div b \in Nat
  OBVIOUS
<1>2. Mem!mem_bitmap_size \in Nat \ {0}
  <2>1. physical_mem_size \div PAGE_MEM_SIZE \in Nat
    BY <1>1
  <2>2. (physical_mem_size \div PAGE_MEM_SIZE) \div BITS \in Nat
    BY <1>1, <2>1
  <2> QED BY <2>2 DEF Mem!mem_bitmap_size
<1>3. ASSUME NEW a \in Nat \ {0} PROVE Mem!AlignUp(a) \in Nat \ {0}
  <2>1. a % PAGE_MEM_SIZE \in 0 .. PAGE_MEM_SIZE - 1
    OBVIOUS
  <2> QED BY <2>1 DEF Mem!AlignUp
<1>4. free_mem_start + Mem!mem_bitmap_size \in Nat \ {0}
  BY <1>2
<1> QED BY <1>3, <1>4 DEF Mem!available_mem_start

LEMMA ManagedPagesType == Mem!ManagedPages \subseteq Nat \ {Mem!NULL}
BY StartType, MemoryAssumption DEF Mem!SizeAssumption, Mem!ManagedPages, Mem!NULL

(* A set of numbers has a least one.                                       *)
LEMMA LeastNumber ==
    ASSUME NEW S, S \subseteq Nat, S # {}
    PROVE  \E n \in S : \A m \in S : n <= m
<1>1. PICK n \in S : \A m \in S : ~ (<<m, n>> \in OpToRel(<, Nat))
  BY WFMin, NatLessThanWellFounded
<1>2. ASSUME NEW m \in S PROVE n <= m
  <2>1. <<m, n>> \in OpToRel(<, Nat) <=> m < n
    BY DEF OpToRel
  <2>2. ~ (m < n)
    BY <1>1, <2>1, Zenon
  <2> QED BY <2>2
<1> QED BY <1>2

(* alloc_mem_page answers NULL or a page whose bit is set.                 *)
LEMMA AllocAnswers ==
    ASSUME bitmap \subseteq Mem!ManagedPages
    PROVE  Mem!alloc_mem_page \in bitmap \cup {Mem!NULL}
<1>1. ASSUME NEW start, NEW end PROVE Mem!Scan(start, end) \in bitmap \cup {Mem!NULL}
  <2> DEFINE found == {p \in bitmap : /\ Mem!GroupBase(start) <= Mem!GroupBase(p)
                                      /\ Mem!GroupBase(p) < end}
  <2>1. CASE found = {}
    BY <2>1 DEF Mem!Scan
  <2>2. CASE found # {}
    <3>1. Mem!First(found) \in found
      BY <2>2, LeastNumber, ManagedPagesType DEF Mem!First
    <3> QED BY <2>2, <3>1 DEF Mem!Scan
  <2> QED BY <2>1, <2>2
<1>2. ASSUME NEW start, NEW end
      PROVE  Mem!alloc_physical_mem_page(start, end) \in bitmap \cup {Mem!NULL}
  BY <1>1 DEF Mem!alloc_physical_mem_page
<1> QED BY <1>2 DEF Mem!alloc_mem_page, Mem!alloc_low_mem_page, Mem!alloc_high_mem_page

-----------------------------------------------------------------------------
(* Where the blocks lie.                                                   *)

Size(e) == block_entry[e].block_size

LEMMA ClassType ==
    ASSUME NEW e \in Entries
    PROVE  /\ Size(e) \in Nat \ {0}
           /\ Total(e) \in Nat \ {0}
           /\ BLOCK_NODE_SIZE \in Nat \ {0}
           /\ PAGE_MEM_SIZE \in Nat \ {0}
           /\ BLOCK_NODE_SIZE + (Total(e) * Size(e)) <= PAGE_MEM_SIZE
<1>1. /\ block_entry[e].block_size \in Nat \ {0}
      /\ block_entry[e].block_total \in Nat \ {0}
  <2>1. /\ block_entry \in Seq([block_size : Nat \ {0}, block_total : Nat \ {0}])
        /\ e \in DOMAIN block_entry
    BY BlockAssumption DEF Entries
  <2>2. ASSUME NEW S, block_entry \in Seq(S) PROVE block_entry[e] \in S
    BY <2>1, <2>2
  <2>3. block_entry[e] \in [block_size : Nat \ {0}, block_total : Nat \ {0}]
    BY <2>1, <2>2
  <2> QED BY <2>3
<1>2. BLOCK_NODE_SIZE + block_entry[e].block_total * block_entry[e].block_size <= PAGE_MEM_SIZE
  BY BlockAssumption
<1> QED BY <1>1, <1>2, BlockAssumption, MemoryAssumption DEF Size, Total, Mem!SizeAssumption

LEMMA ProductGrows ==
    ASSUME NEW a \in Nat, NEW b \in Nat, a <= b, NEW s \in Nat
    PROVE  /\ a * s \in Nat
           /\ b * s \in Nat
           /\ a * s <= b * s
<1>1. PICK d \in Nat : b = a + d
  <2>1. b - a \in Nat /\ b = a + (b - a)
    OBVIOUS
  <2> QED BY <2>1
<1>2. b * s = (a * s) + (d * s)
  BY <1>1
<1>3. a * s \in Nat /\ d * s \in Nat
  OBVIOUS
<1> QED BY <1>2, <1>3

(* Managed pages do not overlap: they begin at multiples of their size.    *)
LEMMA PagesApart ==
    ASSUME NEW p \in Mem!ManagedPages, NEW q \in Mem!ManagedPages, p < q
    PROVE  p + PAGE_MEM_SIZE <= q
<1> DEFINE P == PAGE_MEM_SIZE
           a == p \div P
           b == q \div P
<1>1. P \in Nat \ {0} /\ p \in Nat /\ q \in Nat /\ p % P = 0 /\ q % P = 0
  BY ManagedPagesType, MemoryAssumption DEF Mem!SizeAssumption, Mem!ManagedPages
<1>2. a \in Nat /\ b \in Nat /\ p = (P * a) + (p % P) /\ q = (P * b) + (q % P)
  BY <1>1
<1>3. p = a * P /\ q = b * P
  BY <1>1, <1>2
<1> HIDE DEF P, a, b
<1>4. a + 1 <= b
  <2>1. CASE b <= a
    BY <1>1, <1>2, <1>3, <2>1, ProductGrows
  <2>2. CASE ~ (b <= a)
    BY <1>2, <2>2
  <2> QED BY <2>1, <2>2
<1>5. (a + 1) * P <= b * P
  BY <1>1, <1>2, <1>4, ProductGrows
<1>6. (a + 1) * P = (a * P) + P
  BY <1>1, <1>2
<1>7. p + P <= q
  BY <1>1, <1>3, <1>5, <1>6
<1> QED BY <1>7 DEF P

(* A block lies in its page, behind the header.                            *)
LEMMA BlockInPage ==
    ASSUME NEW e \in Entries, NEW p \in Nat, NEW i \in 1 .. Total(e)
    PROVE  /\ get_block_addr(e, p, i) \in Nat
           /\ p + BLOCK_NODE_SIZE <= get_block_addr(e, p, i)
           /\ get_block_addr(e, p, i) + Size(e) <= p + PAGE_MEM_SIZE
<1> DEFINE s == Size(e)  t == Total(e)
<1>1. /\ s \in Nat \ {0} /\ t \in Nat \ {0} /\ BLOCK_NODE_SIZE \in Nat \ {0}
      /\ PAGE_MEM_SIZE \in Nat \ {0}
      /\ BLOCK_NODE_SIZE + (t * s) <= PAGE_MEM_SIZE
  BY ClassType
<1>2. get_block_addr(e, p, i) = p + ((i - 1) * s) + BLOCK_NODE_SIZE
  BY DEF get_block_addr, Size
<1> HIDE DEF s, t
<1>3. i \in 1 .. t
  BY DEF t
<1>4. (i - 1) * s \in Nat /\ i * s <= t * s /\ t * s \in Nat
  BY <1>1, <1>3, ProductGrows
<1>5. i * s = ((i - 1) * s) + s
  BY <1>1, <1>3
<1>6. get_block_addr(e, p, i) + s <= p + PAGE_MEM_SIZE
  BY <1>1, <1>2, <1>4, <1>5
<1> QED BY <1>1, <1>2, <1>4, <1>6 DEF s

(* The blocks of a page follow each other, and get_block_index finds them. *)
LEMMA BlocksFollow ==
    ASSUME NEW e \in Entries, NEW p \in Nat, NEW i \in 1 .. Total(e), NEW j \in 1 .. Total(e),
           i < j
    PROVE  get_block_addr(e, p, i) + Size(e) <= get_block_addr(e, p, j)
<1> DEFINE s == Size(e)
<1>1. s \in Nat \ {0} /\ BLOCK_NODE_SIZE \in Nat /\ i \in Nat \ {0} /\ j \in Nat \ {0}
  BY ClassType
<1>2. /\ get_block_addr(e, p, i) = p + ((i - 1) * s) + BLOCK_NODE_SIZE
      /\ get_block_addr(e, p, j) = p + ((j - 1) * s) + BLOCK_NODE_SIZE
  BY DEF get_block_addr, Size
<1> HIDE DEF s
<1>3. i * s <= (j - 1) * s /\ (j - 1) * s \in Nat /\ (i - 1) * s \in Nat
  BY <1>1, ProductGrows
<1>4. i * s = ((i - 1) * s) + s
  BY <1>1
<1>5. get_block_addr(e, p, i) + s <= get_block_addr(e, p, j)
  BY <1>1, <1>2, <1>3, <1>4
<1> QED BY <1>5 DEF s

LEMMA IndexOfBlock ==
    ASSUME NEW e \in Entries, NEW p \in Nat, NEW i \in 1 .. Total(e)
    PROVE  get_block_index(e, p, get_block_addr(e, p, i)) = i
<1> DEFINE s == Size(e)  k == i - 1
<1>1. s \in Nat \ {0} /\ BLOCK_NODE_SIZE \in Nat /\ k \in Nat
  BY ClassType
<1>2. get_block_addr(e, p, i) = p + (k * s) + BLOCK_NODE_SIZE
  BY DEF get_block_addr, Size
<1>3. k * s \in Nat
  BY <1>1
<1>4. get_block_addr(e, p, i) - p - BLOCK_NODE_SIZE = k * s
  BY <1>1, <1>2, <1>3
<1>5. (k * s) \div s = k
  BY <1>1
<1>6. get_block_index(e, p, get_block_addr(e, p, i)) = k + 1
  BY <1>4, <1>5 DEF get_block_index, Size
<1> QED BY <1>6

(* The page an address lies in is the one its block was cut from.          *)
LEMMA PageOfBlock ==
    ASSUME NEW e \in Entries, NEW p \in Mem!ManagedPages, NEW q \in Mem!ManagedPages,
           NEW i \in 1 .. Total(e)
    PROVE  InPage(q, get_block_addr(e, p, i)) <=> q = p
<1> DEFINE a == get_block_addr(e, p, i)
<1>1. p \in Nat /\ q \in Nat /\ PAGE_MEM_SIZE \in Nat \ {0} /\ Size(e) \in Nat \ {0}
      /\ BLOCK_NODE_SIZE \in Nat \ {0}
  BY ManagedPagesType, ClassType
<1>2. a \in Nat /\ p + BLOCK_NODE_SIZE <= a /\ a + Size(e) <= p + PAGE_MEM_SIZE
  BY <1>1, BlockInPage
<1> HIDE DEF a
<1>3. CASE q < p
  <2>1. q + PAGE_MEM_SIZE <= p
    BY <1>3, PagesApart
  <2> QED BY <1>1, <1>2, <1>3, <2>1 DEF InPage, a
<1>4. CASE p < q
  <2>1. p + PAGE_MEM_SIZE <= q
    BY <1>4, PagesApart
  <2> QED BY <1>1, <1>2, <1>4, <2>1 DEF InPage, a
<1>5. CASE p = q
  BY <1>1, <1>2, <1>5 DEF InPage, a
<1> QED BY <1>1, <1>3, <1>4, <1>5

-----------------------------------------------------------------------------
(* The inductive invariant.  A page has one owner, and the counter of the  *)
(* allocator agrees with its bitmap.                                       *)
OneOwner ==
    /\ bitmap \cup DOMAIN node \cup other \subseteq Mem!ManagedPages
    /\ bitmap \cap DOMAIN node = {} /\ bitmap \cap other = {} /\ DOMAIN node \cap other = {}
    /\ free_mem_size = PAGE_MEM_SIZE * Cardinality(bitmap)

(* A page is listed once, in one class.                                    *)
Lists ==
    /\ node_head = [e \in Entries |-> node_head[e]]
    /\ \A e \in Entries : /\ node_head[e] \in Seq(DOMAIN node)
                          /\ IsInjective(node_head[e])
    /\ \A e, f \in Entries : e # f => ToSet(node_head[e]) \cap ToSet(node_head[f]) = {}

(* A page cut off its list keeps the content it had in it.                 *)
Nodes ==
    /\ \A p \in DOMAIN node : \E e \in Entries : node[p] \in NodeType(e)
    /\ \A e \in Entries : \A p \in ToSet(node_head[e]) : node[p] \in NodeType(e)

CutFrom(b, p) == \E i \in 1 .. Total(b.entry) : b = Block(b.entry, p, i)

(* Every block in use was cut from a page of kmalloc's, and the blocks of  *)
(* one page are of one class, that of its list if it is still in one.      *)
Homes ==
    /\ \A b \in live : b.entry \in Entries /\ \E p \in DOMAIN node : CutFrom(b, p)
    /\ \A p \in DOMAIN node : \A b, c \in live :
          CutFrom(b, p) /\ CutFrom(c, p) => b.entry = c.entry
    /\ \A e \in Entries : \A p \in ToSet(node_head[e]) : \A b \in live :
          CutFrom(b, p) => b.entry = e

Unused(e, p) == {i \in 1 .. Total(e) : Block(e, p, i) \notin live}

(* The chain of the page content n visits the blocks of s in their order,  *)
(* each once, ends behind the last and is counted.                         *)
ChainIs(n, s) ==
    /\ IsInjective(s)
    /\ DOMAIN n.link = ToSet(s)
    /\ n.free_block_idx = IF s = <<>> THEN 0 ELSE s[1]
    /\ \A i \in 1 .. Len(s) : n.link[s[i]] = IF i = Len(s) THEN 0 ELSE s[i + 1]
    /\ n.free_block_num = Len(s)

(* Some block of a listed page is in use.                                  *)
Chains ==
    \A e \in Entries : \A p \in ToSet(node_head[e]) :
        \E s \in Seq(1 .. Total(e)) :
            /\ ChainIs(node[p], s)
            /\ ToSet(s) = Unused(e, p)
            /\ Len(s) < Total(e)

KInv == OneOwner /\ Lists /\ Nodes /\ Homes /\ Chains

-----------------------------------------------------------------------------
(* The operations on a chain.                                              *)

(* The count of a page's blocks does not wrap.                             *)
LEMMA TotalFits ==
    ASSUME NEW e \in Entries
    PROVE  Total(e) < WORD /\ WORD \in Nat
<1>1. /\ Size(e) \in Nat \ {0} /\ Total(e) \in Nat \ {0} /\ BLOCK_NODE_SIZE \in Nat \ {0}
      /\ BLOCK_NODE_SIZE + (Total(e) * Size(e)) <= PAGE_MEM_SIZE /\ PAGE_MEM_SIZE \in Nat
  BY ClassType
<1>2. 1 * Total(e) <= Size(e) * Total(e)
  BY <1>1, ProductGrows
<1>3. Size(e) * Total(e) = Total(e) * Size(e) /\ 1 * Total(e) = Total(e)
      /\ Total(e) * Size(e) \in Nat
  BY <1>1
<1>4. WORD \in Nat /\ PAGE_MEM_SIZE <= WORD
  BY BlockAssumption
<1> QED BY <1>1, <1>2, <1>3, <1>4

(* A sequence without repetitions is as long as the set of its elements.   *)
LEMMA LengthCounts ==
    ASSUME NEW S, NEW s \in Seq(S), IsInjective(s)
    PROVE  IsFiniteSet(ToSet(s)) /\ Cardinality(ToSet(s)) = Len(s)
<1>1. Len(s) \in Nat /\ DOMAIN s = 1 .. Len(s) /\ s \in [1 .. Len(s) -> S]
  OBVIOUS
<1>2. s \in Bijection(1 .. Len(s), ToSet(s))
  BY <1>1 DEF Bijection, Injection, Surjection, ToSet, IsInjective
<1>3. IsFiniteSet(1 .. Len(s)) /\ Cardinality(1 .. Len(s)) = Len(s)
  BY <1>1, FS_Interval
<1>4. ExistsBijection(1 .. Len(s), ToSet(s))
  BY <1>2 DEF ExistsBijection
<1> QED BY <1>3, <1>4, FS_Bijection

(* Two facts about sequences.                                              *)
LEMMA SeqWiden ==
    ASSUME NEW S, NEW T, S \subseteq T, NEW s \in Seq(S)
    PROVE  s \in Seq(T)
OBVIOUS

LEMMA Behind ==
    ASSUME NEW S, NEW s \in Seq(S), NEW k \in 1 .. Len(s)
    PROVE  /\ SubSeq(s, k + 1, Len(s)) \in Seq(S)
           /\ DOMAIN SubSeq(s, k + 1, Len(s)) = 1 .. Len(s) - k
           /\ Len(SubSeq(s, k + 1, Len(s))) = Len(s) - k
           /\ \A i \in 1 .. Len(s) - k : SubSeq(s, k + 1, Len(s))[i] = s[i + k]
<1>1. Len(s) \in Nat /\ \A i \in 1 .. Len(s) : s[i] \in S
  OBVIOUS
<1>2. Len(SubSeq(s, k + 1, Len(s))) = Len(s) - k
  BY <1>1
<1>3. DOMAIN SubSeq(s, k + 1, Len(s)) = 1 .. Len(s) - k
  BY <1>1, <1>2
<1>4. \A i \in 1 .. Len(s) - k : SubSeq(s, k + 1, Len(s))[i] = s[i + k]
  BY <1>1
<1>5. SubSeq(s, k + 1, Len(s)) \in Seq(S)
  BY <1>1
<1> QED BY <1>2, <1>3, <1>4, <1>5

(* kmalloc takes the first block of the chain.                             *)
LEMMA PopChain ==
    ASSUME NEW e \in Entries, NEW p, NEW s \in Seq(1 .. Total(e)), ChainIs(node[p], s),
           HasRoom(p), Len(s) < Total(e),
           NEW next \in Word(p, node[p].free_block_idx)
    PROVE  /\ Tail(s) \in Seq(1 .. Total(e))
           /\ ChainIs(Pop(p, next), Tail(s))
           /\ node[p].free_block_idx \in ToSet(s)
           /\ ToSet(Tail(s)) = ToSet(s) \ {node[p].free_block_idx}
           /\ Len(Tail(s)) < Total(e)
<1> DEFINE n == Len(s)  t == Tail(s)  S == 1 .. Total(e)
<1>1. n \in Nat \ {0} /\ DOMAIN s = 1 .. n /\ node[p].free_block_idx = s[1] /\ s[1] \in S
      /\ \A i \in 1 .. n : s[i] \in S
  <2>1. s \in Seq(S)
    OBVIOUS
  <2>2. s # <<>> /\ node[p].free_block_idx = s[1]
    BY DEF ChainIs, HasRoom
  <2> HIDE DEF S
  <2>3. n \in Nat /\ DOMAIN s = 1 .. n /\ \A i \in 1 .. n : s[i] \in S
    BY <2>1
  <2>4. n # 0
    BY <2>1, <2>2
  <2> QED BY <2>2, <2>3, <2>4
<1>2. t \in Seq(S) /\ Len(t) = n - 1 /\ DOMAIN t = 1 .. n - 1
      /\ \A i \in 1 .. n - 1 : t[i] = s[i + 1]
  BY <1>1
<1>3. \A i, j \in 1 .. n : s[i] = s[j] => i = j
  BY <1>1 DEF ChainIs, IsInjective
<1>4. s[1] \in ToSet(s) /\ DOMAIN node[p].link = ToSet(s)
  <2>1. 1 \in DOMAIN s
    BY <1>1
  <2>2. s[1] \in ToSet(s)
    BY <2>1 DEF ToSet
  <2> QED BY <2>2 DEF ChainIs
<1>5. next = IF n = 1 THEN 0 ELSE s[2]
  <2>1. next = node[p].link[s[1]]
    BY <1>1, <1>4 DEF Word
  <2>2. \A i \in 1 .. n : node[p].link[s[i]] = IF i = n THEN 0 ELSE s[i + 1]
    BY DEF ChainIs
  <2> HIDE DEF n
  <2>3. node[p].link[s[1]] = IF 1 = n THEN 0 ELSE s[1 + 1]
    BY <1>1, <2>2
  <2> QED BY <2>1, <2>3
<1>6. \A i \in 1 .. n : node[p].link[s[i]] = IF i = n THEN 0 ELSE s[i + 1]
  BY DEF ChainIs
<1>7. (node[p].free_block_num - 1) % WORD = n - 1
  <2>1. node[p].free_block_num = n
    BY DEF ChainIs
  <2>2. WORD \in Nat /\ n - 1 < WORD /\ n - 1 \in Nat
    BY <1>1, TotalFits, ClassType
  <2> QED BY <2>1, <2>2
<1> HIDE DEF n, t, S
<1>8. ToSet(t) = ToSet(s) \ {s[1]}
  <2>1. ToSet(s) = {s[i] : i \in 1 .. n} /\ ToSet(t) = {t[i] : i \in 1 .. n - 1}
    BY <1>1, <1>2 DEF ToSet
  <2>2. ASSUME NEW i \in 1 .. n - 1 PROVE t[i] \in ToSet(s) \ {s[1]}
    BY <1>1, <1>2, <1>3, <2>1, <2>2
  <2>3. ASSUME NEW i \in 1 .. n, s[i] # s[1] PROVE s[i] \in ToSet(t)
    <3>1. i - 1 \in 1 .. n - 1 /\ t[i - 1] = s[i]
      BY <1>1, <1>2, <2>3
    <3> QED BY <2>1, <3>1
  <2> QED BY <2>1, <2>2, <2>3
<1>9. ChainIs(Pop(p, next), t)
  <2> DEFINE m == Pop(p, next)
  <2>1. /\ m.free_block_idx = next /\ m.free_block_num = n - 1
        /\ DOMAIN m.link = ToSet(s) \ {s[1]}
        /\ \A i \in ToSet(s) \ {s[1]} : m.link[i] = node[p].link[i]
    BY <1>1, <1>4, <1>7 DEF Pop
  <2> HIDE DEF m
  <2>2. IsInjective(t)
    <3>1. ASSUME NEW i \in 1 .. n - 1, NEW j \in 1 .. n - 1, t[i] = t[j] PROVE i = j
      <4>1. i + 1 \in 1 .. n /\ j + 1 \in 1 .. n /\ s[i + 1] = s[j + 1]
        BY <1>1, <1>2, <3>1
      <4>2. i + 1 = j + 1
        BY <1>1, <1>3, <4>1 DEF IsInjective
      <4> QED BY <1>1, <4>2
    <3>2. DOMAIN t = 1 .. n - 1
      BY <1>2
    <3> QED BY <3>1, <3>2 DEF IsInjective
  <2>3. next = IF t = <<>> THEN 0 ELSE t[1]
    <3>1. CASE n = 1
      BY <1>2, <1>5, <3>1
    <3>2. CASE n # 1
      BY <1>1, <1>2, <1>5, <3>2
    <3> QED BY <3>1, <3>2
  <2>4. ASSUME NEW i \in 1 .. n - 1
        PROVE  m.link[t[i]] = IF i = n - 1 THEN 0 ELSE t[i + 1]
    <3>1. t[i] = s[i + 1] /\ i + 1 \in 1 .. n
      BY <1>1, <1>2
    <3>2. t[i] \in ToSet(s) \ {s[1]}
      BY <1>2, <1>8 DEF ToSet
    <3>3. m.link[t[i]] = IF i + 1 = n THEN 0 ELSE s[i + 2]
      BY <1>1, <1>6, <2>1, <3>1, <3>2
    <3>4. i # n - 1 => i + 1 \in 1 .. n - 1
      BY <1>1
    <3> QED BY <1>1, <1>2, <3>3, <3>4
  <2>5. ChainIs(m, t)
    BY <1>2, <1>8, <2>1, <2>2, <2>3, <2>4 DEF ChainIs
  <2> QED BY <2>5 DEF m
<1>10. t \in Seq(S) /\ node[p].free_block_idx \in ToSet(s) /\ n - 1 < Total(e)
      /\ ToSet(t) = ToSet(s) \ {node[p].free_block_idx}
  <2>1. n < Total(e) /\ Total(e) \in Nat
    BY ClassType DEF n
  <2> QED BY <1>1, <1>2, <1>4, <1>8, <2>1
<1> QED BY <1>2, <1>9, <1>10 DEF t, S

(* kfree puts a block in front of it.                                      *)
LEMMA PushChain ==
    ASSUME NEW e \in Entries, NEW p, NEW s \in Seq(1 .. Total(e)), ChainIs(node[p], s),
           NEW idx \in (1 .. Total(e)) \ ToSet(s), Len(s) < Total(e)
    PROVE  /\ <<idx>> \o s \in Seq(1 .. Total(e))
           /\ ChainIs(Push(p, idx), <<idx>> \o s)
           /\ ToSet(<<idx>> \o s) = ToSet(s) \cup {idx}
           /\ Len(<<idx>> \o s) = Len(s) + 1
           /\ Len(s) + 1 < WORD
<1> DEFINE n == Len(s)  t == <<idx>> \o s  S == 1 .. Total(e)
<1>1. n \in Nat /\ DOMAIN s = 1 .. n /\ \A i \in 1 .. n : s[i] \in S
  <2>1. s \in Seq(S)
    OBVIOUS
  <2> HIDE DEF S
  <2> QED BY <2>1
<1>2. /\ t \in Seq(S) /\ Len(t) = n + 1 /\ DOMAIN t = 1 .. n + 1 /\ t[1] = idx
      /\ \A i \in 1 .. n : t[i + 1] = s[i]
  BY <1>1
<1>3. \A i, j \in 1 .. n : s[i] = s[j] => i = j
  BY <1>1 DEF ChainIs, IsInjective
<1>4. DOMAIN node[p].link = ToSet(s) /\ idx \notin ToSet(s)
      /\ node[p].free_block_idx = IF s = <<>> THEN 0 ELSE s[1]
  BY DEF ChainIs
<1>5. \A i \in 1 .. n : s[i] \in ToSet(s)
  BY <1>1 DEF ToSet
<1>6. \A i \in 1 .. n : node[p].link[s[i]] = IF i = n THEN 0 ELSE s[i + 1]
  BY DEF ChainIs
<1>7. (node[p].free_block_num + 1) % WORD = n + 1 /\ n + 1 < WORD
  <2>1. node[p].free_block_num = n
    BY DEF ChainIs
  <2>2. WORD \in Nat /\ n + 1 < WORD /\ n + 1 \in Nat
    BY <1>1, TotalFits, ClassType
  <2> QED BY <2>1, <2>2
<1>8. n = 0 <=> s = <<>>
  BY <1>1
<1> HIDE DEF n, t, S
<1>9. ToSet(t) = ToSet(s) \cup {idx}
  <2>1. ToSet(s) = {s[i] : i \in 1 .. n} /\ ToSet(t) = {t[i] : i \in 1 .. n + 1}
    BY <1>1, <1>2 DEF ToSet
  <2>2. ASSUME NEW i \in 1 .. n PROVE s[i] \in ToSet(t)
    <3>1. i + 1 \in 1 .. n + 1 /\ t[i + 1] = s[i]
      BY <1>1, <1>2
    <3> QED BY <2>1, <3>1
  <2>3. idx \in ToSet(t)
    BY <1>1, <1>2, <2>1
  <2>4. ASSUME NEW i \in 1 .. n + 1 PROVE t[i] \in ToSet(s) \cup {idx}
    <3>1. CASE i = 1
      BY <1>2, <3>1
    <3>2. CASE i # 1
      <4>1. i - 1 \in 1 .. n /\ t[i] = s[i - 1]
        <5>1. i - 1 \in 1 .. n /\ (i - 1) + 1 = i
          BY <1>1, <3>2
        <5> QED BY <1>2, <5>1
      <4> QED BY <2>1, <4>1
    <3> QED BY <3>1, <3>2
  <2> QED BY <2>1, <2>2, <2>3, <2>4
<1>10. ChainIs(Push(p, idx), t)
  <2> DEFINE m == Push(p, idx)
  <2>1. /\ m.free_block_idx = idx /\ m.free_block_num = n + 1
        /\ DOMAIN m.link = ToSet(s) \cup {idx}
        /\ m.link[idx] = node[p].free_block_idx
        /\ \A i \in ToSet(s) : m.link[i] = node[p].link[i]
    BY <1>4, <1>7 DEF Push
  <2> HIDE DEF m
  <2>2. IsInjective(t)
    <3> SUFFICES ASSUME NEW i \in 1 .. n + 1, NEW j \in 1 .. n + 1, t[i] = t[j]
                 PROVE  i = j
      BY <1>2 DEF IsInjective
    <3>1. ASSUME NEW k \in 1 .. n + 1
          PROVE  \/ k = 1 /\ t[k] = idx
                 \/ k - 1 \in 1 .. n /\ t[k] = s[k - 1] /\ t[k] # idx
      <4>1. CASE k = 1
        BY <1>2, <4>1
      <4>2. CASE k # 1
        <5>1. k - 1 \in 1 .. n /\ (k - 1) + 1 = k
          BY <1>1, <4>2
        <5> QED BY <1>2, <1>4, <1>5, <5>1
      <4> QED BY <4>1, <4>2
    <3>2. CASE i = 1 \/ j = 1
      BY <3>1, <3>2
    <3>3. CASE i # 1 /\ j # 1
      BY <1>1, <1>3, <3>1, <3>3
    <3> QED BY <3>2, <3>3
  <2>3. ASSUME NEW i \in 1 .. n + 1
        PROVE  m.link[t[i]] = IF i = n + 1 THEN 0 ELSE t[i + 1]
    <3>1. CASE i = 1
      <4>1. m.link[t[i]] = IF n = 0 THEN 0 ELSE s[1]
        BY <1>2, <1>4, <1>8, <2>1, <3>1
      <4>2. n # 0 => t[2] = s[1]
        BY <1>1, <1>2
      <4> QED BY <1>1, <3>1, <4>1, <4>2
    <3>2. CASE i # 1
      <4>1. i - 1 \in 1 .. n /\ (i - 1) + 1 = i /\ t[i] = s[i - 1]
        <5>1. i - 1 \in 1 .. n /\ (i - 1) + 1 = i
          BY <1>1, <3>2
        <5> QED BY <1>2, <5>1
      <4>2. m.link[t[i]] = IF i - 1 = n THEN 0 ELSE s[i]
        BY <1>5, <1>6, <2>1, <4>1
      <4>3. i # n + 1 => i \in 1 .. n
        BY <1>1
      <4> QED BY <1>1, <1>2, <4>2, <4>3
    <3> QED BY <3>1, <3>2
  <2>4. t # <<>>
    BY <1>1, <1>2
  <2>5. ChainIs(m, t)
    BY <1>2, <1>9, <2>1, <2>2, <2>3, <2>4 DEF ChainIs
  <2> QED BY <2>5 DEF m
<1> QED BY <1>2, <1>7, <1>9, <1>10 DEF n, t, S

(* The chain kmalloc lays through a new page.                              *)
LEMMA NewChain ==
    ASSUME NEW e \in Entries, Total(e) >= 2
    PROVE  \E s \in Seq(1 .. Total(e)) :
              /\ ChainIs(NewNode(e), s)
              /\ ToSet(s) = 2 .. Total(e)
              /\ Len(s) < Total(e)
<1> DEFINE T == Total(e)  s == [i \in 1 .. T - 1 |-> i + 1]
<1>1. T \in Nat
  BY ClassType
<1>2. T >= 2
  OBVIOUS
<1>3. /\ NewNode(e).free_block_idx = 2
      /\ NewNode(e).free_block_num = T - 1
      /\ DOMAIN NewNode(e).link = 2 .. T
      /\ \A i \in 2 .. T : NewNode(e).link[i] = IF i = T THEN 0 ELSE i + 1
  BY DEF NewNode
<1> HIDE DEF T
<1>4. s \in Seq(1 .. T) /\ Len(s) = T - 1 /\ DOMAIN s = 1 .. T - 1
  BY <1>1, <1>2
<1>5. s # <<>> /\ s[1] = 2
  BY <1>1, <1>2, <1>4
<1>6. ToSet(s) = 2 .. T
  <2>1. ToSet(s) = {s[i] : i \in 1 .. T - 1}
    BY <1>4 DEF ToSet
  <2>2. ASSUME NEW i \in 2 .. T PROVE i \in ToSet(s)
    <3>1. i - 1 \in 1 .. T - 1 /\ s[i - 1] = i
      BY <1>1
    <3> QED BY <2>1, <3>1
  <2> QED BY <1>1, <2>1, <2>2
<1>7. IsInjective(s)
  BY <1>1, <1>4 DEF IsInjective
<1>8. ASSUME NEW i \in 1 .. T - 1
      PROVE  NewNode(e).link[s[i]] = IF i = T - 1 THEN 0 ELSE s[i + 1]
  <2>1. s[i] = i + 1 /\ i + 1 \in 2 .. T /\ (i # T - 1 => s[i + 1] = i + 2)
    BY <1>1
  <2> QED BY <1>1, <1>3, <2>1
<1>9. ChainIs(NewNode(e), s)
  BY <1>3, <1>4, <1>5, <1>6, <1>7, <1>8 DEF ChainIs
<1> QED BY <1>1, <1>4, <1>6, <1>9 DEF T

(* A page content whose chain is known is of the type of its class.        *)
LEMMA ChainNode ==
    ASSUME NEW e \in Entries, NEW s \in Seq(1 .. Total(e)), Len(s) < Total(e),
           NEW n, ChainIs(n, s),
           n = [free_block_idx |-> n.free_block_idx, free_block_num |-> n.free_block_num,
                link |-> n.link],
           n.link = [i \in DOMAIN n.link |-> n.link[i]]
    PROVE  n \in NodeType(e)
<1> DEFINE T == Total(e)  S == 1 .. T
<1>1. T \in Nat /\ s \in Seq(S)
  BY ClassType
<1>2. Len(s) \in 0 .. T
  BY <1>1
<1>3. \A i \in 1 .. Len(s) : s[i] \in 0 .. T
  <2>1. ASSUME NEW i \in 1 .. Len(s) PROVE s[i] \in S
    <3> HIDE DEF S
    <3> QED BY <1>1
  <2> QED BY <1>1, <2>1
<1>4. DOMAIN n.link \in SUBSET S
  <2> HIDE DEF S
  <2> QED BY <1>1 DEF ChainIs, ToSet
<1>5. n.free_block_idx \in 0 .. T
  <2>1. CASE s = <<>>
    BY <1>1, <2>1 DEF ChainIs
  <2>2. CASE s # <<>>
    <3> HIDE DEF S
    <3>1. 1 \in 1 .. Len(s)
      BY <1>1, <2>2
    <3> QED BY <1>3, <2>2, <3>1 DEF ChainIs
  <2> QED BY <2>1, <2>2
<1>6. ASSUME NEW k \in DOMAIN n.link PROVE n.link[k] \in 0 .. T
  <2>1. PICK i \in DOMAIN s : k = s[i]
    BY DEF ChainIs, ToSet
  <2>2. i \in 1 .. Len(s)
    <3> HIDE DEF S
    <3> QED BY <1>1, <2>1
  <2>3. n.link[k] = IF i = Len(s) THEN 0 ELSE s[i + 1]
    BY <2>1, <2>2 DEF ChainIs
  <2>4. i # Len(s) => i + 1 \in 1 .. Len(s)
    BY <1>2, <2>2
  <2> QED BY <1>1, <1>3, <2>3, <2>4
<1>7. n.link \in [DOMAIN n.link -> 0 .. T]
  BY <1>6
<1>8. n.free_block_num \in 0 .. T
  BY <1>2 DEF ChainIs
<1> HIDE DEF T
<1>9. n.link \in UNION {[F -> 0 .. T] : F \in SUBSET S}
  BY <1>4, <1>7
<1> QED BY <1>5, <1>8, <1>9 DEF NodeType, T

-----------------------------------------------------------------------------
(* Blocks and the pages they were cut from.                                *)

LEMMA BlockIs ==
    ASSUME NEW e, NEW p, NEW i
    PROVE  Block(e, p, i).entry = e /\ Block(e, p, i).addr = get_block_addr(e, p, i)
BY DEF Block

(* No two pages, and no two places of a page, yield the same block.        *)
LEMMA SamePage ==
    ASSUME NEW e \in Entries, NEW f \in Entries,
           NEW p \in Mem!ManagedPages, NEW q \in Mem!ManagedPages,
           NEW i \in 1 .. Total(e), NEW j \in 1 .. Total(f),
           Block(e, p, i) = Block(f, q, j)
    PROVE  e = f /\ p = q /\ i = j
<1>1. e = f /\ get_block_addr(e, p, i) = get_block_addr(f, q, j)
  BY BlockIs
<1>2. InPage(p, get_block_addr(e, p, i)) /\ InPage(q, get_block_addr(e, p, i))
  BY <1>1, PageOfBlock
<1>3. p = q
  BY <1>2, PageOfBlock
<1>4. p \in Nat
  BY ManagedPagesType
<1>5. get_block_index(e, p, get_block_addr(e, p, i)) = i
  BY <1>4, IndexOfBlock
<1>6. get_block_index(e, p, get_block_addr(e, p, j)) = j
  BY <1>1, <1>4, IndexOfBlock
<1> QED BY <1>1, <1>3, <1>5, <1>6

(* The block freed is found in the page it was cut from, and only there.   *)
LEMMA FoundAt ==
    ASSUME OneOwner, Homes, NEW b \in live, NEW q \in DOMAIN node, InPage(q, b.addr)
    PROVE  CutFrom(b, q)
<1>1. b.entry \in Entries
  BY DEF Homes
<1>2. PICK p \in DOMAIN node : CutFrom(b, p)
  BY DEF Homes
<1>3. PICK i \in 1 .. Total(b.entry) : b = Block(b.entry, p, i)
  BY <1>2 DEF CutFrom
<1>4. p \in Mem!ManagedPages /\ q \in Mem!ManagedPages
  BY <1>2 DEF OneOwner
<1>5. b.addr = get_block_addr(b.entry, p, i)
  BY <1>3, BlockIs
<1>6. q = p
  BY <1>1, <1>3, <1>4, <1>5, PageOfBlock
<1> QED BY <1>2, <1>6

(* Where a block was cut from does not depend on the state.                *)
LEMMA HomesNext ==
    Homes' <=>
        /\ \A b \in live' : b.entry \in Entries /\ \E p \in DOMAIN node' : CutFrom(b, p)
        /\ \A p \in DOMAIN node' : \A b, c \in live' :
              CutFrom(b, p) /\ CutFrom(c, p) => b.entry = c.entry
        /\ \A e \in Entries : \A p \in ToSet(node_head'[e]) : \A b \in live' :
              CutFrom(b, p) => b.entry = e
BY DEF Homes, CutFrom, Block, get_block_addr

(* A new block does not disturb where the others were cut from.            *)
LEMMA HomesAfterNew ==
    ASSUME OneOwner, Lists, Homes,
           NEW e \in Entries, NEW p \in Mem!ManagedPages, NEW i \in 1 .. Total(e),
           \A c \in live : CutFrom(c, p) => c.entry = e,
           live' = live \cup {Block(e, p, i)},
           DOMAIN node' = DOMAIN node \cup {p},
           \A f \in Entries : \A q \in ToSet(node_head'[f]) :
              \/ q \in ToSet(node_head[f]) /\ q # p
              \/ q = p /\ f = e
    PROVE  Homes'
<1> DEFINE b == Block(e, p, i)
<1>1. b.entry = e /\ CutFrom(b, p)
  BY BlockIs DEF CutFrom
<1>2. ASSUME NEW q \in Mem!ManagedPages, CutFrom(b, q) PROVE q = p
  <2>1. PICK j \in 1 .. Total(e) : b = Block(e, q, j)
    BY <1>1, <1>2 DEF CutFrom
  <2> QED BY <2>1, SamePage
<1>3. DOMAIN node \cup {p} \subseteq Mem!ManagedPages
  BY DEF OneOwner
<1>4. \A f \in Entries : ToSet(node_head[f]) \subseteq DOMAIN node
  BY DEF Lists, ToSet
<1> HIDE DEF b
<1>5. live' = live \cup {b}
  BY DEF b
<1>6. \A c \in live' : c.entry \in Entries /\ \E q \in DOMAIN node' : CutFrom(c, q)
  BY <1>1, <1>5 DEF Homes
<1>7. ASSUME NEW q \in DOMAIN node', NEW c \in live', NEW d \in live',
             CutFrom(c, q), CutFrom(d, q)
      PROVE  c.entry = d.entry
  <2>1. CASE q = p
    BY <1>1, <1>5, <1>7, <2>1
  <2>2. CASE q # p
    <3>1. c \in live /\ d \in live /\ q \in DOMAIN node
      BY <1>2, <1>3, <1>5, <1>7, <2>2
    <3> QED BY <1>7, <3>1 DEF Homes
  <2> QED BY <2>1, <2>2
<1>8. ASSUME NEW f \in Entries, NEW q \in ToSet(node_head'[f]), NEW c \in live', CutFrom(c, q)
      PROVE  c.entry = f
  <2>1. CASE q = p /\ f = e
    BY <1>1, <1>5, <1>8, <2>1
  <2>2. CASE q \in ToSet(node_head[f]) /\ q # p
    <3>1. c \in live
      BY <1>2, <1>3, <1>4, <1>5, <1>8, <2>2
    <3> QED BY <1>8, <2>2, <3>1 DEF Homes
  <2> QED BY <2>1, <2>2
<1> QED BY <1>6, <1>7, <1>8, HomesNext

(* Nor does a block that goes, as long as the pages of the others stay.    *)
LEMMA HomesAfterFree ==
    ASSUME Homes, live' \subseteq live, DOMAIN node' \subseteq DOMAIN node,
           \A c \in live' : \A p \in DOMAIN node : CutFrom(c, p) => p \in DOMAIN node',
           \A f \in Entries : ToSet(node_head'[f]) \subseteq ToSet(node_head[f])
    PROVE  Homes'
<1>1. \A c \in live' : c.entry \in Entries /\ \E q \in DOMAIN node' : CutFrom(c, q)
  BY DEF Homes
<1>2. \A q \in DOMAIN node' : \A c, d \in live' :
          CutFrom(c, q) /\ CutFrom(d, q) => c.entry = d.entry
  BY DEF Homes
<1>3. \A f \in Entries : \A q \in ToSet(node_head'[f]) : \A c \in live' :
          CutFrom(c, q) => c.entry = f
  BY DEF Homes
<1> QED BY <1>1, <1>2, <1>3, HomesNext

(* The chain of a page whose content and blocks are left alone.            *)
LEMMA ChainElsewhere ==
    ASSUME NEW f \in Entries, NEW q, node'[q] = node[q],
           \A i \in 1 .. Total(f) : Block(f, q, i) \in live' <=> Block(f, q, i) \in live,
           NEW s \in Seq(1 .. Total(f)), ChainIs(node[q], s), ToSet(s) = Unused(f, q)
    PROVE  ChainIs(node'[q], s) /\ ToSet(s) = Unused(f, q)'
BY DEF Unused, Block, get_block_addr

-----------------------------------------------------------------------------
(* The allocator's side of a step.                                         *)

LEMMA BitmapCount ==
    ASSUME NEW S, S \subseteq Mem!ManagedPages
    PROVE  /\ IsFiniteSet(S)
           /\ Cardinality(S) \in Nat
           /\ \A p \in S : PAGE_MEM_SIZE * Cardinality(S \ {p})
                             = (PAGE_MEM_SIZE * Cardinality(S)) - PAGE_MEM_SIZE
           /\ \A p \in Mem!ManagedPages \ S :
                PAGE_MEM_SIZE * Cardinality(S \cup {p})
                  = (PAGE_MEM_SIZE * Cardinality(S)) + PAGE_MEM_SIZE
<1>1. PAGE_MEM_SIZE \in Nat \ {0} /\ physical_mem_size \in Nat
  BY MemoryAssumption DEF Mem!SizeAssumption
<1>2. S \subseteq 0 .. physical_mem_size
  <2>1. S \subseteq Nat
    BY ManagedPagesType
  <2>2. ASSUME NEW a \in S PROVE a <= physical_mem_size
    <3>1. a \in Mem!available_mem_start .. physical_mem_size - 1 /\ a \in Nat
      BY <2>1 DEF Mem!ManagedPages
    <3> QED BY <1>1, <3>1
  <2> QED BY <1>1, <2>1, <2>2
<1>3. IsFiniteSet(S)
  <2>1. IsFiniteSet(0 .. physical_mem_size)
    BY <1>1, FS_Interval
  <2> QED BY <1>2, <2>1, FS_Subset
<1>4. Cardinality(S) \in Nat
  BY <1>3, FS_CardinalityType
<1>5. ASSUME NEW p \in S
      PROVE  PAGE_MEM_SIZE * Cardinality(S \ {p})
               = (PAGE_MEM_SIZE * Cardinality(S)) - PAGE_MEM_SIZE
  <2> DEFINE n == Cardinality(S)
  <2>1. Cardinality(S \ {p}) = n - 1
    BY <1>3, FS_RemoveElement
  <2> HIDE DEF n
  <2>2. PAGE_MEM_SIZE * (n - 1) = (PAGE_MEM_SIZE * n) - PAGE_MEM_SIZE
    BY <1>1, <1>4 DEF n
  <2> QED BY <2>1, <2>2 DEF n
<1>6. ASSUME NEW p \in Mem!ManagedPages \ S
      PROVE  PAGE_MEM_SIZE * Cardinality(S \cup {p})
               = (PAGE_MEM_SIZE * Cardinality(S)) + PAGE_MEM_SIZE
  <2> DEFINE n == Cardinality(S)
  <2>1. Cardinality(S \cup {p}) = n + 1
    BY <1>3, FS_AddElement
  <2> HIDE DEF n
  <2>2. PAGE_MEM_SIZE * (n + 1) = (PAGE_MEM_SIZE * n) + PAGE_MEM_SIZE
    BY <1>1, <1>4 DEF n
  <2> QED BY <2>1, <2>2 DEF n
<1> QED BY <1>3, <1>4, <1>5, <1>6

(* A page handed out had no owner; afterwards it has one.                  *)
LEMMA TakeStep ==
    ASSUME OneOwner, NEW p, p = Mem!alloc_mem_page, p # Mem!NULL, Mem!Take(p),
           \/ DOMAIN node' = DOMAIN node \cup {p} /\ other' = other
           \/ DOMAIN node' = DOMAIN node /\ other' = other \cup {p}
    PROVE  OneOwner' /\ Mem!Next /\ p \in Mem!ManagedPages \ DOMAIN node
<1>1. p \in bitmap
  BY AllocAnswers DEF OneOwner
<1>2. p \in Mem!ManagedPages /\ p \notin DOMAIN node /\ p \notin other
  BY <1>1 DEF OneOwner
<1>3. bitmap' = bitmap \ {p} /\ free_mem_size' = free_mem_size - PAGE_MEM_SIZE
  BY DEF Mem!Take
<1>4. free_mem_size' = PAGE_MEM_SIZE * Cardinality(bitmap')
  BY <1>1, <1>3, BitmapCount DEF OneOwner
<1>5. OneOwner'
  BY <1>1, <1>2, <1>3, <1>4 DEF OneOwner
<1>6. \E c \in {"kmalloc", "other"} : Held' = [Held EXCEPT ![c] = @ \cup {p}]
  <2>1. CASE DOMAIN node' = DOMAIN node \cup {p} /\ other' = other
    <3>1. Held' = [Held EXCEPT !["kmalloc"] = @ \cup {p}]
      BY <2>1 DEF Held
    <3> QED BY <3>1
  <2>2. CASE DOMAIN node' = DOMAIN node /\ other' = other \cup {p}
    <3>1. Held' = [Held EXCEPT !["other"] = @ \cup {p}]
      BY <2>2 DEF Held
    <3> QED BY <3>1
  <2> QED BY <2>1, <2>2
<1>7. \E c \in {"kmalloc", "other"} : Mem!Alloc(c)
  BY <1>6 DEF Mem!Alloc, Mem!Grant
<1>8. Mem!Next
  BY <1>7 DEF Mem!Next
<1> QED BY <1>2, <1>5, <1>8

LEMMA GiveStep ==
    ASSUME OneOwner, NEW p, Mem!free_mem_page(p),
           \/ p \in DOMAIN node /\ DOMAIN node' = DOMAIN node \ {p} /\ other' = other
           \/ p \in other /\ DOMAIN node' = DOMAIN node /\ other' = other \ {p}
    PROVE  OneOwner' /\ Mem!Next
<1>1. p \in Mem!ManagedPages /\ p \notin bitmap /\ (p \in DOMAIN node <=> p \notin other)
  BY DEF OneOwner
<1>2. bitmap' = bitmap \cup {p} /\ free_mem_size' = free_mem_size + PAGE_MEM_SIZE
  <2>1. p >= Mem!available_mem_start
    BY <1>1 DEF Mem!ManagedPages
  <2>2. p \in Nat
    BY <1>1, ManagedPagesType
  <2>3. ~ (p < Mem!available_mem_start)
    BY <1>1, StartType, <2>1, <2>2
  <2> QED BY <2>3 DEF Mem!free_mem_page
<1>3. free_mem_size' = PAGE_MEM_SIZE * Cardinality(bitmap')
  BY <1>1, <1>2, BitmapCount DEF OneOwner
<1>4. OneOwner'
  BY <1>1, <1>2, <1>3 DEF OneOwner
<1>5. \E c \in {"kmalloc", "other"} : p \in Held[c] /\ Held' = [Held EXCEPT ![c] = @ \ {p}]
  <2>1. CASE p \in DOMAIN node /\ DOMAIN node' = DOMAIN node \ {p} /\ other' = other
    <3>1. Held' = [Held EXCEPT !["kmalloc"] = @ \ {p}] /\ p \in Held["kmalloc"]
      BY <2>1 DEF Held
    <3> QED BY <3>1
  <2>2. CASE p \in other /\ DOMAIN node' = DOMAIN node /\ other' = other \ {p}
    <3>1. Held' = [Held EXCEPT !["other"] = @ \ {p}] /\ p \in Held["other"]
      BY <2>2 DEF Held
    <3> QED BY <3>1
  <2> QED BY <2>1, <2>2
<1>6. \E c \in {"kmalloc", "other"} : Mem!Free(c, p) /\ p \in Held[c]
  BY <1>5 DEF Mem!Free
<1>7. Mem!Next
  BY <1>6 DEF Mem!Next
<1> QED BY <1>4, <1>7

-----------------------------------------------------------------------------
(* Every step keeps the invariant, and is a step of the page allocator's   *)
(* client or leaves the allocator alone.                                   *)

(* A request that is not too large has a class.                            *)
LEMMA EntryOf ==
    ASSUME NEW size \in 1 .. max_block_size
    PROVE  get_entry_index(size) \in Entries
<1> DEFINE n == Len(block_entry)
           S == {e \in Entries : size <= Size(e)}
<1>1. n \in Nat /\ Entries = 1 .. n
  BY BlockAssumption DEF Entries
<1>2. block_entry # <<>>
  BY DEF max_block_size
<1>3. n # 0
  BY <1>2, BlockAssumption
<1>4. Last(block_entry) = block_entry[n]
  BY DEF Last
<1> HIDE DEF n
<1>5. n \in S
  BY <1>1, <1>2, <1>3, <1>4 DEF max_block_size, Size
<1>6. S \subseteq Nat
  BY <1>1
<1>7. PICK e \in S : \A f \in S : e <= f
  <2> HIDE DEF S
  <2> QED BY <1>5, <1>6, LeastNumber
<1>8. ASSUME NEW f \in 1 .. e - 1 PROVE block_entry[f].block_size < size
  <2>1. f \in Entries /\ e \in Nat /\ f \in Nat /\ f < e
    BY <1>1
  <2>2. f \notin S
    BY <1>7, <2>1
  <2>3. ~ (size <= Size(f)) /\ Size(f) \in Nat /\ size \in Nat
    <3>1. size \in Nat
      BY <1>5 DEF max_block_size
    <3> QED BY <2>1, <2>2, <3>1, ClassType
  <2> QED BY <2>3 DEF Size
<1>9. /\ size <= block_entry[e].block_size
      /\ \A f \in 1 .. e - 1 : block_entry[f].block_size < size
      /\ e \in Entries
  BY <1>8 DEF Size
<1> QED BY <1>9, Zenon DEF get_entry_index

(* The page kmalloc finds is listed and has a free block.                  *)
LEMMA FirstRoomyIs ==
    ASSUME Lists, NEW e \in Entries, FirstRoomy(e) # 0
    PROVE  /\ node_head[e][FirstRoomy(e)] \in ToSet(node_head[e])
           /\ node_head[e][FirstRoomy(e)] \in DOMAIN node
           /\ HasRoom(node_head[e][FirstRoomy(e)])
<1> DEFINE list == node_head[e]
           I == {i \in 1 .. Len(list) : HasRoom(list[i])}
<1>1. FirstRoomy(e) = IF I # {} THEN CHOOSE i \in I : \A j \in I : i <= j ELSE 0
  BY DEF FirstRoomy, SelectInSeq, Min
<1>2. I # {}
  BY <1>1
<1>3. list \in Seq(DOMAIN node)
  BY DEF Lists
<1> HIDE DEF list
<1>4. Len(list) \in Nat /\ DOMAIN list = 1 .. Len(list)
      /\ \A i \in DOMAIN list : list[i] \in DOMAIN node
  BY <1>3
<1>5. I \subseteq Nat
  BY <1>4
<1>6. FirstRoomy(e) \in I
  <2> HIDE DEF I
  <2> QED BY <1>1, <1>2, <1>5, LeastNumber
<1> QED BY <1>4, <1>6 DEF ToSet, list

(* A page that is listed is listed in one class.                           *)
LEMMA ListedOnce ==
    ASSUME Lists
    PROVE  \A e, f \in Entries : \A p \in ToSet(node_head[e]) :
              p \in DOMAIN node /\ (p \in ToSet(node_head[f]) => e = f)
<1>1. \A e \in Entries : \A p \in ToSet(node_head[e]) : p \in DOMAIN node
  <2> SUFFICES ASSUME NEW e \in Entries, NEW p \in ToSet(node_head[e])
               PROVE  p \in DOMAIN node
    OBVIOUS
  <2>1. PICK i \in DOMAIN node_head[e] : p = node_head[e][i]
    BY DEF ToSet
  <2>2. node_head[e] \in Seq(DOMAIN node)
    BY DEF Lists
  <2> QED BY <2>1, <2>2
<1>2. \A e, f \in Entries : \A p \in ToSet(node_head[e]) : p \in ToSet(node_head[f]) => e = f
  BY DEF Lists
<1> QED BY <1>1, <1>2

(* A block differs from those of every other page, and from every other of *)
(* its own.                                                                *)
LEMMA OtherBlocks ==
    ASSUME NEW e \in Entries, NEW p \in Mem!ManagedPages, NEW idx \in 1 .. Total(e)
    PROVE  /\ \A f \in Entries : \A q \in Mem!ManagedPages \ {p} : \A i \in 1 .. Total(f) :
                Block(f, q, i) # Block(e, p, idx)
           /\ \A i \in 1 .. Total(e) : Block(e, p, i) = Block(e, p, idx) <=> i = idx
BY SamePage

(* A step that changes one page at most, and the blocks of that one alone, *)
(* leaves the others as they are.                                          *)
OthersStay(e, p) ==
    /\ \A f \in Entries : \A q \in ToSet(node_head'[f]) :
          (q \in ToSet(node_head[f]) /\ q # p) \/ (q = p /\ f = e)
    /\ \A q \in DOMAIN node' \ {p} : q \in DOMAIN node /\ node'[q] = node[q]
    /\ \A f \in Entries : \A q \in ToSet(node_head'[f]) : q \in DOMAIN node'
    /\ \A f \in Entries : \A q \in Mem!ManagedPages \ {p} : \A i \in 1 .. Total(f) :
          Block(f, q, i) \in live' <=> Block(f, q, i) \in live

(* The page itself is one of its class, and has a chain if it is listed.   *)
BecomesPageOf(e, p) ==
    /\ p \in DOMAIN node' => \E f \in Entries : node'[p] \in NodeType(f)
    /\ p \in ToSet(node_head'[e]) =>
          /\ node'[p] \in NodeType(e)
          /\ \E s \in Seq(1 .. Total(e)) :
                ChainIs(node'[p], s) /\ ToSet(s) = Unused(e, p)' /\ Len(s) < Total(e)

LEMMA PageChanges ==
    ASSUME OneOwner, Lists, Nodes, Chains, NEW e \in Entries, NEW p,
           OthersStay(e, p), BecomesPageOf(e, p)
    PROVE  Nodes' /\ Chains'
<1> USE DEF OthersStay, BecomesPageOf
<1>1. \A q \in DOMAIN node' : \E f \in Entries : node'[q] \in NodeType(f)
  BY DEF Nodes
<1>2. ASSUME NEW f \in Entries, NEW q \in ToSet(node_head'[f])
      PROVE  /\ node'[q] \in NodeType(f)
             /\ \E s \in Seq(1 .. Total(f)) :
                   ChainIs(node'[q], s) /\ ToSet(s) = Unused(f, q)' /\ Len(s) < Total(f)
  <2>1. CASE q = p /\ f = e
    BY <1>2, <2>1
  <2>2. CASE q \in ToSet(node_head[f]) /\ q # p
    <3>1. q \in DOMAIN node /\ node'[q] = node[q]
      BY <1>2, <2>2
    <3>2. q \in Mem!ManagedPages
      BY <3>1 DEF OneOwner
    <3>3. node[q] \in NodeType(f)
      BY <2>2 DEF Nodes
    <3>4. PICK s \in Seq(1 .. Total(f)) :
            ChainIs(node[q], s) /\ ToSet(s) = Unused(f, q) /\ Len(s) < Total(f)
      BY <2>2 DEF Chains
    <3>5. \A i \in 1 .. Total(f) : Block(f, q, i) \in live' <=> Block(f, q, i) \in live
      BY <2>2, <3>2
    <3>6. ChainIs(node'[q], s) /\ ToSet(s) = Unused(f, q)'
      BY <3>1, <3>4, <3>5, ChainElsewhere
    <3> QED BY <3>1, <3>3, <3>4, <3>6
  <2> QED BY <1>2, <2>1, <2>2
<1>3. Nodes'
  BY <1>1, <1>2 DEF Nodes, NodeType, Total
<1>4. Chains'
  BY <1>2 DEF Chains, ChainIs, Total
<1> QED BY <1>3, <1>4

(* What kmalloc_exist does once it has found the page.                     *)
LEMMA ServedFromPage ==
    ASSUME KInv, NEW e \in Entries, NEW p \in ToSet(node_head[e]), HasRoom(p),
           NEW idx, idx = node[p].free_block_idx,
           NEW next \in Word(p, idx),
           node' = [node EXCEPT ![p] = Pop(p, next)],
           live' = live \cup {Block(e, p, idx)},
           UNCHANGED <<bitmap, free_mem_size, node_head, other>>
    PROVE  KInv' /\ UNCHANGED Mem!vars
<1> DEFINE b == Block(e, p, idx)
<1> USE DEF KInv
<1>1. p \in DOMAIN node /\ p \in Mem!ManagedPages
  BY ListedOnce DEF OneOwner
<1>2. PICK s \in Seq(1 .. Total(e)) :
          ChainIs(node[p], s) /\ ToSet(s) = Unused(e, p) /\ Len(s) < Total(e)
  BY DEF Chains
<1>3. /\ Tail(s) \in Seq(1 .. Total(e))
      /\ ChainIs(Pop(p, next), Tail(s))
      /\ idx \in ToSet(s)
      /\ ToSet(Tail(s)) = ToSet(s) \ {idx}
      /\ Len(Tail(s)) < Total(e)
  BY <1>2, PopChain
<1>4. idx \in 1 .. Total(e)
  BY <1>2, <1>3 DEF Unused
<1>5. DOMAIN node' = DOMAIN node /\ node'[p] = Pop(p, next)
      /\ \A q \in DOMAIN node \ {p} : node'[q] = node[q]
  BY <1>1
<1>6. \A f \in Entries : \A q \in ToSet(node_head'[f]) :
         /\ q \in DOMAIN node'
         /\ (q \in ToSet(node_head[f]) /\ q # p) \/ (q = p /\ f = e)
  BY <1>1, <1>5, ListedOnce
<1>7. /\ \A f \in Entries : \A q \in Mem!ManagedPages \ {p} : \A i \in 1 .. Total(f) :
            Block(f, q, i) \in live' <=> Block(f, q, i) \in live
      /\ \A i \in 1 .. Total(e) : Block(e, p, i) \in live' <=> Block(e, p, i) \in live \/ i = idx
  BY <1>1, <1>4, OtherBlocks
<1>8. ToSet(Tail(s)) = Unused(e, p)'
  <2>1. Unused(e, p)' = {i \in 1 .. Total(e) : Block(e, p, i) \notin live'}
    BY DEF Unused, Block, get_block_addr, Total
  <2> QED BY <1>2, <1>3, <1>7, <2>1 DEF Unused
<1>9. Pop(p, next) \in NodeType(e)
  <2> DEFINE n == Pop(p, next)
  <2>1. /\ n = [free_block_idx |-> n.free_block_idx, free_block_num |-> n.free_block_num,
                link |-> n.link]
        /\ n.link = [i \in DOMAIN n.link |-> n.link[i]]
        /\ ChainIs(n, Tail(s))
    BY <1>3 DEF Pop
  <2> HIDE DEF n
  <2>2. n \in NodeType(e)
    BY <1>3, <2>1, ChainNode
  <2> QED BY <2>2 DEF n
<1>10. Nodes' /\ Chains'
  <2>1. /\ node'[p] \in NodeType(e)
        /\ \E t \in Seq(1 .. Total(e)) :
              ChainIs(node'[p], t) /\ ToSet(t) = Unused(e, p)' /\ Len(t) < Total(e)
    BY <1>3, <1>5, <1>8, <1>9
  <2>2. /\ \A f \in Entries : \A q \in ToSet(node_head'[f]) : q \in DOMAIN node'
        /\ \A f \in Entries : \A q \in ToSet(node_head'[f]) :
              (q \in ToSet(node_head[f]) /\ q # p) \/ (q = p /\ f = e)
        /\ \A q \in DOMAIN node' \ {p} : q \in DOMAIN node /\ node'[q] = node[q]
    BY <1>5, <1>6
  <2>3. OthersStay(e, p)
    BY <1>7, <2>2 DEF OthersStay
  <2>4. BecomesPageOf(e, p)
    BY <2>1 DEF BecomesPageOf
  <2> QED BY <2>3, <2>4, PageChanges
<1>11. Homes'
  <2>1. \A c \in live : CutFrom(c, p) => c.entry = e
    BY DEF Homes
  <2>2. DOMAIN node' = DOMAIN node \cup {p}
    BY <1>1, <1>5
  <2> QED BY <1>1, <1>4, <1>6, <2>1, <2>2, HomesAfterNew
<1>12. OneOwner' /\ Lists'
  BY <1>5 DEF OneOwner, Lists
<1>13. UNCHANGED Mem!vars
  BY <1>5 DEF Mem!vars, Held
<1> QED BY <1>10, <1>11, <1>12, <1>13

LEMMA ExistKeeps ==
    ASSUME KInv, NEW size \in Requests, kmalloc_exist(size)
    PROVE  KInv' /\ UNCHANGED Mem!vars
<1>1. PICK e \in Entries : e = get_entry_index(size)
  BY EntryOf DEF kmalloc_exist
<1>2. PICK p \in ToSet(node_head[e]) : HasRoom(p) /\ p = node_head[e][FirstRoomy(e)]
  BY <1>1, FirstRoomyIs DEF KInv, kmalloc_exist
<1>3. PICK idx : idx = node[p].free_block_idx
  OBVIOUS
<1>4. PICK next \in Word(p, idx) : node' = [node EXCEPT ![p] = Pop(p, next)]
  BY <1>1, <1>2, <1>3 DEF kmalloc_exist
<1>5. /\ live' = live \cup {Block(e, p, idx)}
      /\ UNCHANGED <<bitmap, free_mem_size, node_head, other>>
  BY <1>1, <1>2, <1>3 DEF kmalloc_exist
<1> QED BY <1>2, <1>3, <1>4, <1>5, ServedFromPage

(* kmalloc takes a new page, whose first block it hands out.               *)
LEMMA ServedFromNewPage ==
    ASSUME KInv, NEW e \in Entries, Total(e) >= 2,
           NEW p, p = Mem!alloc_mem_page, p # Mem!NULL, Mem!Take(p),
           node' = [q \in DOMAIN node \cup {p} |-> IF q = p THEN NewNode(e) ELSE node[q]],
           node_head' = [node_head EXCEPT ![e] = Append(@, p)],
           live' = live \cup {Block(e, p, 1)},
           UNCHANGED other
    PROVE  KInv' /\ Mem!Next
<1> USE DEF KInv
<1>1. DOMAIN node' = DOMAIN node \cup {p} /\ node'[p] = NewNode(e)
      /\ \A q \in DOMAIN node' \ {p} : q \in DOMAIN node /\ node'[q] = node[q]
  OBVIOUS
<1>2. OneOwner' /\ Mem!Next /\ p \in Mem!ManagedPages /\ p \notin DOMAIN node
  BY <1>1, TakeStep
<1>3. 1 \in 1 .. Total(e)
  BY ClassType
<1>4. /\ node_head'[e] = Append(node_head[e], p)
      /\ \A f \in Entries \ {e} : node_head'[f] = node_head[f]
      /\ node_head' = [f \in Entries |-> node_head'[f]]
  BY DEF Lists
<1>5. /\ node_head'[e] \in Seq(DOMAIN node')
      /\ ToSet(node_head'[e]) = ToSet(node_head[e]) \cup {p}
      /\ IsInjective(node_head'[e])
  <2> DEFINE list == node_head[e]  new == Append(list, p)  n == Len(list)
  <2>1. list \in Seq(DOMAIN node) /\ IsInjective(list)
    BY DEF Lists
  <2> HIDE DEF list
  <2>2. n \in Nat /\ DOMAIN list = 1 .. n /\ \A i \in 1 .. n : list[i] \in DOMAIN node
    BY <2>1
  <2>3. list \in Seq(DOMAIN node')
    BY <1>1, <2>1
  <2>4. new \in Seq(DOMAIN node')
    BY <1>1, <2>3
  <2>5. DOMAIN new = 1 .. n + 1 /\ new[n + 1] = p /\ \A i \in 1 .. n : new[i] = list[i]
    BY <2>1
  <2> HIDE DEF n, new
  <2>6. 1 .. n + 1 = (1 .. n) \cup {n + 1} /\ n + 1 \notin 1 .. n
    BY <2>2
  <2>7. ToSet(new) = ToSet(list) \cup {p}
    <3>1. ToSet(new) = {new[i] : i \in 1 .. n + 1} /\ ToSet(list) = {list[i] : i \in 1 .. n}
      BY <2>2, <2>5 DEF ToSet
    <3> QED BY <2>5, <2>6, <3>1
  <2>8. IsInjective(new)
    BY <1>2, <2>1, <2>2, <2>5, <2>6 DEF IsInjective
  <2> QED BY <1>4, <2>4, <2>7, <2>8 DEF list, new
<1>6. \A f \in Entries : \A q \in ToSet(node_head'[f]) :
         /\ q \in DOMAIN node'
         /\ (q \in ToSet(node_head[f]) /\ q # p) \/ (q = p /\ f = e)
  BY <1>1, <1>2, <1>4, <1>5, ListedOnce
<1>7. Lists'
  <2>1. ASSUME NEW f \in Entries
        PROVE  node_head'[f] \in Seq(DOMAIN node') /\ IsInjective(node_head'[f])
    <3>1. CASE f = e
      BY <1>5, <3>1
    <3>2. CASE f # e
      <4>1. node_head'[f] \in Seq(DOMAIN node) /\ IsInjective(node_head'[f])
        BY <1>4, <3>2 DEF Lists
      <4> QED BY <1>1, <4>1, SeqWiden
    <3> QED BY <3>1, <3>2
  <2>2. ASSUME NEW f \in Entries, NEW g \in Entries, f # g
        PROVE  ToSet(node_head'[f]) \cap ToSet(node_head'[g]) = {}
    BY <1>6, <2>2, ListedOnce
  <2> QED BY <1>4, <2>1, <2>2 DEF Lists
<1>8. PICK s \in Seq(1 .. Total(e)) :
        ChainIs(NewNode(e), s) /\ ToSet(s) = 2 .. Total(e) /\ Len(s) < Total(e)
  BY NewChain
<1>9. \A c \in live : ~ CutFrom(c, p)
  <2> SUFFICES ASSUME NEW c \in live, CutFrom(c, p) PROVE FALSE
    OBVIOUS
  <2>1. PICK q \in DOMAIN node : CutFrom(c, q)
    BY DEF Homes
  <2>2. c.entry \in Entries /\ q \in Mem!ManagedPages
    BY DEF Homes, OneOwner
  <2>3. p = q
    BY <1>2, <2>1, <2>2, SamePage DEF CutFrom
  <2> QED BY <1>2, <2>3
<1>10. /\ \A f \in Entries : \A q \in Mem!ManagedPages \ {p} : \A i \in 1 .. Total(f) :
            Block(f, q, i) \in live' <=> Block(f, q, i) \in live
       /\ \A i \in 1 .. Total(e) : Block(e, p, i) \in live' <=> Block(e, p, i) \in live \/ i = 1
  BY <1>2, <1>3, OtherBlocks
<1>11. \A i \in 1 .. Total(e) : Block(e, p, i) \notin live
  BY <1>9, BlockIs DEF CutFrom
<1>12. ToSet(s) = Unused(e, p)'
  <2>1. Unused(e, p)' = {i \in 1 .. Total(e) : Block(e, p, i) \notin live'}
    BY DEF Unused, Block, get_block_addr, Total
  <2>2. Unused(e, p)' = {i \in 1 .. Total(e) : i # 1}
    BY <1>10, <1>11, <2>1
  <2>3. Total(e) \in Nat
    BY ClassType
  <2> QED BY <1>8, <2>2, <2>3
<1>13. NewNode(e) \in NodeType(e)
  <2> DEFINE n == NewNode(e)
  <2>1. /\ n = [free_block_idx |-> n.free_block_idx, free_block_num |-> n.free_block_num,
                link |-> n.link]
        /\ n.link = [i \in DOMAIN n.link |-> n.link[i]]
        /\ ChainIs(n, s)
    BY <1>8 DEF NewNode
  <2> HIDE DEF n
  <2>2. n \in NodeType(e)
    BY <1>8, <2>1, ChainNode
  <2> QED BY <2>2 DEF n
<1>14. Nodes' /\ Chains'
  <2>1. /\ node'[p] \in NodeType(e)
        /\ \E t \in Seq(1 .. Total(e)) :
              ChainIs(node'[p], t) /\ ToSet(t) = Unused(e, p)' /\ Len(t) < Total(e)
    BY <1>1, <1>8, <1>12, <1>13
  <2>2. /\ \A f \in Entries : \A q \in ToSet(node_head'[f]) : q \in DOMAIN node'
        /\ \A f \in Entries : \A q \in ToSet(node_head'[f]) :
              (q \in ToSet(node_head[f]) /\ q # p) \/ (q = p /\ f = e)
    BY <1>6
  <2>3. \A q \in DOMAIN node' \ {p} : q \in DOMAIN node /\ node'[q] = node[q]
    BY <1>1, <1>10
  <2>4. OthersStay(e, p)
    BY <1>10, <2>2, <2>3 DEF OthersStay
  <2>5. BecomesPageOf(e, p)
    BY <2>1 DEF BecomesPageOf
  <2> QED BY <2>4, <2>5, PageChanges
<1>15. Homes'
  BY <1>1, <1>2, <1>3, <1>6, <1>9, HomesAfterNew
<1> QED BY <1>2, <1>7, <1>14, <1>15

LEMMA NewKeeps ==
    ASSUME KInv, NEW size \in Requests, kmalloc_new(size)
    PROVE  KInv' /\ Mem!Next
<1>1. PICK e \in Entries : e = get_entry_index(size)
  BY EntryOf DEF kmalloc_new
<1>2. PICK p : p = Mem!alloc_mem_page
  OBVIOUS
<1>3. Total(e) >= 2
  BY <1>1, RequestAssumption DEF kmalloc_new
<1>4. /\ p # Mem!NULL
      /\ Mem!Take(p)
      /\ node' = [q \in DOMAIN node \cup {p} |-> IF q = p THEN NewNode(e) ELSE node[q]]
      /\ node_head' = [node_head EXCEPT ![e] = Append(@, p)]
      /\ live' = live \cup {Block(e, p, 1)}
      /\ UNCHANGED other
  BY <1>1, <1>2 DEF kmalloc_new
<1> QED BY <1>2, <1>3, <1>4, ServedFromNewPage

(* kfree puts the block at the head of its page's chain.                   *)
LEMMA FreedToPage ==
    ASSUME KInv, NEW e \in Entries, NEW p \in ToSet(node_head[e]), NEW idx \in 1 .. Total(e),
           Block(e, p, idx) \in live, ~ BecomesEmpty(e, p),
           node' = [node EXCEPT ![p] = Push(p, idx)],
           live' = live \ {Block(e, p, idx)},
           UNCHANGED <<bitmap, free_mem_size, node_head, other>>
    PROVE  KInv' /\ UNCHANGED Mem!vars
<1> USE DEF KInv
<1>1. p \in DOMAIN node /\ p \in Mem!ManagedPages
  BY ListedOnce DEF OneOwner
<1>2. PICK s \in Seq(1 .. Total(e)) :
          ChainIs(node[p], s) /\ ToSet(s) = Unused(e, p) /\ Len(s) < Total(e)
  BY DEF Chains
<1>3. idx \notin ToSet(s)
  BY <1>2 DEF Unused
<1> DEFINE t == <<idx>> \o s
<1>4. /\ t \in Seq(1 .. Total(e))
      /\ ChainIs(Push(p, idx), t)
      /\ ToSet(t) = ToSet(s) \cup {idx}
      /\ Len(t) = Len(s) + 1
      /\ Len(s) + 1 < WORD
  BY <1>2, <1>3, PushChain
<1>5. Len(t) < Total(e)
  <2>1. Len(s) \in Nat /\ Total(e) \in Nat /\ WORD \in Nat
    BY ClassType, TotalFits
  <2>2. (Len(s) + 1) % WORD = Len(s) + 1
    <3>1. ASSUME NEW k \in Nat, k < WORD PROVE k % WORD = k
      BY <2>1, <3>1
    <3>2. Len(s) + 1 \in Nat /\ Len(s) + 1 < WORD
      BY <1>4, <2>1
    <3> QED BY <3>1, <3>2
  <2>3. Len(s) + 1 # Total(e)
    BY <1>2, <2>2 DEF BecomesEmpty, ChainIs
  <2> QED BY <1>2, <1>4, <2>1, <2>3
<1> HIDE DEF t
<1>6. DOMAIN node' = DOMAIN node /\ node'[p] = Push(p, idx)
      /\ \A q \in DOMAIN node' \ {p} : q \in DOMAIN node /\ node'[q] = node[q]
  BY <1>1
<1>7. /\ \A f \in Entries : \A q \in ToSet(node_head'[f]) : q \in DOMAIN node'
      /\ \A f \in Entries : \A q \in ToSet(node_head'[f]) :
            (q \in ToSet(node_head[f]) /\ q # p) \/ (q = p /\ f = e)
  BY <1>1, <1>6, ListedOnce
<1>8. /\ \A f \in Entries : \A q \in Mem!ManagedPages \ {p} : \A i \in 1 .. Total(f) :
            Block(f, q, i) \in live' <=> Block(f, q, i) \in live
      /\ \A i \in 1 .. Total(e) : Block(e, p, i) \in live' <=> Block(e, p, i) \in live /\ i # idx
  BY <1>1, OtherBlocks
<1>9. ToSet(t) = Unused(e, p)'
  <2>1. Unused(e, p)' = {i \in 1 .. Total(e) : Block(e, p, i) \notin live'}
    BY DEF Unused, Block, get_block_addr, Total
  <2> QED BY <1>2, <1>4, <1>8, <2>1 DEF Unused
<1>10. Push(p, idx) \in NodeType(e)
  <2> DEFINE n == Push(p, idx)
  <2>1. /\ n = [free_block_idx |-> n.free_block_idx, free_block_num |-> n.free_block_num,
                link |-> n.link]
        /\ n.link = [i \in DOMAIN n.link |-> n.link[i]]
        /\ ChainIs(n, t)
    BY <1>4 DEF Push
  <2> HIDE DEF n
  <2>2. n \in NodeType(e)
    BY <1>4, <1>5, <2>1, ChainNode
  <2> QED BY <2>2 DEF n
<1>11. Nodes' /\ Chains'
  <2>1. /\ node'[p] \in NodeType(e)
        /\ \E u \in Seq(1 .. Total(e)) :
              ChainIs(node'[p], u) /\ ToSet(u) = Unused(e, p)' /\ Len(u) < Total(e)
    BY <1>4, <1>5, <1>6, <1>9, <1>10
  <2>2. OthersStay(e, p)
    BY <1>6, <1>7, <1>8 DEF OthersStay
  <2>3. BecomesPageOf(e, p)
    BY <2>1 DEF BecomesPageOf
  <2> QED BY <2>2, <2>3, PageChanges
<1>12. Homes'
  BY <1>6, HomesAfterFree
<1>13. OneOwner' /\ Lists'
  BY <1>6 DEF OneOwner, Lists
<1>14. UNCHANGED Mem!vars
  BY <1>6 DEF Mem!vars, Held
<1> QED BY <1>11, <1>12, <1>13, <1>14

(* The last block of a page is freed: nothing else in the page is in use.  *)
LEMMA PageReturned ==
    ASSUME KInv, NEW e \in Entries, NEW p \in ToSet(node_head[e]), NEW idx \in 1 .. Total(e),
           Block(e, p, idx) \in live, BecomesEmpty(e, p),
           Retire(e, p),
           live' = live \ {Block(e, p, idx)},
           UNCHANGED other
    PROVE  KInv' /\ Mem!Next
<1> USE DEF KInv
<1>1. p \in DOMAIN node /\ p \in Mem!ManagedPages
  BY ListedOnce DEF OneOwner
<1>2. PICK s \in Seq(1 .. Total(e)) :
          ChainIs(node[p], s) /\ ToSet(s) = Unused(e, p) /\ Len(s) < Total(e)
  BY DEF Chains
<1>3. Unused(e, p) \cup {idx} = 1 .. Total(e)
  <2>1. Total(e) \in Nat /\ IsFiniteSet(1 .. Total(e)) /\ Cardinality(1 .. Total(e)) = Total(e)
    BY ClassType, FS_Interval
  <2>2. Len(s) \in Nat /\ WORD \in Nat /\ Len(s) + 1 < WORD
    BY <1>2, <2>1, TotalFits
  <2>3. (Len(s) + 1) % WORD = Len(s) + 1
    BY <2>2
  <2>4. Len(s) + 1 = Total(e)
    BY <1>2, <2>3 DEF BecomesEmpty, ChainIs
  <2>5. IsFiniteSet(Unused(e, p)) /\ Cardinality(Unused(e, p)) = Len(s)
    BY <1>2, LengthCounts DEF ChainIs
  <2>6. idx \notin Unused(e, p)
    BY DEF Unused
  <2>7. Cardinality(Unused(e, p) \cup {idx}) = Total(e)
    BY <2>4, <2>5, <2>6, FS_AddElement
  <2>8. Unused(e, p) \cup {idx} \in SUBSET (1 .. Total(e))
    BY DEF Unused
  <2> QED BY <2>1, <2>7, <2>8, FS_Subset
<1>4. DOMAIN node' = DOMAIN node \ {p}
      /\ \A q \in DOMAIN node' \ {p} : q \in DOMAIN node /\ node'[q] = node[q]
  BY DEF Retire
<1>5. OneOwner' /\ Mem!Next
  <2>1. Mem!free_mem_page(p)
    BY DEF Retire
  <2> QED BY <1>1, <1>4, <2>1, GiveStep
<1>6. /\ node_head' = [f \in Entries |-> node_head'[f]]
      /\ \A f \in Entries \ {e} : node_head'[f] = node_head[f]
      /\ node_head'[e] \in Seq(DOMAIN node')
      /\ ToSet(node_head'[e]) \subseteq ToSet(node_head[e]) \ {p}
      /\ IsInjective(node_head'[e])
  <2> DEFINE list == node_head[e]  n == Len(list)
  <2>1. list \in Seq(DOMAIN node) /\ IsInjective(list)
    BY DEF Lists
  <2>2. PICK at \in DOMAIN list :
          /\ list[at] = p
          /\ node_head' = [node_head EXCEPT ![e] = SubSeq(list, at + 1, n)]
    <3>1. \E i \in DOMAIN list : list[i] = p
      BY DEF ToSet
    <3> QED BY <3>1 DEF Retire, Unlink
  <2> DEFINE new == SubSeq(list, at + 1, n)
  <2>3. /\ node_head'[e] = new
        /\ \A f \in Entries \ {e} : node_head'[f] = node_head[f]
        /\ node_head' = [f \in Entries |-> node_head'[f]]
    BY <2>2 DEF Lists
  <2> HIDE DEF list
  <2>4. n \in Nat /\ DOMAIN list = 1 .. n /\ at \in 1 .. n
        /\ \A i \in 1 .. n : list[i] \in DOMAIN node
    BY <2>1, <2>2
  <2>5. new \in Seq(DOMAIN node) /\ Len(new) = n - at /\ DOMAIN new = 1 .. n - at
        /\ \A i \in 1 .. n - at : new[i] = list[i + at]
    BY <2>1, <2>4, Behind
  <2> HIDE DEF n, new
  <2>6. \A i \in 1 .. n - at : i + at \in 1 .. n /\ i + at # at
    BY <2>4
  <2>7. \A i \in 1 .. n - at : new[i] # p /\ new[i] \in DOMAIN node
    BY <2>1, <2>2, <2>4, <2>5, <2>6 DEF IsInjective
  <2>8. IsInjective(new)
    <3> SUFFICES ASSUME NEW i \in 1 .. n - at, NEW j \in 1 .. n - at, new[i] = new[j]
                 PROVE  i = j
      BY <2>5 DEF IsInjective
    <3>1. i + at = j + at
      BY <2>1, <2>4, <2>5, <2>6 DEF IsInjective
    <3> QED BY <2>4, <3>1
  <2>9. new \in Seq(DOMAIN node')
    <3> DEFINE D == DOMAIN node'
    <3>1. \A i \in 1 .. Len(new) : new[i] \in D
      BY <1>4, <2>5, <2>7
    <3> HIDE DEF D
    <3>2. new \in Seq(D)
      BY <2>5, <3>1
    <3> QED BY <3>2 DEF D
  <2>10. ToSet(new) \subseteq ToSet(list) \ {p}
    BY <2>4, <2>5, <2>6, <2>7 DEF ToSet
  <2> QED BY <2>3, <2>8, <2>9, <2>10 DEF list
<1>7. /\ \A f \in Entries : ToSet(node_head'[f]) \subseteq ToSet(node_head[f])
      /\ \A f \in Entries : p \notin ToSet(node_head'[f])
      /\ \A f \in Entries : \A q \in ToSet(node_head'[f]) : q \in DOMAIN node'
      /\ \A f \in Entries : \A q \in ToSet(node_head'[f]) :
            (q \in ToSet(node_head[f]) /\ q # p) \/ (q = p /\ f = e)
  <2>1. ASSUME NEW f \in Entries
        PROVE  ToSet(node_head'[f]) \subseteq ToSet(node_head[f]) /\ p \notin ToSet(node_head'[f])
    BY <1>6, ListedOnce
  <2>2. ASSUME NEW f \in Entries, NEW q \in ToSet(node_head'[f])
        PROVE  q \in DOMAIN node' /\ q \in ToSet(node_head[f]) /\ q # p
    <3>1. q \in ToSet(node_head[f]) /\ q # p
      BY <2>1, <2>2
    <3> QED BY <1>4, <3>1, ListedOnce
  <2> QED BY <2>1, <2>2
<1>8. Lists'
  <2>1. ASSUME NEW f \in Entries
        PROVE  node_head'[f] \in Seq(DOMAIN node') /\ IsInjective(node_head'[f])
    <3>1. CASE f = e
      BY <1>6, <3>1
    <3>2. CASE f # e
      <4>1. node_head'[f] = node_head[f] /\ node_head[f] \in Seq(DOMAIN node)
            /\ IsInjective(node_head[f])
        BY <1>6, <3>2 DEF Lists
      <4>2. \A q \in ToSet(node_head[f]) : q \in DOMAIN node'
        BY <1>7, <4>1
      <4> DEFINE D == DOMAIN node'  E == DOMAIN node
      <4>3. \A i \in DOMAIN node_head[f] : node_head[f][i] \in D
        BY <4>2 DEF ToSet
      <4>4. node_head[f] \in Seq(E)
        BY <4>1
      <4> HIDE DEF D, E
      <4>5. node_head[f] \in Seq(D)
        BY <4>3, <4>4
      <4> QED BY <4>1, <4>5 DEF D
    <3> QED BY <3>1, <3>2
  <2>2. ASSUME NEW f \in Entries, NEW g \in Entries, f # g
        PROVE  ToSet(node_head'[f]) \cap ToSet(node_head'[g]) = {}
    BY <1>7, <2>2, ListedOnce
  <2> QED BY <1>6, <2>1, <2>2 DEF Lists
<1>9. \A f \in Entries : \A q \in Mem!ManagedPages \ {p} : \A i \in 1 .. Total(f) :
         Block(f, q, i) \in live' <=> Block(f, q, i) \in live
  BY <1>1, OtherBlocks
<1>10. Nodes' /\ Chains'
  <2>1. p \notin DOMAIN node' /\ p \notin ToSet(node_head'[e])
    BY <1>4, <1>7
  <2>2. OthersStay(e, p)
    BY <1>4, <1>7, <1>9 DEF OthersStay
  <2>3. BecomesPageOf(e, p)
    BY <2>1 DEF BecomesPageOf
  <2> QED BY <2>2, <2>3, PageChanges
<1>11. ASSUME NEW c \in live', NEW q \in DOMAIN node, CutFrom(c, q)
       PROVE  q \in DOMAIN node'
  <2> SUFFICES ASSUME q = p PROVE FALSE
    BY <1>4
  <2>1. c.entry = e /\ c \in live
    BY <1>11 DEF Homes
  <2>2. PICK j \in 1 .. Total(e) : c = Block(e, p, j)
    BY <1>11, <2>1 DEF CutFrom
  <2>3. j \notin Unused(e, p)
    BY <2>1, <2>2 DEF Unused
  <2>4. j = idx
    BY <1>3, <2>3
  <2> QED BY <2>2, <2>4
<1>12. Homes'
  BY <1>4, <1>7, <1>11, HomesAfterFree
<1> QED BY <1>5, <1>8, <1>10, <1>12

(* A block whose page no list reaches any more is forgotten.               *)
LEMMA FreeIgnored ==
    ASSUME KInv, NEW b \in live,
           \A e \in Entries : \A p \in ToSet(node_head[e]) : ~ InPage(p, b.addr),
           live' = live \ {b},
           UNCHANGED <<bitmap, free_mem_size, node_head, node, other>>
    PROVE  KInv' /\ UNCHANGED Mem!vars
<1> USE DEF KInv
<1>1. \A e \in Entries : \A p \in ToSet(node_head[e]) : \A i \in 1 .. Total(e) : Block(e, p, i) # b
  <2> SUFFICES ASSUME NEW e \in Entries, NEW p \in ToSet(node_head[e]), NEW i \in 1 .. Total(e),
                      Block(e, p, i) = b
               PROVE  FALSE
    OBVIOUS
  <2>1. p \in Mem!ManagedPages
    BY ListedOnce DEF OneOwner
  <2>2. InPage(p, b.addr)
    BY <2>1, BlockIs, PageOfBlock
  <2> QED BY <2>2
<1>2. Chains'
  <2>1. ASSUME NEW e \in Entries, NEW p \in ToSet(node_head'[e])
        PROVE  \E s \in Seq(1 .. Total(e)) :
                  ChainIs(node'[p], s) /\ ToSet(s) = Unused(e, p)' /\ Len(s) < Total(e)
    <3>1. p \in ToSet(node_head[e])
      BY <2>1
    <3>2. PICK s \in Seq(1 .. Total(e)) :
            ChainIs(node[p], s) /\ ToSet(s) = Unused(e, p) /\ Len(s) < Total(e)
      BY <3>1 DEF Chains
    <3>3. \A i \in 1 .. Total(e) : Block(e, p, i) \in live' <=> Block(e, p, i) \in live
      BY <1>1, <3>1
    <3>4. ChainIs(node'[p], s) /\ ToSet(s) = Unused(e, p)'
      BY <3>2, <3>3, ChainElsewhere
    <3> QED BY <3>2, <3>4
  <2> QED BY <2>1 DEF Chains, ChainIs, Total
<1>3. Homes'
  BY HomesAfterFree
<1>4. OneOwner' /\ Lists' /\ Nodes'
  <2>1. OneOwner' /\ Lists'
    BY DEF OneOwner, Lists
  <2>2. \A e \in Entries : NodeType(e)' = NodeType(e)
    BY DEF NodeType, Total
  <2>3. Nodes'
    BY <2>2 DEF Nodes
  <2> QED BY <2>1, <2>3
<1>5. UNCHANGED Mem!vars
  BY DEF Mem!vars, Held
<1> QED BY <1>2, <1>3, <1>4, <1>5

LEMMA FreeKeeps ==
    ASSUME KInv, NEW b \in live, kfree(b)
    PROVE  KInv' /\ [Mem!Next]_Mem!vars
<1>1. live' = live \ {b} /\ UNCHANGED other
  BY DEF kfree
<1>2. CASE \E e \in Entries : \E p \in ToSet(node_head[e]) :
             /\ InPage(p, b.addr)
             /\ IF BecomesEmpty(e, p)
                THEN Retire(e, p)
                ELSE /\ node' = [node EXCEPT ![p] = Push(p, get_block_index(e, p, b.addr))]
                     /\ UNCHANGED <<bitmap, free_mem_size, node_head>>
  <2> DEFINE Found(e, p) ==
               /\ InPage(p, b.addr)
               /\ IF BecomesEmpty(e, p)
                  THEN Retire(e, p)
                  ELSE /\ node' = [node EXCEPT ![p] = Push(p, get_block_index(e, p, b.addr))]
                       /\ UNCHANGED <<bitmap, free_mem_size, node_head>>
  <2>0. PICK e \in Entries : \E p \in ToSet(node_head[e]) : Found(e, p)
    BY <1>2
  <2>1. PICK p \in ToSet(node_head[e]) : Found(e, p)
    BY <2>0
  <2>2. p \in DOMAIN node /\ p \in Mem!ManagedPages
    BY ListedOnce DEF KInv, OneOwner
  <2>3. CutFrom(b, p)
    BY <2>1, <2>2, FoundAt DEF KInv
  <2>4. b.entry = e
    BY <2>3 DEF KInv, Homes
  <2>5. PICK idx \in 1 .. Total(e) : b = Block(e, p, idx)
    BY <2>3, <2>4 DEF CutFrom
  <2>6. get_block_index(e, p, b.addr) = idx
    BY <2>2, <2>5, BlockIs, IndexOfBlock, ManagedPagesType
  <2>7. CASE BecomesEmpty(e, p)
    BY <1>1, <2>1, <2>5, <2>7, PageReturned
  <2>8. CASE ~ BecomesEmpty(e, p)
    BY <1>1, <2>1, <2>5, <2>6, <2>8, FreedToPage
  <2> QED BY <2>7, <2>8
<1>3. CASE /\ \A e \in Entries : \A p \in ToSet(node_head[e]) : ~ InPage(p, b.addr)
           /\ UNCHANGED <<bitmap, free_mem_size, node_head, node>>
  BY <1>1, <1>3, FreeIgnored
<1> QED BY <1>2, <1>3 DEF kfree

(* The steps of the rest of the kernel.                                    *)
LEMMA SamePages ==
    ASSUME Lists, Nodes, Homes, Chains, UNCHANGED <<node_head, node, live>>
    PROVE  Lists' /\ Nodes' /\ Homes' /\ Chains'
<1>1. Lists'
  BY DEF Lists
<1>2. Nodes'
  BY DEF Nodes, NodeType, Total
<1>3. Homes'
  BY HomesAfterFree
<1>4. ASSUME NEW e \in Entries, NEW p \in ToSet(node_head'[e])
      PROVE  \E s \in Seq(1 .. Total(e)) :
                ChainIs(node'[p], s) /\ ToSet(s) = Unused(e, p)' /\ Len(s) < Total(e)
  <2>1. PICK s \in Seq(1 .. Total(e)) :
          ChainIs(node[p], s) /\ ToSet(s) = Unused(e, p) /\ Len(s) < Total(e)
    BY <1>4 DEF Chains
  <2>2. ChainIs(node'[p], s) /\ ToSet(s) = Unused(e, p)'
    BY <2>1, ChainElsewhere
  <2> QED BY <2>1, <2>2
<1>5. Chains'
  BY <1>4 DEF Chains, ChainIs, Total
<1> QED BY <1>1, <1>2, <1>3, <1>5

LEMMA OtherAllocKeeps ==
    ASSUME KInv, OtherAlloc
    PROVE  KInv' /\ Mem!Next
<1> USE DEF KInv
<1>1. OneOwner' /\ Mem!Next
  <2>1. PICK p : p = Mem!alloc_mem_page
    OBVIOUS
  <2>2. p # Mem!NULL /\ Mem!Take(p) /\ other' = other \cup {p} /\ DOMAIN node' = DOMAIN node
    BY <2>1 DEF OtherAlloc
  <2> QED BY <2>1, <2>2, TakeStep
<1>2. UNCHANGED <<node_head, node, live>>
  BY DEF OtherAlloc
<1> QED BY <1>1, <1>2, SamePages

LEMMA OtherFreeKeeps ==
    ASSUME KInv, OtherFree
    PROVE  KInv' /\ Mem!Next
<1> USE DEF KInv
<1>1. OneOwner' /\ Mem!Next
  <2>1. PICK p \in other : Mem!free_mem_page(p) /\ other' = other \ {p}
    BY DEF OtherFree
  <2>2. DOMAIN node' = DOMAIN node
    BY DEF OtherFree
  <2> QED BY <2>1, <2>2, GiveStep
<1>2. UNCHANGED <<node_head, node, live>>
  BY DEF OtherFree
<1> QED BY <1>1, <1>2, SamePages

LEMMA InitKInv == Init => KInv /\ Mem!Init
<1> SUFFICES ASSUME Init PROVE KInv /\ Mem!Init
  OBVIOUS
<1>1. DOMAIN node = {} /\ other = {} /\ live = {} /\ node_head = [e \in Entries |-> <<>>]
      /\ Mem!physical_mem_init
  BY DEF Init
<1>2. OneOwner
  BY <1>1 DEF OneOwner, Mem!physical_mem_init, Mem!Cardinality, Cardinality,
              Mem!IsFiniteSet, IsFiniteSet
<1>3. \A e \in Entries : node_head[e] = <<>> /\ ToSet(node_head[e]) = {}
  BY <1>1 DEF ToSet
<1>4. Lists
  BY <1>1, <1>3 DEF Lists, IsInjective
<1>5. Nodes /\ Homes /\ Chains
  BY <1>1, <1>3 DEF Nodes, Homes, Chains
<1>6. Mem!Init
  BY <1>1 DEF Mem!Init, Held
<1> QED BY <1>2, <1>4, <1>5, <1>6 DEF KInv

LEMMA StepKeeps ==
    ASSUME KInv, [Next]_vars
    PROVE  KInv' /\ [Mem!Next]_Mem!vars
<1>1. ASSUME NEW size \in Requests, kmalloc_exist(size) PROVE KInv' /\ [Mem!Next]_Mem!vars
  BY <1>1, ExistKeeps
<1>2. ASSUME NEW size \in Requests, kmalloc_new(size) PROVE KInv' /\ [Mem!Next]_Mem!vars
  BY <1>2, NewKeeps
<1>3. ASSUME NEW b \in live, kfree(b) PROVE KInv' /\ [Mem!Next]_Mem!vars
  BY <1>3, FreeKeeps
<1>4. CASE OtherAlloc
  BY <1>4, OtherAllocKeeps
<1>5. CASE OtherFree
  BY <1>5, OtherFreeKeeps
<1>6. CASE UNCHANGED vars
  <2>1. UNCHANGED <<bitmap, free_mem_size, node_head, node, live, other>>
    BY <1>6 DEF vars
  <2>2. OneOwner'
    BY <2>1 DEF KInv, OneOwner
  <2>3. UNCHANGED Mem!vars
    BY <2>1 DEF Mem!vars, Held
  <2> QED BY <2>1, <2>2, <2>3, SamePages DEF KInv
<1> QED BY <1>1, <1>2, <1>3, <1>4, <1>5, <1>6 DEF Next

LEMMA Invariant == Spec => []KInv
<1>1. Init => KInv
  BY InitKInv
<1>2. KInv /\ [Next]_vars => KInv'
  BY StepKeeps
<1> QED BY <1>1, <1>2, PTL DEF Spec

-----------------------------------------------------------------------------
(* What follows from the invariant.                                        *)

(* Spec implies that the state has the shape TypeOK states: in particular  *)
(* kfree, which loses pages from its lists, never lists one twice.         *)
THEOREM KmallocTypeCorrect == Spec => []TypeOK
<1>1. KInv => TypeOK
  <2> SUFFICES ASSUME KInv PROVE TypeOK
    OBVIOUS
  <2> USE DEF KInv
  <2>1. Mem!TypeOK
    <3>1. bitmap \subseteq Mem!ManagedPages /\ free_mem_size = PAGE_MEM_SIZE * Cardinality(bitmap)
      BY DEF OneOwner
    <3>2. free_mem_size \in Nat
      BY <3>1, BitmapCount, MemoryAssumption DEF Mem!SizeAssumption
    <3>3. Held \in [{"kmalloc", "other"} -> SUBSET Mem!ManagedPages]
      BY DEF OneOwner, Held
    <3> QED BY <3>1, <3>2, <3>3 DEF Mem!TypeOK
  <2>2. \A p \in DOMAIN node : \E e \in Entries : node[p] \in NodeType(e)
    BY DEF Nodes
  <2>3. \A e \in Entries : IsInjective(node_head[e]) /\ ToSet(node_head[e]) \subseteq DOMAIN node
    BY ListedOnce DEF Lists
  <2>4. ASSUME NEW b \in live PROVE b.entry \in Entries /\ b.addr \in Nat
    <3>1. b.entry \in Entries
      BY DEF Homes
    <3>2. PICK p \in DOMAIN node : CutFrom(b, p)
      BY DEF Homes
    <3>3. p \in Nat
      BY <3>2, ManagedPagesType DEF OneOwner
    <3>4. PICK i \in 1 .. Total(b.entry) : b = Block(b.entry, p, i)
      BY <3>2 DEF CutFrom
    <3> QED BY <3>1, <3>3, <3>4, BlockIs, BlockInPage
  <2> QED BY <2>1, <2>2, <2>3, <2>4 DEF TypeOK
<1> QED BY <1>1, Invariant, PTL

LEMMA BytesOfBlock ==
    ASSUME NEW e \in Entries, NEW p \in Nat, NEW i \in 1 .. Total(e)
    PROVE  Bytes(Block(e, p, i))
             = get_block_addr(e, p, i) .. get_block_addr(e, p, i) + Size(e) - 1
BY BlockIs DEF Bytes, Size

(* Spec implies that kmalloc never hands a byte out twice, nor one of a    *)
(* header or outside its pages, whatever has been freed before.            *)
THEOREM BlocksDisjoint == Spec => []LiveDisjoint
<1>1. KInv => LiveDisjoint
  <2> SUFFICES ASSUME KInv PROVE LiveDisjoint
    OBVIOUS
  <2> USE DEF KInv
  <2>1. ASSUME NEW b \in live
        PROVE  \E p \in DOMAIN node : \E i \in 1 .. Total(b.entry) :
                  b.entry \in Entries /\ p \in Mem!ManagedPages /\ b = Block(b.entry, p, i)
    BY DEF Homes, OneOwner, CutFrom
  <2>2. ASSUME NEW b \in live
        PROVE  \E p \in DOMAIN node :
                  Bytes(b) \subseteq p + BLOCK_NODE_SIZE .. p + PAGE_MEM_SIZE - 1
    <3>1. PICK p \in DOMAIN node : \E i \in 1 .. Total(b.entry) :
                  b.entry \in Entries /\ p \in Mem!ManagedPages /\ b = Block(b.entry, p, i)
      BY <2>1
    <3>2. PICK i \in 1 .. Total(b.entry) : b = Block(b.entry, p, i)
      BY <3>1
    <3> DEFINE e == b.entry  a == get_block_addr(e, p, i)
    <3>3. e \in Entries /\ p \in Nat
      BY <3>1, ManagedPagesType
    <3>4. Bytes(b) = a .. a + Size(e) - 1
      BY <3>2, <3>3, BytesOfBlock
    <3>5. /\ a \in Nat /\ p + BLOCK_NODE_SIZE <= a /\ a + Size(e) <= p + PAGE_MEM_SIZE
          /\ Size(e) \in Nat /\ BLOCK_NODE_SIZE \in Nat /\ PAGE_MEM_SIZE \in Nat
      BY <3>3, BlockInPage, ClassType
    <3> HIDE DEF a, e
    <3>6. a .. a + Size(e) - 1 \subseteq p + BLOCK_NODE_SIZE .. p + PAGE_MEM_SIZE - 1
      BY <3>3, <3>5
    <3> QED BY <3>4, <3>6
  <2>3. ASSUME NEW b \in live, NEW c \in live, b # c PROVE Bytes(b) \cap Bytes(c) = {}
    <3>1. PICK p \in DOMAIN node : \E i \in 1 .. Total(b.entry) :
                  b.entry \in Entries /\ p \in Mem!ManagedPages /\ b = Block(b.entry, p, i)
      BY <2>1
    <3>2. PICK i \in 1 .. Total(b.entry) : b = Block(b.entry, p, i)
      BY <3>1
    <3>3. PICK q \in DOMAIN node : \E j \in 1 .. Total(c.entry) :
                  c.entry \in Entries /\ q \in Mem!ManagedPages /\ c = Block(c.entry, q, j)
      BY <2>1
    <3>4. PICK j \in 1 .. Total(c.entry) : c = Block(c.entry, q, j)
      BY <3>3
    <3> DEFINE e == b.entry  f == c.entry
               a == get_block_addr(e, p, i)  d == get_block_addr(f, q, j)
    <3>5. e \in Entries /\ f \in Entries /\ p \in Nat /\ q \in Nat
      BY <3>1, <3>3, ManagedPagesType
    <3>6. Bytes(b) = a .. a + Size(e) - 1 /\ Bytes(c) = d .. d + Size(f) - 1
      BY <3>2, <3>4, <3>5, BytesOfBlock
    <3>7. a \in Nat /\ d \in Nat /\ Size(e) \in Nat /\ Size(f) \in Nat
      BY <3>5, BlockInPage, ClassType
    <3>8. a + Size(e) <= d \/ d + Size(f) <= a
      <4>1. CASE p # q
        <5>1. /\ p <= a /\ a + Size(e) <= p + PAGE_MEM_SIZE
              /\ q <= d /\ d + Size(f) <= q + PAGE_MEM_SIZE
              /\ PAGE_MEM_SIZE \in Nat
          <6>1. /\ p + BLOCK_NODE_SIZE <= a /\ a + Size(e) <= p + PAGE_MEM_SIZE
                /\ q + BLOCK_NODE_SIZE <= d /\ d + Size(f) <= q + PAGE_MEM_SIZE
            BY <3>5, BlockInPage
          <6>2. BLOCK_NODE_SIZE \in Nat /\ PAGE_MEM_SIZE \in Nat
            BY <3>5, ClassType
          <6> HIDE DEF a, d, e, f
          <6> QED BY <3>5, <3>7, <6>1, <6>2
        <5>2. p + PAGE_MEM_SIZE <= q \/ q + PAGE_MEM_SIZE <= p
          BY <3>1, <3>3, <3>5, <4>1, PagesApart
        <5> HIDE DEF a, d, e, f
        <5> QED BY <3>5, <3>7, <5>1, <5>2
      <4>2. CASE p = q
        <5>1. e = f
          BY <3>2, <3>4, <4>2 DEF Homes, CutFrom
        <5>2. i # j
          BY <2>3, <3>2, <3>4, <4>2, <5>1
        <5>3. i < j \/ j < i
          BY <5>2
        <5> QED BY <3>5, <4>2, <5>1, <5>3, BlocksFollow
      <4> QED BY <4>1, <4>2
    <3> HIDE DEF a, d, e, f
    <3>9. (a .. a + Size(e) - 1) \cap (d .. d + Size(f) - 1) = {}
      BY <3>7, <3>8
    <3> QED BY <3>6, <3>9
  <2> QED BY <2>2, <2>3 DEF LiveDisjoint, LiveInPage
<1> QED BY <1>1, Invariant, PTL

(* Following the words of a page whose chain is s meets the blocks of s.   *)
LEMMA ChainFollowed ==
    ASSUME NEW e \in Entries, NEW p, NEW s \in Seq(1 .. Total(e)), ChainIs(node[p], s)
    PROVE  Chain(p) = ToSet(s)
<1> DEFINE n == Len(s)
           next(i) == IF i \in DOMAIN node[p].link THEN node[p].link[i] ELSE 0
           Follows(f) == f = [k \in Nat |-> IF k = 0 THEN node[p].free_block_idx
                                                     ELSE next(f[k - 1])]
           g == [k \in Nat |-> IF k < n THEN s[k + 1] ELSE 0]
           at == CHOOSE f : Follows(f)
<1>1. Chain(p) = {at[k] : k \in 0 .. Cardinality(DOMAIN node[p].link)} \ {0}
  BY DEF Chain
<1>2. n \in Nat /\ DOMAIN s = 1 .. n /\ \A i \in 1 .. n : s[i] \in 1 .. Total(e)
  <2> DEFINE S == 1 .. Total(e)
  <2>1. s \in Seq(S)
    OBVIOUS
  <2> HIDE DEF S
  <2>2. n \in Nat /\ DOMAIN s = 1 .. n /\ \A i \in 1 .. n : s[i] \in S
    BY <2>1
  <2> QED BY <2>2 DEF S
<1>3. /\ DOMAIN node[p].link = ToSet(s)
      /\ \A i \in 1 .. n : node[p].link[s[i]] = IF i = n THEN 0 ELSE s[i + 1]
      /\ node[p].free_block_idx = IF n = 0 THEN 0 ELSE s[1]
  <2>1. n = 0 <=> s = <<>>
    BY <1>2
  <2> QED BY <2>1 DEF ChainIs
<1>4. Cardinality(DOMAIN node[p].link) = n
  BY <1>3, LengthCounts DEF ChainIs
<1>5. /\ \A i \in 1 .. n : next(s[i]) = IF i = n THEN 0 ELSE s[i + 1]
      /\ next(0) = 0
      /\ ToSet(s) = {s[i] : i \in 1 .. n}
  <2>1. ToSet(s) = {s[i] : i \in 1 .. n}
    BY <1>2 DEF ToSet
  <2>2. 0 \notin ToSet(s)
    BY <1>2, <2>1
  <2> QED BY <1>3, <2>1, <2>2
<1> HIDE DEF n, next
<1>6. g[0] = node[p].free_block_idx
  BY <1>2, <1>3
<1>7. \A k \in Nat \ {0} : g[k] = next(g[k - 1])
  <2> SUFFICES ASSUME NEW k \in Nat \ {0} PROVE g[k] = next(g[k - 1])
    OBVIOUS
  <2>1. k - 1 \in Nat
    OBVIOUS
  <2>2. CASE k - 1 < n
    <3>1. g[k - 1] = s[k] /\ k \in 1 .. n
      BY <1>2, <2>1, <2>2
    <3>2. next(s[k]) = IF k = n THEN 0 ELSE s[k + 1]
      BY <1>5, <3>1
    <3>3. g[k] = IF k < n THEN s[k + 1] ELSE 0
      OBVIOUS
    <3>4. k < n <=> k # n
      BY <1>2, <3>1
    <3> QED BY <3>1, <3>2, <3>3, <3>4
  <2>3. CASE ~ (k - 1 < n)
    <3>1. g[k - 1] = 0 /\ g[k] = 0
      BY <1>2, <2>1, <2>3
    <3> QED BY <1>5, <3>1
  <2> QED BY <2>2, <2>3
<1>8. Follows(g)
  BY <1>6, <1>7
<1>9. Follows(at)
  BY <1>8
<1>10. \A k \in Nat : at[k] = g[k]
  <2> DEFINE Bad == {k \in Nat : at[k] # g[k]}
  <2> SUFFICES ASSUME Bad # {} PROVE FALSE
    OBVIOUS
  <2> HIDE DEF at, g
  <2>1. PICK k \in Bad : \A m \in Bad : k <= m
    BY LeastNumber
  <2>2. /\ at[0] = node[p].free_block_idx
        /\ \A m \in Nat \ {0} : at[m] = next(at[m - 1])
    BY <1>9
  <2>3. k # 0
    BY <1>6, <2>1, <2>2
  <2>4. k - 1 \in Nat /\ k - 1 \notin Bad
    BY <2>1, <2>3
  <2>5. at[k - 1] = g[k - 1]
    BY <2>4
  <2> QED BY <1>7, <2>1, <2>2, <2>3, <2>5
<1>11. {at[k] : k \in 0 .. n} = {g[k] : k \in 0 .. n}
  <2> HIDE DEF at, g
  <2> QED BY <1>2, <1>10
<1>12. {g[k] : k \in 0 .. n} = ToSet(s) \cup {0}
  <2>1. \A k \in 0 .. n - 1 : g[k] = s[k + 1]
    BY <1>2
  <2>2. g[n] = 0
    BY <1>2
  <2>3. 0 .. n = (0 .. n - 1) \cup {n}
    BY <1>2
  <2> HIDE DEF g
  <2>4. {g[k] : k \in 0 .. n} = {s[k + 1] : k \in 0 .. n - 1} \cup {0}
    BY <2>1, <2>2, <2>3
  <2>5. {s[k + 1] : k \in 0 .. n - 1} = {s[i] : i \in 1 .. n}
    <3>1. ASSUME NEW i \in 1 .. n PROVE \E k \in 0 .. n - 1 : i = k + 1
      <4>1. i - 1 \in 0 .. n - 1 /\ i = (i - 1) + 1
        BY <1>2
      <4> QED BY <4>1
    <3>2. \A k \in 0 .. n - 1 : k + 1 \in 1 .. n
      BY <1>2
    <3> QED BY <3>1, <3>2
  <2> QED BY <1>5, <2>4, <2>5
<1>13. 0 \notin ToSet(s)
  BY <1>2, <1>5
<1> QED BY <1>1, <1>4, <1>11, <1>12, <1>13

(* Spec implies that the free chain of a listed page runs through exactly  *)
(* the blocks nobody uses, ends, and is counted by free_block_num.         *)
THEOREM ChainsComplete == Spec => []FreeChain
<1>1. KInv => FreeChain
  <2> SUFFICES ASSUME KInv, NEW e \in Entries, NEW p \in ToSet(node_head[e])
               PROVE  /\ Chain(p) = Unused(e, p)
                      /\ DOMAIN node[p].link = Unused(e, p)
                      /\ node[p].free_block_num = Cardinality(Unused(e, p))
    BY DEF FreeChain, Unused
  <2>1. PICK s \in Seq(1 .. Total(e)) :
          ChainIs(node[p], s) /\ ToSet(s) = Unused(e, p) /\ Len(s) < Total(e)
    BY DEF KInv, Chains
  <2>2. Chain(p) = Unused(e, p)
    BY <2>1, ChainFollowed
  <2>3. Cardinality(Unused(e, p)) = Len(s)
    BY <2>1, LengthCounts DEF ChainIs
  <2> QED BY <2>1, <2>2, <2>3 DEF ChainIs
<1> QED BY <1>1, Invariant, PTL

(* Spec implies that some block of every listed page is in use: the last   *)
(* free gives the page back.                                               *)
THEOREM ListedPagesInUse == Spec => []PagesEarned
<1>1. KInv => PagesEarned
  <2> SUFFICES ASSUME KInv, NEW e \in Entries, NEW p \in ToSet(node_head[e])
               PROVE  \E b \in live : InPage(p, b.addr)
    BY DEF PagesEarned
  <2>1. PICK s \in Seq(1 .. Total(e)) :
          ChainIs(node[p], s) /\ ToSet(s) = Unused(e, p) /\ Len(s) < Total(e)
    BY DEF KInv, Chains
  <2>2. Total(e) \in Nat /\ Cardinality(1 .. Total(e)) = Total(e)
    BY ClassType, FS_Interval
  <2>3. Cardinality(Unused(e, p)) = Len(s)
    BY <2>1, LengthCounts DEF ChainIs
  <2>4. Unused(e, p) # 1 .. Total(e)
    BY <2>1, <2>2, <2>3
  <2>5. PICK i \in 1 .. Total(e) : Block(e, p, i) \in live
    BY <2>4 DEF Unused
  <2>6. p \in Mem!ManagedPages
    BY ListedOnce DEF KInv, OneOwner
  <2>7. InPage(p, Block(e, p, i).addr)
    BY <2>6, BlockIs, PageOfBlock
  <2> QED BY <2>5, <2>7
<1> QED BY <1>1, Invariant, PTL

(* Spec implements the page allocator's specification: kmalloc takes pages *)
(* by alloc_mem_page and returns only pages it holds, once each.           *)
THEOREM KmallocUsesAllocator == Spec => MemSpec
<1>1. Init => Mem!Init
  BY InitKInv
<1>2. KInv /\ [Next]_vars => [Mem!Next]_Mem!vars
  BY StepKeeps
<1> QED BY <1>1, <1>2, Invariant, PTL DEF Spec, MemSpec, Mem!Spec

=============================================================================
