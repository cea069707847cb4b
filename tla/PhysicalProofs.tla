--------------------------- MODULE PhysicalProofs ---------------------------
(***************************************************************************)
(* The page allocator's invariants for every size of memory, every page    *)
(* and bitmap byte size and every set of clients.                          *)
(***************************************************************************)
EXTENDS Physical, FiniteSetTheorems, WellFoundedInduction, TLAPS

LEMMA QuotientType ==
    ASSUME NEW a \in Nat, NEW b \in Nat \ {0}
    PROVE  a \div b \in Nat
OBVIOUS

(* What the other proofs need to know of the layout physical_mem_init      *)
(* computes: managed memory begins at a positive address.                  *)
LEMMA AvailableType == available_mem_start \in Nat \ {0}
<1>1. mem_bitmap_size \in Nat
  <2>1. physical_mem_size \div PAGE_MEM_SIZE \in Nat
    BY SizeAssumption, QuotientType
  <2>2. (physical_mem_size \div PAGE_MEM_SIZE) \div BITS \in Nat
    BY <2>1, SizeAssumption, QuotientType
  <2> QED BY <2>2 DEF mem_bitmap_size
<1>2. free_mem_start + mem_bitmap_size \in Nat \ {0}
  BY <1>1, SizeAssumption
<1>3. ASSUME NEW a \in Nat \ {0} PROVE AlignUp(a) \in Nat \ {0}
  <2>1. a % PAGE_MEM_SIZE \in 0 .. PAGE_MEM_SIZE - 1
    BY SizeAssumption
  <2> QED BY <2>1, SizeAssumption DEF AlignUp
<1> QED BY <1>2, <1>3 DEF available_mem_start

LEMMA ManagedPagesType ==
    /\ IsFiniteSet(ManagedPages)
    /\ \A p \in ManagedPages : p \in Nat /\ p # NULL /\ p >= available_mem_start
                               /\ p < physical_mem_size
<1>1. \A p \in ManagedPages : p \in Nat /\ p >= available_mem_start /\ p < physical_mem_size
  BY AvailableType, SizeAssumption DEF ManagedPages
<1>2. IsFiniteSet(available_mem_start .. physical_mem_size - 1)
  BY FS_Interval, AvailableType, SizeAssumption
<1>3. IsFiniteSet(ManagedPages)
  BY <1>2, FS_Subset DEF ManagedPages
<1> QED BY <1>1, <1>3, AvailableType DEF NULL

(* The scan's choice is well defined: a set of addresses has a least one.  *)
LEMMA FirstIsLeast ==
    ASSUME NEW pages, pages \subseteq Nat, pages # {}
    PROVE  First(pages) \in pages /\ \A q \in pages : First(pages) <= q
<1>1. PICK p \in pages : \A q \in pages : ~ (<<q, p>> \in OpToRel(<, Nat))
  BY WFMin, NatLessThanWellFounded
<1>2. \A q \in pages : p <= q
  <2> SUFFICES ASSUME NEW q \in pages PROVE p <= q
    OBVIOUS
  <2>1. <<q, p>> \in OpToRel(<, Nat) <=> q < p
    BY DEF OpToRel
  <2>2. ~ (q < p)
    BY <1>1, <2>1, Zenon
  <2> QED BY <2>2
<1> QED BY <1>2 DEF First

(* Whatever the limits, the scan answers NULL or a page whose bit is set.  *)
LEMMA ScanFindsFreePage ==
    ASSUME TypeOK, NEW start, NEW end
    PROVE  Scan(start, end) \in bitmap \cup {NULL}
<1> DEFINE found == {p \in bitmap : /\ GroupBase(start) <= GroupBase(p)
                                    /\ GroupBase(p) < end}
<1>1. found \subseteq Nat
  BY ManagedPagesType DEF TypeOK
<1>2. CASE found = {}
  BY <1>2 DEF Scan
<1>3. CASE found # {}
  <2>1. First(found) \in bitmap
    BY <1>1, <1>3, FirstIsLeast
  <2> QED BY <2>1, <1>3 DEF Scan
<1> QED BY <1>2, <1>3

(* So do the three calls built on it.                                      *)
LEMMA AllocFindsFreePage ==
    ASSUME TypeOK
    PROVE  /\ alloc_low_mem_page \in bitmap \cup {NULL}
           /\ alloc_high_mem_page \in bitmap \cup {NULL}
           /\ alloc_mem_page \in bitmap \cup {NULL}
<1>1. ASSUME NEW start, NEW end
      PROVE  alloc_physical_mem_page(start, end) \in bitmap \cup {NULL}
  BY ScanFindsFreePage DEF alloc_physical_mem_page
<1> QED BY <1>1 DEF alloc_low_mem_page, alloc_high_mem_page, alloc_mem_page

-----------------------------------------------------------------------------
(* The inductive invariant.  Each part needs the others: the counter drops *)
(* by a page only if the page taken was free, a page given back was not    *)
(* free only if no page has two owners, and that a page given back has its *)
(* bit set needs it to be a managed one.                                   *)
IInv == TypeOK /\ Exclusive /\ Conserved /\ FreeCountExact

LEMMA InitIInv == Init => IInv
<1> SUFFICES ASSUME Init PROVE IInv
  OBVIOUS
<1> USE DEF Init, physical_mem_init
<1>1. Cardinality(ManagedPages) \in Nat
  BY ManagedPagesType, FS_CardinalityType
<1>2. TypeOK
  BY <1>1, SizeAssumption DEF TypeOK
<1>3. Exclusive
  BY DEF Exclusive
<1>4. Conserved
  BY DEF Conserved
<1>5. FreeCountExact
  BY DEF FreeCountExact
<1> QED BY <1>2, <1>3, <1>4, <1>5 DEF IInv

(* Handing a free page to a client keeps the invariant.                    *)
LEMMA GrantIInv ==
    ASSUME IInv, NEW c \in Clients, NEW p \in bitmap \cup {NULL}, Grant(c, p)
    PROVE  IInv'
<1> USE DEF IInv
<1>1. /\ p \in bitmap
      /\ bitmap' = bitmap \ {p}
      /\ free_mem_size' = free_mem_size - PAGE_MEM_SIZE
      /\ held' = [held EXCEPT ![c] = @ \cup {p}]
  BY DEF Grant, Take
<1>2. /\ IsFiniteSet(bitmap)
      /\ Cardinality(bitmap) \in Nat
      /\ Cardinality(bitmap') \in Nat
      /\ Cardinality(bitmap') = Cardinality(bitmap) - 1
  BY <1>1, ManagedPagesType, FS_Subset, FS_RemoveElement, FS_CardinalityType DEF TypeOK
<1>3. FreeCountExact'
  <2>1. PAGE_MEM_SIZE * Cardinality(bitmap) - PAGE_MEM_SIZE
            = PAGE_MEM_SIZE * (Cardinality(bitmap) - 1)
    BY <1>2, SizeAssumption
  <2> QED BY <2>1, <1>1, <1>2 DEF FreeCountExact
<1>4. TypeOK'
  <2>1. free_mem_size' \in Nat
    BY <1>2, <1>3, SizeAssumption DEF FreeCountExact
  <2> QED BY <2>1, <1>1 DEF TypeOK
<1>5. Exclusive'
  BY <1>1 DEF Exclusive, TypeOK
<1>6. Conserved'
  <2>1. UNION {held'[d] : d \in Clients} = (UNION {held[d] : d \in Clients}) \cup {p}
    BY <1>1 DEF TypeOK
  <2> QED BY <2>1, <1>1 DEF Conserved
<1> QED BY <1>3, <1>4, <1>5, <1>6

(* So does giving a page back.                                             *)
LEMMA FreeIInv ==
    ASSUME IInv, NEW c \in Clients, NEW p \in held[c], Free(c, p)
    PROVE  IInv'
<1> USE DEF IInv
<1>1. p \in ManagedPages /\ p \notin bitmap
  BY DEF TypeOK, Exclusive
<1>2. /\ bitmap' = bitmap \cup {p}
      /\ free_mem_size' = free_mem_size + PAGE_MEM_SIZE
      /\ held' = [held EXCEPT ![c] = @ \ {p}]
  <2>1. ~ (p < available_mem_start)
    BY <1>1, ManagedPagesType, AvailableType
  <2> QED BY <2>1 DEF Free, free_mem_page
<1>3. /\ Cardinality(bitmap) \in Nat
      /\ Cardinality(bitmap') = Cardinality(bitmap) + 1
  BY <1>1, <1>2, ManagedPagesType, FS_Subset, FS_AddElement, FS_CardinalityType DEF TypeOK
<1>4. FreeCountExact'
  <2>1. PAGE_MEM_SIZE * Cardinality(bitmap) + PAGE_MEM_SIZE
            = PAGE_MEM_SIZE * (Cardinality(bitmap) + 1)
    BY <1>3, SizeAssumption
  <2> QED BY <2>1, <1>2, <1>3 DEF FreeCountExact
<1>5. TypeOK'
  BY <1>1, <1>2, SizeAssumption DEF TypeOK
<1>6. Exclusive'
  <2>1. \A d \in Clients \ {c} : p \notin held[d]
    BY DEF Exclusive
  <2> QED BY <2>1, <1>2 DEF Exclusive, TypeOK
<1>7. Conserved'
  <2>1. \A d \in Clients : held'[d] = IF d = c THEN held[d] \ {p} ELSE held[d]
    BY <1>2 DEF TypeOK
  <2>2. bitmap' \cup UNION {held'[d] : d \in Clients}
            = bitmap \cup UNION {held[d] : d \in Clients}
    BY <2>1, <1>2
  <2> QED BY <2>2 DEF Conserved
<1> QED BY <1>4, <1>5, <1>6, <1>7

LEMMA NextIInv == IInv /\ [Next]_vars => IInv'
<1> SUFFICES ASSUME IInv, [Next]_vars PROVE IInv'
  OBVIOUS
<1>1. CASE UNCHANGED vars
  BY <1>1 DEF vars, IInv, TypeOK, Exclusive, Conserved, FreeCountExact
<1>2. ASSUME NEW c \in Clients, AllocLow(c) PROVE IInv'
  BY <1>2, AllocFindsFreePage, GrantIInv DEF AllocLow, IInv
<1>3. ASSUME NEW c \in Clients, AllocHigh(c) PROVE IInv'
  BY <1>3, AllocFindsFreePage, GrantIInv DEF AllocHigh, IInv
<1>4. ASSUME NEW c \in Clients, Alloc(c) PROVE IInv'
  BY <1>4, AllocFindsFreePage, GrantIInv DEF Alloc, IInv
<1>5. ASSUME NEW c \in Clients, NEW p \in held[c], Free(c, p) PROVE IInv'
  BY <1>5, FreeIInv
<1> QED BY <1>1, <1>2, <1>3, <1>4, <1>5 DEF Next

(* The allocator never gives a page two owners, never loses one, and its   *)
(* counter agrees with its bitmap, however the calls are ordered.          *)
THEOREM PhysicalInvariant == Spec => []IInv
BY InitIInv, NextIInv, PTL DEF Spec

(* The state always has its shape.                                         *)
THEOREM PhysicalTypeCorrect == Spec => []TypeOK
<1>1. IInv => TypeOK
  BY DEF IInv
<1> QED BY <1>1, PhysicalInvariant, PTL

(* No page has two owners.                                                 *)
THEOREM PagesExclusive == Spec => []Exclusive
<1>1. IInv => Exclusive
  BY DEF IInv
<1> QED BY <1>1, PhysicalInvariant, PTL

(* No page is lost and none is invented.                                   *)
THEOREM PagesConserved == Spec => []Conserved
<1>1. IInv => Conserved
  BY DEF IInv
<1> QED BY <1>1, PhysicalInvariant, PTL

(* free_mem_size is the size of the pages whose bit is set.                *)
THEOREM CountExact == Spec => []FreeCountExact
<1>1. IInv => FreeCountExact
  BY DEF IInv
<1> QED BY <1>1, PhysicalInvariant, PTL

-----------------------------------------------------------------------------
(* The scan's ranges.  A byte of the bitmap describes GROUP_SIZE bytes of  *)
(* memory; GroupBase is monotone and never exceeds its argument.           *)
LEMMA GroupBaseFacts ==
    ASSUME NEW a \in Nat
    PROVE  /\ GROUP_SIZE \in Nat \ {0}
           /\ GroupBase(a) \in Nat
           /\ GroupBase(a) <= a
           /\ a < GroupBase(a) + GROUP_SIZE
<1>1. GROUP_SIZE \in Nat \ {0}
  BY SizeAssumption DEF GROUP_SIZE
<1>2. a = GROUP_SIZE * (a \div GROUP_SIZE) + (a % GROUP_SIZE)
  BY <1>1
<1>3. a % GROUP_SIZE \in 0 .. GROUP_SIZE - 1
  BY <1>1
<1>4. a \div GROUP_SIZE \in Nat
  BY <1>1, QuotientType
<1>5. GROUP_SIZE * (a \div GROUP_SIZE) \in Nat
  BY <1>1, <1>4
<1> QED BY <1>1, <1>2, <1>3, <1>5 DEF GroupBase

LEMMA GroupBaseMonotone ==
    ASSUME NEW a \in Nat, NEW b \in Nat, a <= b
    PROVE  GroupBase(a) <= GroupBase(b)
<1> DEFINE qa == a \div GROUP_SIZE
           qb == b \div GROUP_SIZE
<1>1. GROUP_SIZE \in Nat \ {0} /\ qa \in Nat /\ qb \in Nat
  BY GroupBaseFacts, QuotientType
<1>2. GROUP_SIZE * qa <= a /\ b < GROUP_SIZE * qb + GROUP_SIZE
  BY GroupBaseFacts DEF GroupBase
<1> HIDE DEF qa, qb
<1>3. qa <= qb
  <2>1. CASE qb + 1 <= qa
    <3>1. GROUP_SIZE * (qb + 1) <= GROUP_SIZE * qa
      BY <1>1, <2>1
    <3>2. GROUP_SIZE * (qb + 1) = GROUP_SIZE * qb + GROUP_SIZE
      BY <1>1
    <3> QED BY <1>1, <1>2, <3>1, <3>2
  <2> QED BY <1>1, <2>1
<1>4. GROUP_SIZE * qa <= GROUP_SIZE * qb
  BY <1>1, <1>3
<1> QED BY <1>4 DEF GroupBase, qa, qb

(* Low memory ends where a byte of the bitmap begins.                      *)
LEMMA LowMemoryEndsGroup == GroupBase(PHYSICAL_LOW_MEM) = PHYSICAL_LOW_MEM
<1>1. GROUP_SIZE \in Nat \ {0}
  BY SizeAssumption DEF GROUP_SIZE
<1>2. PHYSICAL_LOW_MEM = GROUP_SIZE * (PHYSICAL_LOW_MEM \div GROUP_SIZE)
                             + (PHYSICAL_LOW_MEM % GROUP_SIZE)
  BY <1>1, SizeAssumption
<1> QED BY <1>1, <1>2, SizeAssumption DEF GroupBase

LEMMA ScanFinds ==
    ASSUME TypeOK, NEW start, NEW end, NEW p \in bitmap,
           GroupBase(start) <= GroupBase(p), GroupBase(p) < end
    PROVE  Scan(start, end) # NULL
<1> DEFINE found == {q \in bitmap : /\ GroupBase(start) <= GroupBase(q)
                                    /\ GroupBase(q) < end}
<1>1. found # {} /\ found \subseteq Nat
  BY ManagedPagesType DEF TypeOK
<1>2. First(found) \in bitmap
  BY <1>1, FirstIsLeast
<1>3. First(found) # NULL
  BY <1>2, ManagedPagesType DEF TypeOK
<1> QED BY <1>1, <1>3 DEF Scan

LEMMA ScanInRange ==
    ASSUME TypeOK, NEW start, NEW end, Scan(start, end) # NULL
    PROVE  /\ Scan(start, end) \in bitmap
           /\ GroupBase(start) <= GroupBase(Scan(start, end))
           /\ GroupBase(Scan(start, end)) < end
<1> DEFINE found == {q \in bitmap : /\ GroupBase(start) <= GroupBase(q)
                                    /\ GroupBase(q) < end}
<1>1. found # {}
  BY DEF Scan
<1>2. First(found) \in found
  BY <1>1, ManagedPagesType, FirstIsLeast DEF TypeOK
<1>3. Scan(start, end) = First(found)
  BY <1>1 DEF Scan
<1> QED BY <1>2, <1>3

LEMMA SomethingFree ==
    ASSUME IInv, bitmap # {}
    PROVE  free_mem_size # 0
<1>1. IsFiniteSet(bitmap)
  BY ManagedPagesType, FS_Subset DEF IInv, TypeOK
<1>2. Cardinality(bitmap) \in Nat /\ Cardinality(bitmap) # 0
  BY <1>1, FS_CardinalityType, FS_EmptySet
<1>3. PAGE_MEM_SIZE * Cardinality(bitmap) # 0
  BY <1>2, SizeAssumption
<1> QED BY <1>3 DEF IInv, FreeCountExact

(* A free low page is found by alloc_low_mem_page, a free high page by     *)
(* alloc_high_mem_page.                                                    *)
LEMMA LowPageFound ==
    ASSUME IInv, NEW p \in bitmap, p < PHYSICAL_LOW_MEM
    PROVE  alloc_low_mem_page # NULL
<1> DEFINE end == IF PHYSICAL_LOW_MEM > physical_mem_size THEN physical_mem_size
                                                          ELSE PHYSICAL_LOW_MEM
<1>1. p \in Nat /\ p >= available_mem_start /\ p < physical_mem_size
  BY ManagedPagesType DEF IInv, TypeOK
<1>2. ~ (available_mem_start > end - PAGE_MEM_SIZE) /\ p < end
  BY <1>1, BootAssumption, SizeAssumption, AvailableType
<1>3. GroupBase(available_mem_start) <= GroupBase(p)
  BY <1>1, AvailableType, GroupBaseMonotone
<1>4. GroupBase(p) < end
  BY <1>1, <1>2, GroupBaseFacts, SizeAssumption
<1>5. Scan(available_mem_start, end) # NULL
  BY <1>3, <1>4, ScanFinds DEF IInv
<1> QED
  BY <1>2, <1>5, SomethingFree, AvailableType DEF alloc_low_mem_page, alloc_physical_mem_page

LEMMA HighPageFound ==
    ASSUME IInv, NEW p \in bitmap, p >= PHYSICAL_LOW_MEM
    PROVE  alloc_high_mem_page # NULL
<1>1. p \in Nat /\ p < physical_mem_size
  BY ManagedPagesType DEF IInv, TypeOK
<1>2. /\ ~ (PHYSICAL_LOW_MEM > physical_mem_size - PAGE_MEM_SIZE)
      /\ ~ (PHYSICAL_LOW_MEM < available_mem_start)
  BY <1>1, BootAssumption, SizeAssumption, AvailableType
<1>3. GroupBase(PHYSICAL_LOW_MEM) <= GroupBase(p)
  BY <1>1, SizeAssumption, GroupBaseMonotone
<1>4. GroupBase(p) < physical_mem_size
  BY <1>1, GroupBaseFacts, SizeAssumption
<1>5. Scan(PHYSICAL_LOW_MEM, physical_mem_size) # NULL
  BY <1>3, <1>4, ScanFinds DEF IInv
<1>6. ~ (physical_mem_size > physical_mem_size)
  BY SizeAssumption
<1> QED
  BY <1>2, <1>5, <1>6, SomethingFree DEF alloc_high_mem_page, alloc_physical_mem_page

(* And each answers only with pages of its own range.                      *)
LEMMA LowPageIsLow ==
    ASSUME IInv
    PROVE  alloc_low_mem_page < PHYSICAL_LOW_MEM
<1> DEFINE end == IF PHYSICAL_LOW_MEM > physical_mem_size THEN physical_mem_size
                                                          ELSE PHYSICAL_LOW_MEM
           p   == Scan(available_mem_start, end)
<1>1. PHYSICAL_LOW_MEM \in Nat /\ 0 < PHYSICAL_LOW_MEM /\ end \in Nat /\ end <= PHYSICAL_LOW_MEM
  BY BootAssumption, SizeAssumption, AvailableType
<1>2. CASE alloc_low_mem_page = NULL
  BY <1>1, <1>2 DEF NULL
<1>3. CASE alloc_low_mem_page # NULL
  <2>1. alloc_low_mem_page = p /\ p # NULL
    BY <1>3 DEF alloc_low_mem_page, alloc_physical_mem_page
  <2>2. p \in Nat /\ GroupBase(p) < end
    BY <2>1, ScanInRange, ManagedPagesType DEF IInv, TypeOK
  <2>3. GroupBase(p) \in Nat
    BY <2>2, GroupBaseFacts
  <2>4. ~ (PHYSICAL_LOW_MEM <= p)
    <3>1. PHYSICAL_LOW_MEM <= p => PHYSICAL_LOW_MEM <= GroupBase(p)
      BY <1>1, <2>2, GroupBaseMonotone, LowMemoryEndsGroup
    <3> HIDE DEF end, p
    <3> QED BY <3>1, <1>1, <2>2, <2>3
  <2> HIDE DEF p
  <2> QED BY <1>1, <2>1, <2>2, <2>4
<1> QED BY <1>2, <1>3

LEMMA HighPageIsHigh ==
    ASSUME IInv, alloc_high_mem_page # NULL
    PROVE  alloc_high_mem_page >= PHYSICAL_LOW_MEM
<1> DEFINE p == Scan(PHYSICAL_LOW_MEM, physical_mem_size)
<1>1. alloc_high_mem_page = p /\ p # NULL
  BY SizeAssumption DEF alloc_high_mem_page, alloc_physical_mem_page
<1>2. p \in Nat /\ PHYSICAL_LOW_MEM <= GroupBase(p)
  BY <1>1, ScanInRange, LowMemoryEndsGroup, ManagedPagesType DEF IInv, TypeOK
<1>3. GroupBase(p) \in Nat /\ GroupBase(p) <= p
  BY <1>2, GroupBaseFacts
<1> HIDE DEF p
<1> QED BY <1>1, <1>2, <1>3, SizeAssumption

(* A request fails only when there is nothing to serve it with.            *)
THEOREM AllocationComplete == Spec => []AllocComplete
<1>1. IInv => AllocComplete
  <2> SUFFICES ASSUME IInv PROVE AllocComplete
    OBVIOUS
  <2>1. \A p \in bitmap : p < PHYSICAL_LOW_MEM \/ p >= PHYSICAL_LOW_MEM
    BY ManagedPagesType, SizeAssumption DEF IInv, TypeOK
  <2>2. alloc_low_mem_page = NULL => \A p \in bitmap : p >= PHYSICAL_LOW_MEM
    BY <2>1, LowPageFound
  <2>3. alloc_mem_page = NULL => bitmap = {}
    BY <2>1, LowPageFound, HighPageFound DEF alloc_mem_page
  <2> QED BY <2>2, <2>3 DEF AllocComplete
<1> QED BY <1>1, PhysicalInvariant, PTL

(* alloc_low_mem_page answers with low pages, and alloc_mem_page with one  *)
(* only when every high page is taken.                                     *)
THEOREM LowMemoryKept == Spec => []LowMemoryPolicy
<1>1. IInv => LowMemoryPolicy
  <2> SUFFICES ASSUME IInv PROVE LowMemoryPolicy
    OBVIOUS
  <2>1. alloc_low_mem_page < PHYSICAL_LOW_MEM
    BY LowPageIsLow
  <2>2. ASSUME alloc_mem_page \in 1 .. PHYSICAL_LOW_MEM - 1
        PROVE  \A p \in bitmap : p < PHYSICAL_LOW_MEM
    <3>1. ~ (alloc_mem_page >= PHYSICAL_LOW_MEM)
      BY <2>2, SizeAssumption
    <3>2. alloc_high_mem_page = NULL
      BY <3>1, HighPageIsHigh DEF alloc_mem_page
    <3> QED BY <3>2, HighPageFound, ManagedPagesType, SizeAssumption DEF IInv, TypeOK
  <2> QED BY <2>1, <2>2 DEF LowMemoryPolicy
<1> QED BY <1>1, PhysicalInvariant, PTL

=============================================================================
