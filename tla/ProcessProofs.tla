--------------------------- MODULE ProcessProofs ----------------------------
(***************************************************************************)
(* process_create, for every size of memory, every size of a stack and     *)
(* every number of processes, and wherever an allocation fails: it uses    *)
(* the page allocator as its specification allows, loses no page, and a    *)
(* complete process shares no page.                                        *)
(*                                                                         *)
(* The first invariant, PInv, is about the call in progress and the        *)
(* allocator.  The second, UInv, keeps book of every page of every         *)
(* process: the pages taken are exactly those in use, each for one thing.  *)
(***************************************************************************)
EXTENDS Process, SequenceTheorems, WellFoundedInduction, TLAPS

-----------------------------------------------------------------------------
(* What the page allocator answers.                                        *)

(* Managed memory begins at a positive address, so no page is called NULL. *)
LEMMA ManagedPagesType == Mem!ManagedPages \subseteq Nat \ {NULL}
<1> USE MemoryAssumption DEF Mem!SizeAssumption
<1>1. ASSUME NEW a \in Nat, NEW b \in Nat \ {0} PROVE a \div b \in Nat
  OBVIOUS
<1>2. Mem!mem_bitmap_size \in Nat \ {0}
  <2>1. physical_mem_size \div PAGE_MEM_SIZE \in Nat
    BY <1>1
  <2>2. (physical_mem_size \div PAGE_MEM_SIZE) \div BITS \in Nat
    BY <1>1, <2>1
  <2> QED BY <2>2 DEF Mem!mem_bitmap_size
<1>3. ASSUME NEW a \in Nat \ {0} PROVE Mem!AlignUp(a) \in Nat \ {0}
  <2>1. a % PAGE_MEM_SIZE \in 0 .. PAGE_MEM_SIZE - 1
    OBVIOUS
  <2> QED BY <2>1 DEF Mem!AlignUp
<1>4. free_mem_start + Mem!mem_bitmap_size \in Nat \ {0}
  BY <1>2
<1>5. Mem!available_mem_start \in Nat \ {0}
  BY <1>3, <1>4 DEF Mem!available_mem_start
<1> QED BY <1>5 DEF Mem!ManagedPages, NULL, Mem!NULL

(* A set of addresses has a least one: the scan's choice is well defined.  *)
LEMMA FirstOfPages ==
    ASSUME NEW pages, pages \subseteq Nat, pages # {}
    PROVE  Mem!First(pages) \in pages
<1>1. PICK p \in pages : \A q \in pages : ~ (<<q, p>> \in OpToRel(<, Nat))
  BY WFMin, NatLessThanWellFounded
<1>2. ASSUME NEW q \in pages PROVE p <= q
  <2>1. <<q, p>> \in OpToRel(<, Nat) <=> q < p
    BY DEF OpToRel
  <2>2. ~ (q < p)
    BY <1>1, <2>1, Zenon
  <2> QED BY <2>2
<1> QED BY <1>2 DEF Mem!First

(* alloc_mem_page answers NULL or a page whose bit is set.                 *)
LEMMA AllocAnswers ==
    ASSUME bitmap \subseteq Mem!ManagedPages
    PROVE  Mem!alloc_mem_page \in bitmap \cup {NULL}
<1>1. ASSUME NEW start, NEW end PROVE Mem!Scan(start, end) \in bitmap \cup {NULL}
  <2> DEFINE found == {p \in bitmap : /\ Mem!GroupBase(start) <= Mem!GroupBase(p)
                                      /\ Mem!GroupBase(p) < end}
  <2>1. CASE found = {}
    BY <2>1 DEF Mem!Scan, NULL
  <2>2. CASE found # {}
    <3>1. Mem!First(found) \in bitmap
      BY <2>2, FirstOfPages, ManagedPagesType
    <3> QED BY <2>2, <3>1 DEF Mem!Scan
  <2> QED BY <2>1, <2>2
<1>2. ASSUME NEW start, NEW end
      PROVE  Mem!alloc_physical_mem_page(start, end) \in bitmap \cup {NULL}
  BY <1>1 DEF Mem!alloc_physical_mem_page, NULL
<1> QED BY <1>2 DEF Mem!alloc_mem_page, Mem!alloc_low_mem_page, Mem!alloc_high_mem_page

-----------------------------------------------------------------------------
(* The inductive invariant.  A page has one owner, so that a page the      *)
(* allocator hands out is a new one.                                       *)
OneOwner ==
    /\ bitmap \cup taken \cup other \subseteq Mem!ManagedPages
    /\ bitmap \cap taken = {} /\ bitmap \cap other = {} /\ taken \cap other = {}

Pcs == {"idle", "info", "kernel_stack", "page", "map", "undo", "esp0", "esp"}

CallType == [pc : Pcs, dir : Int, pages : Seq(Int), todo : 0 .. StackPages, frame : Int,
             stack : BOOLEAN]

DirType == [table : [{Table(k) : k \in Stack} -> Int], pte : [Stack -> Int]]

Shape ==
    /\ call \in CallType
    /\ dirs \in [DOMAIN dirs -> DirType]
    /\ call.pc # "idle" => call.dir \in DOMAIN dirs
    /\ call.pc \in {"info", "kernel_stack"} => call.todo = 0

Mapped(k) == dirs[call.dir].pte[k]

(* While the stack is built or undone, the pages the undo loop would give  *)
(* back are taken and differ from each other and from the one in hand.     *)
InHand ==
    /\ call.pc \in {"page", "map", "undo"} =>
          \A k \in 0 .. call.todo - 1 :
              /\ Mapped(k) \in taken
              /\ \A l \in 0 .. call.todo - 1 : l # k => Mapped(l) # Mapped(k)
    /\ call.pc = "map" =>
          /\ call.todo < StackPages
          /\ call.frame \in taken
          /\ \A k \in 0 .. call.todo - 1 : Mapped(k) # call.frame

PInv == OneOwner /\ Shape /\ InHand

(* What a step may do to the pages: the allocator allows it, and a page    *)
(* has one owner behind it.                                                *)
Allowed == [Mem!Next]_(Mem!vars) /\ OneOwner'

LEMMA TakeAllowed ==
    ASSUME OneOwner, NEW p \in {NULL, Mem!alloc_mem_page}, Take(p), UNCHANGED other
    PROVE  /\ Allowed
           /\ taken \subseteq taken'
           /\ p # NULL => p \in taken' /\ p \notin taken
           /\ p \in Int
<1>1. CASE p = NULL
  BY <1>1 DEF Take, Allowed, Mem!vars, OneOwner, NULL, Mem!NULL
<1>2. CASE p # NULL
  <2>1. p \in bitmap /\ p = Mem!alloc_mem_page
    BY <1>2, AllocAnswers DEF OneOwner
  <2>2. Mem!Take(p) /\ taken' = taken \cup {p}
    BY <1>2 DEF Take
  <2>3. Mem!Alloc("process")
    BY <1>2, <2>1, <2>2 DEF Mem!Alloc, Mem!Grant, NULL
  <2>4. OneOwner'
    BY <2>1, <2>2 DEF OneOwner, Mem!Take
  <2>5. p \in Mem!ManagedPages
    BY <2>1 DEF OneOwner
  <2>6. p \in Nat
    BY <2>5, ManagedPagesType
  <2> QED BY <2>1, <2>2, <2>3, <2>4, <2>6 DEF Allowed, Mem!Next, OneOwner
<1> QED BY <1>1, <1>2

LEMMA GiveAllowed ==
    ASSUME OneOwner, NEW p \in taken, Give(p), UNCHANGED other
    PROVE  Allowed /\ taken' = taken \ {p}
<1>1. Mem!free_mem_page(p) /\ taken' = taken \ {p}
  BY DEF Give
<1>2. Mem!Free("process", p)
  BY <1>1 DEF Mem!Free
<1>3. OneOwner'
  BY <1>1 DEF OneOwner, Mem!free_mem_page
<1> QED BY <1>1, <1>2, <1>3 DEF Allowed, Mem!Next

LEMMA SameAllowed ==
    ASSUME OneOwner, UNCHANGED <<bitmap, free_mem_size, taken, other>>
    PROVE  Allowed
BY DEF Allowed, Mem!vars, OneOwner

-----------------------------------------------------------------------------
(* Every step is allowed and keeps the invariant.                          *)

LEMMA NullType == NULL \in Int
BY DEF NULL, Mem!NULL

LEMMA IdleType == Idle \in CallType
<1>1. <<>> \in Seq(Int) /\ 0 \in 0 .. StackPages
  BY ProcessAssumption
<1> QED BY <1>1 DEF Idle, CallType, Pcs, NULL, Mem!NULL

LEMMA BeginKeeps ==
    ASSUME PInv, Begin
    PROVE  Allowed /\ PInv'
<1> DEFINE p == Mem!alloc_mem_page
<1>1. Allowed /\ p \in Int
  BY TakeAllowed DEF PInv, Begin, At
<1>2. EmptyDir \in DirType
  BY DEF EmptyDir, DirType, NULL, Mem!NULL
<1>3. call' = [Idle EXCEPT !.pc = "info", !.dir = p]
  BY DEF Begin
<1>4. call' \in CallType /\ call'.pc = "info" /\ call'.dir = p /\ call'.todo = 0
  BY <1>1, <1>3, IdleType DEF CallType, Pcs, Idle
<1>5. dirs' = [d \in DOMAIN dirs \cup {p} |-> IF d = p THEN EmptyDir ELSE dirs[d]]
  BY DEF Begin
<1>6. dirs' \in [DOMAIN dirs' -> DirType] /\ p \in DOMAIN dirs'
  BY <1>2, <1>5 DEF PInv, Shape
<1>7. Shape'
  BY <1>4, <1>6 DEF Shape
<1>8. InHand'
  BY <1>4 DEF InHand
<1> QED BY <1>1, <1>7, <1>8 DEF Allowed, PInv

(* The caller makes a table before the call.                               *)
LEMMA CallerMapsKeeps ==
    ASSUME PInv, CallerMaps
    PROVE  Allowed /\ PInv'
<1> DEFINE p == Mem!alloc_mem_page
           d == call.dir
<1>1. Allowed /\ p \in Int
  BY TakeAllowed DEF PInv, CallerMaps, At
<1>2. call.pc = "info" /\ call' = call /\ d \in DOMAIN dirs /\ dirs[d] \in DirType
  BY DEF PInv, Shape, CallerMaps, At
<1>3. PICK t \in DOMAIN dirs[d].table : dirs' = [dirs EXCEPT ![d].table[t] = p]
  BY DEF CallerMaps
<1>4. dirs' \in [DOMAIN dirs -> DirType]
  <2> DEFINE new == [dirs[d] EXCEPT !.table[t] = p]
  <2>1. new \in DirType
    BY <1>1, <1>2, <1>3 DEF DirType
  <2>2. dirs' = [dirs EXCEPT ![d] = new]
    BY <1>2, <1>3 DEF PInv, Shape, DirType
  <2> QED BY <1>2, <2>1, <2>2 DEF PInv, Shape
<1>5. Shape' /\ InHand'
  BY <1>2, <1>4 DEF PInv, Shape, InHand
<1> QED BY <1>1, <1>5 DEF Allowed, PInv

LEMMA NewInfoKeeps ==
    ASSUME PInv, NewInfo
    PROVE  Allowed /\ PInv'
<1> DEFINE p == Mem!alloc_mem_page
<1>1. Allowed /\ p \in Int
  BY TakeAllowed DEF PInv, NewInfo, At
<1>2. call \in CallType /\ call.pc = "info" /\ call.todo = 0 /\ call.dir \in DOMAIN dirs
  BY DEF PInv, Shape, NewInfo, At
<1>3. call' = IF p = NULL THEN Idle
              ELSE [call EXCEPT !.pc = "kernel_stack", !.pages = <<p>>]
  BY DEF NewInfo
<1>4. <<p>> \in Seq(Int)
  BY <1>1
<1>5. /\ call' \in CallType
      /\ \/ call'.pc = "idle"
         \/ call'.pc = "kernel_stack" /\ call'.todo = 0 /\ call'.dir \in DOMAIN dirs
  <2>1. CASE p = NULL
    BY <1>3, <2>1, IdleType DEF Idle
  <2>2. CASE p # NULL
    BY <1>2, <1>3, <1>4, <2>2 DEF CallType, Pcs
  <2> QED BY <2>1, <2>2
<1>6. Shape'
  BY <1>5 DEF PInv, Shape, NewInfo
<1>7. InHand'
  BY <1>5 DEF InHand
<1> QED BY <1>1, <1>6, <1>7 DEF Allowed, PInv

LEMMA KernelStackKeeps ==
    ASSUME PInv, KernelStack
    PROVE  Allowed /\ PInv'
<1>1. PICK p \in {NULL, Mem!alloc_mem_page} :
          Take(p) /\ call' = [call EXCEPT !.pc = "page", !.pages = Append(@, p)]
  BY DEF KernelStack
<1>2. Allowed /\ p \in Int
  BY <1>1, TakeAllowed DEF PInv, KernelStack, At
<1>3. call \in CallType /\ call.todo = 0 /\ call.dir \in DOMAIN dirs
  BY DEF PInv, Shape, KernelStack, At
<1>4. Append(call.pages, p) \in Seq(Int)
  BY <1>2, <1>3 DEF CallType
<1>5. call' \in CallType /\ call'.pc = "page" /\ call'.todo = 0 /\ call'.dir \in DOMAIN dirs
  BY <1>1, <1>3, <1>4 DEF CallType, Pcs
<1>6. Shape'
  BY <1>5 DEF PInv, Shape, KernelStack
<1>7. InHand'
  BY <1>5 DEF InHand
<1> QED BY <1>2, <1>6, <1>7 DEF Allowed, PInv

LEMMA StackPageKeeps ==
    ASSUME PInv, StackPage
    PROVE  Allowed /\ PInv'
<1> DEFINE p == Mem!alloc_mem_page
<1>1. Allowed /\ taken \subseteq taken' /\ p \in Int
      /\ (p # NULL => p \in taken' /\ p \notin taken)
  BY TakeAllowed DEF PInv, StackPage, At
<1>2. /\ call \in CallType /\ call.pc = "page" /\ call.todo < StackPages
      /\ call.dir \in DOMAIN dirs /\ dirs' = dirs
  BY DEF PInv, Shape, StackPage, At
<1>3. call' = IF p = NULL THEN [call EXCEPT !.pc = "undo", !.stack = FALSE]
                          ELSE [call EXCEPT !.pc = "map", !.frame = p]
  BY DEF StackPage
<1>4. /\ call' \in CallType /\ call'.dir = call.dir /\ call'.todo = call.todo
      /\ \/ call'.pc = "undo"
         \/ call'.pc = "map" /\ call'.frame = p /\ p # NULL
  <2>1. CASE p = NULL
    BY <1>2, <1>3, <2>1 DEF CallType, Pcs
  <2>2. CASE p # NULL
    BY <1>1, <1>2, <1>3, <2>2 DEF CallType, Pcs
  <2> QED BY <2>1, <2>2
<1>5. Shape'
  BY <1>2, <1>4 DEF PInv, Shape
<1>6. InHand'
  BY <1>1, <1>2, <1>4 DEF PInv, InHand, Mapped
<1> QED BY <1>1, <1>5, <1>6 DEF Allowed, PInv

(* The page in hand becomes the last one that is mapped.                   *)
LEMMA MapPageKeeps ==
    ASSUME PInv, MapPage
    PROVE  Allowed /\ PInv'
<1> DEFINE k == call.todo
           t == dirs[call.dir].table[Table(k)]
           p == IF t = NULL THEN Mem!alloc_mem_page ELSE NULL
<1>1. Allowed /\ taken \subseteq taken' /\ p \in Int
  BY TakeAllowed DEF PInv, MapPage, MapAt, At
<1>2. /\ call \in CallType /\ call.pc = "map" /\ k \in Stack /\ k + 1 \in 0 .. StackPages
      /\ call.dir \in DOMAIN dirs /\ dirs[call.dir] \in DirType
  BY ProcessAssumption DEF PInv, Shape, InHand, MapPage, At, CallType, Stack
<1>3. dirs' = [dirs EXCEPT ![call.dir].pte[k] = call.frame,
                           ![call.dir].table[Table(k)] = IF t = NULL THEN p ELSE t]
  BY DEF MapPage, MapAt
<1>4. call' = [call EXCEPT !.pc = "page", !.todo = @ + 1, !.frame = NULL]
  BY DEF MapPage
<1>5. call' \in CallType /\ call'.pc = "page" /\ call'.todo = k + 1 /\ call'.dir = call.dir
  BY <1>2, <1>4, NullType DEF CallType, Pcs
<1>6. /\ dirs' \in [DOMAIN dirs -> DirType]
      /\ dirs'[call.dir].pte = [dirs[call.dir].pte EXCEPT ![k] = call.frame]
  <2> DEFINE new == [dirs[call.dir] EXCEPT
                        !.pte[k] = call.frame,
                        !.table[Table(k)] = IF t = NULL THEN p ELSE t]
  <2>1. t \in Int /\ call.frame \in Int
    BY <1>2 DEF DirType, CallType
  <2>2. new \in DirType /\ new.pte = [dirs[call.dir].pte EXCEPT ![k] = call.frame]
    BY <1>1, <1>2, <2>1 DEF DirType
  <2>3. dirs' = [dirs EXCEPT ![call.dir] = new]
    BY <1>2, <1>3 DEF PInv, Shape, DirType
  <2> QED BY <1>2, <2>2, <2>3 DEF PInv, Shape
<1>7. Shape'
  BY <1>2, <1>5, <1>6 DEF Shape
<1>8. InHand'
  <2> DEFINE old == dirs[call.dir].pte
             new == [old EXCEPT ![k] = call.frame]
  <2>1. dirs'[call'.dir].pte = new
    BY <1>5, <1>6
  <2>2. /\ \A i \in 0 .. k - 1 : old[i] \in taken /\ old[i] # call.frame
        /\ \A i, j \in 0 .. k - 1 : j # i => old[j] # old[i]
        /\ call.frame \in taken
    BY <1>2 DEF PInv, InHand, Mapped
  <2>3. /\ 0 .. call'.todo - 1 = (0 .. k - 1) \cup {k}
        /\ k \notin 0 .. k - 1
        /\ 0 .. k - 1 \subseteq Stack
    BY <1>2, <1>5, ProcessAssumption DEF Stack
  <2>4. old \in [Stack -> Int]
    BY <1>2 DEF DirType
  <2>5. /\ \A i \in 0 .. k - 1 : new[i] = old[i]
        /\ new[k] = call.frame
    BY <1>2, <2>3, <2>4
  <2> HIDE DEF k, old, new
  <2>6. \A i \in 0 .. call'.todo - 1 : new[i] \in taken'
    BY <1>1, <2>2, <2>3, <2>5
  <2>7. \A i, j \in 0 .. call'.todo - 1 : j # i => new[j] # new[i]
    BY <2>2, <2>3, <2>5
  <2> QED BY <1>5, <2>1, <2>6, <2>7 DEF InHand, Mapped
<1> QED BY <1>1, <1>7, <1>8 DEF Allowed, PInv

LEMMA MapFailsKeeps ==
    ASSUME PInv, MapFails
    PROVE  Allowed /\ PInv'
<1>1. /\ call \in CallType /\ call.pc = "map" /\ call.frame \in taken
      /\ call.dir \in DOMAIN dirs /\ dirs' = dirs
  BY DEF PInv, Shape, InHand, MapFails, At
<1>2. Allowed /\ taken' = taken \ {call.frame}
  BY <1>1, GiveAllowed DEF PInv, MapFails, At
<1>3. call' = [call EXCEPT !.pc = "undo", !.frame = NULL, !.stack = FALSE]
  BY DEF MapFails
<1>4. call' \in CallType /\ call'.pc = "undo" /\ call'.todo = call.todo /\ call'.dir = call.dir
  BY <1>1, <1>3, NullType DEF CallType, Pcs
<1>5. Shape'
  BY <1>1, <1>4 DEF PInv, Shape
<1>6. InHand'
  BY <1>1, <1>2, <1>4 DEF PInv, InHand, Mapped
<1> QED BY <1>2, <1>5, <1>6 DEF Allowed, PInv

(* What is given back is the last page that was mapped.                    *)
LEMMA UndoKeeps ==
    ASSUME PInv, Undo
    PROVE  Allowed /\ PInv'
<1> DEFINE last == call.todo - 1
<1>1. /\ call \in CallType /\ call.pc = "undo" /\ call.todo > 0 /\ call.todo \in 0 .. StackPages
      /\ call.dir \in DOMAIN dirs /\ dirs' = dirs
  BY DEF PInv, Shape, Undo, At, CallType
<1>2. last \in 0 .. call.todo - 1 /\ last \in 0 .. StackPages
  BY <1>1, ProcessAssumption
<1>3. Mapped(last) \in taken
  BY <1>1, <1>2 DEF PInv, InHand
<1>4. Mapped(last) # NULL
  BY <1>3, ManagedPagesType DEF PInv, OneOwner
<1>5. Give(Mapped(last)) /\ call' = [call EXCEPT !.todo = @ - 1]
  BY <1>4 DEF Undo, UndoAt, Mapped
<1>6. Allowed /\ taken' = taken \ {Mapped(last)}
  BY <1>3, <1>5, GiveAllowed DEF PInv, Undo, At
<1>7. call' \in CallType /\ call'.pc = "undo" /\ call'.todo = last /\ call'.dir = call.dir
  BY <1>1, <1>2, <1>5 DEF CallType
<1>8. Shape'
  BY <1>1, <1>7 DEF PInv, Shape
<1>9. InHand'
  <2>1. \A i \in 0 .. last - 1 : i \in 0 .. call.todo - 1 /\ i # last
    BY <1>1
  <2>2. \A i \in 0 .. last - 1 : Mapped(i)' \in taken'
    BY <1>1, <1>2, <1>6, <1>7, <2>1 DEF PInv, InHand, Mapped
  <2>3. \A i, j \in 0 .. last - 1 : j # i => Mapped(j)' # Mapped(i)'
    BY <1>1, <1>7, <2>1 DEF PInv, InHand, Mapped
  <2> QED BY <1>7, <2>2, <2>3 DEF InHand
<1> QED BY <1>6, <1>8, <1>9 DEF Allowed, PInv

LEMMA StackDoneKeeps ==
    ASSUME PInv, StackDone
    PROVE  Allowed /\ PInv'
<1>1. call \in CallType /\ call.dir \in DOMAIN dirs /\ dirs' = dirs
  BY DEF PInv, Shape, StackDone, At
<1>2. Allowed
  BY SameAllowed DEF PInv, StackDone, At
<1>3. call' \in CallType /\ call'.pc = "esp0" /\ call'.dir = call.dir
  BY <1>1 DEF StackDone, CallType, Pcs
<1>4. Shape' /\ InHand'
  BY <1>1, <1>3 DEF PInv, Shape, InHand
<1> QED BY <1>2, <1>4 DEF Allowed, PInv

LEMMA TssStackKeeps ==
    ASSUME PInv, NEW pc \in {"esp0", "esp"}, TssStack(pc)
    PROVE  Allowed /\ PInv'
<1> DEFINE p     == Mem!alloc_mem_page
           pages == Append(call.pages, p)
<1>1. Allowed /\ p \in Int
  BY TakeAllowed DEF PInv, TssStack, At
<1>2. call \in CallType /\ call.pc = pc /\ call.dir \in DOMAIN dirs /\ dirs' = dirs
  BY DEF PInv, Shape, TssStack, At
<1>3. pages \in Seq(Int)
  BY <1>1, <1>2 DEF CallType
<1>4. /\ call' \in CallType
      /\ call'.pc = "idle" \/ (call'.pc = "esp" /\ call'.dir \in DOMAIN dirs)
  <2>1. CASE pc = "esp0"
    <3>1. call' = [call EXCEPT !.pc = "esp", !.pages = pages]
      BY <2>1 DEF TssStack
    <3> QED BY <1>2, <1>3, <3>1 DEF CallType, Pcs
  <2>2. CASE pc = "esp"
    <3>1. call' = Idle
      BY <2>2 DEF TssStack
    <3> QED BY <3>1, IdleType DEF Idle
  <2> QED BY <2>1, <2>2
<1>5. Shape' /\ InHand'
  BY <1>2, <1>4 DEF PInv, Shape, InHand
<1> QED BY <1>1, <1>5 DEF Allowed, PInv

(* The rest of the kernel.                                                 *)
LEMMA OthersKeep ==
    ASSUME PInv, OtherAlloc \/ OtherFree
    PROVE  Allowed /\ PInv'
<1>1. call.pc = "idle" /\ UNCHANGED <<taken, dirs, call>>
  BY DEF OtherAlloc, OtherFree
<1>2. ASSUME OtherAlloc PROVE Allowed
  <2> DEFINE p == Mem!alloc_mem_page
  <2>1. p # NULL /\ Mem!Take(p) /\ other' = other \cup {p}
    BY <1>2 DEF OtherAlloc, NULL
  <2>2. p \in bitmap
    BY <2>1, AllocAnswers DEF PInv, OneOwner
  <2>3. Mem!Alloc("other")
    BY <1>1, <2>1 DEF Mem!Alloc, Mem!Grant, NULL
  <2>4. OneOwner'
    BY <1>1, <2>1, <2>2 DEF PInv, OneOwner, Mem!Take
  <2> QED BY <2>3, <2>4 DEF Allowed, Mem!Next
<1>3. ASSUME OtherFree PROVE Allowed
  <2>1. PICK p \in other : Mem!free_mem_page(p) /\ other' = other \ {p}
    BY <1>3 DEF OtherFree
  <2>2. Mem!Free("other", p)
    BY <1>1, <2>1 DEF Mem!Free
  <2>3. OneOwner'
    BY <1>1, <2>1 DEF PInv, OneOwner, Mem!free_mem_page
  <2> QED BY <2>2, <2>3 DEF Allowed, Mem!Next
<1>4. Shape' /\ InHand'
  BY <1>1 DEF PInv, Shape, InHand
<1> QED BY <1>2, <1>3, <1>4 DEF Allowed, PInv

-----------------------------------------------------------------------------
LEMMA InitKeeps ==
    ASSUME Init
    PROVE  Mem!Init /\ PInv
<1>1. Mem!Init
  BY DEF Init, Mem!Init
<1>2. OneOwner
  BY DEF Init, OneOwner, Mem!physical_mem_init
<1>3. Shape
  BY IdleType DEF Init, Shape, Idle
<1>4. InHand
  BY DEF Init, InHand, Idle
<1> QED BY <1>1, <1>2, <1>3, <1>4 DEF PInv

LEMMA NextKeeps ==
    ASSUME PInv, [Next]_vars
    PROVE  [Mem!Next]_(Mem!vars) /\ PInv'
<1>1. CASE UNCHANGED vars
  <2>1. Allowed
    BY <1>1, SameAllowed DEF vars, PInv
  <2>2. Shape' /\ InHand'
    BY <1>1 DEF vars, PInv, Shape, InHand, Mapped
  <2> QED BY <2>1, <2>2 DEF Allowed, PInv
<1>2. CASE Begin
  BY <1>2, BeginKeeps DEF Allowed
<1>3. CASE process_create
  BY <1>3, NewInfoKeeps, KernelStackKeeps, StackPageKeeps, MapPageKeeps, MapFailsKeeps, UndoKeeps,
     StackDoneKeeps, TssStackKeeps DEF process_create, Allowed
<1>4. CASE OtherAlloc \/ OtherFree
  BY <1>4, OthersKeep DEF Allowed
<1>5. CASE CallerMaps
  BY <1>5, CallerMapsKeeps DEF Allowed
<1> QED BY <1>1, <1>2, <1>3, <1>4, <1>5 DEF Next

(* process_create takes pages by alloc_mem_page and gives back only pages  *)
(* it holds, once each: the undo loop of process_setup_user_stk returns    *)
(* what the loop before it mapped, wherever that was broken off.           *)
THEOREM ProcessUsesAllocator == Spec => MemSpec
<1>1. Init => Mem!Init /\ PInv
  BY InitKeeps
<1>2. PInv /\ [Next]_vars => [Mem!Next]_(Mem!vars) /\ PInv'
  BY NextKeeps
<1> QED BY <1>1, <1>2, PTL DEF Spec, MemSpec, Mem!Spec

-----------------------------------------------------------------------------
(* What every page is used for.  A use is named by its kind, the directory *)
(* of the process and a number, so a page keeps its use when process_create*)
(* hands over to the process that it created.                              *)
Tables == {Table(k) : k \in Stack}

Kinds == {"dir", "table", "page", "stack"}

DirUse(x, d, n) == d \in DOMAIN dirs /\ x = d /\ n = 0

TableUse(x, d, n) == d \in DOMAIN dirs /\ n \in Tables /\ x = dirs[d].table[n]

OfProcess(x, d, n) ==
    \E i \in DOMAIN procs : procs[i].dir = d /\ n \in DOMAIN procs[i].pages /\ x = procs[i].pages[n]

OfCall(x, d, n) ==
    call.pc # "idle" /\ call.dir = d /\ n \in DOMAIN call.pages /\ x = call.pages[n]

PageUse(x, d, n) == OfProcess(x, d, n) \/ OfCall(x, d, n)

Whole(x, d, n) ==
    \E i \in DOMAIN procs : procs[i].dir = d /\ procs[i].stack /\ n \in Stack /\ x = dirs[d].pte[n]

Growing(x, d, n) ==
    /\ call.pc # "idle" /\ call.dir = d
    /\ \/ n \in 0 .. call.todo - 1 /\ x = dirs[d].pte[n]
       \/ call.pc = "map" /\ n = call.todo /\ x = call.frame

StackUse(x, d, n) == Whole(x, d, n) \/ Growing(x, d, n)

Use(x, k, d, n) ==
    \/ k = "dir"   /\ DirUse(x, d, n)
    \/ k = "table" /\ TableUse(x, d, n)
    \/ k = "page"  /\ PageUse(x, d, n)
    \/ k = "stack" /\ StackUse(x, d, n)

Uses == {u \in [page : Int \ {0}, kind : Kinds, dir : Int, n : Int] :
            Use(u.page, u.kind, u.dir, u.n)}

(* The pages taken are those in use, and each has one use.                 *)
Exact(uses, pages) ==
    /\ pages = {u.page : u \in uses}
    /\ \A u, v \in uses : u.page = v.page => u = v

(* A directory is of one process, or of the call in progress.              *)
Owners ==
    /\ DOMAIN dirs \subseteq Int \ {0}
    /\ procs \in Seq([dir : Int, pages : Seq(Int), stack : BOOLEAN])
    /\ \A i \in DOMAIN procs : procs[i].dir \in DOMAIN dirs
    /\ \A i, j \in DOMAIN procs : i # j => procs[i].dir # procs[j].dir
    /\ call.pc # "idle" => \A i \in DOMAIN procs : procs[i].dir # call.dir

(* A stack is complete or nothing is left of it.                           *)
Built ==
    /\ call.pc = "info" => call.pages = <<>>
    /\ call.pc \in {"info", "kernel_stack", "page", "map"} => call.stack
    /\ call.pc = "undo" => ~ call.stack
    /\ call.pc \in {"esp0", "esp"} => call.todo = IF call.stack THEN StackPages ELSE 0

(* The pages of a complete stack are mapped.                               *)
Mappings(d) == \A n \in Stack : dirs[d].pte[n] # 0

Backed ==
    /\ \A i \in DOMAIN procs : procs[i].stack => Mappings(procs[i].dir)
    /\ call.pc \in {"esp0", "esp"} /\ call.stack => Mappings(call.dir)

UInv == PInv /\ Exact(Uses, taken) /\ Owners /\ Built

-----------------------------------------------------------------------------
(* How the uses change.                                                    *)

NewUse(x, k, d, n) == [page |-> x, kind |-> k, dir |-> d, n |-> n]

LEMMA ExactMore ==
    ASSUME NEW uses, NEW pages, Exact(uses, pages), NEW u, u.page \notin pages
    PROVE  Exact(uses \cup {u}, pages \cup {u.page})
<1>1. \A v \in uses : v.page # u.page
  BY DEF Exact
<1>2. {v.page : v \in uses \cup {u}} = pages \cup {u.page}
  BY DEF Exact
<1>3. ASSUME NEW v \in uses \cup {u}, NEW w \in uses \cup {u}, v.page = w.page PROVE v = w
  BY <1>1, <1>3 DEF Exact
<1> QED BY <1>2, <1>3 DEF Exact

LEMMA ExactLess ==
    ASSUME NEW uses, NEW pages, Exact(uses, pages), NEW u \in uses
    PROVE  Exact(uses \ {u}, pages \ {u.page})
<1>1. {v.page : v \in uses \ {u}} = pages \ {u.page}
  BY DEF Exact
<1> QED BY <1>1 DEF Exact

LEMMA NullIs == NULL = 0
BY DEF NULL, Mem!NULL

LEMMA UseKinds ==
    ASSUME NEW x \in Int, NEW d \in Int, NEW n \in Int
    PROVE  /\ Use(x, "dir", d, n) <=> DirUse(x, d, n)
           /\ Use(x, "table", d, n) <=> TableUse(x, d, n)
           /\ Use(x, "page", d, n) <=> PageUse(x, d, n)
           /\ Use(x, "stack", d, n) <=> StackUse(x, d, n)
           /\ Use(x, "dir", d, n)' <=> DirUse(x, d, n)'
           /\ Use(x, "table", d, n)' <=> TableUse(x, d, n)'
           /\ Use(x, "page", d, n)' <=> PageUse(x, d, n)'
           /\ Use(x, "stack", d, n)' <=> StackUse(x, d, n)'
BY DEF Use

Stays ==
    \A x \in Int \ {0}, k \in Kinds, d \in Int, n \in Int : Use(x, k, d, n)' <=> Use(x, k, d, n)

(* Nothing is added if p is NULL.                                          *)
Adds(p, k0, d0, n0) ==
    \A x \in Int \ {0}, k \in Kinds, d \in Int, n \in Int :
       Use(x, k, d, n)' <=> Use(x, k, d, n) \/ (x = p /\ k = k0 /\ d = d0 /\ n = n0)

Drops(p, k0, d0, n0) ==
    \A x \in Int \ {0}, k \in Kinds, d \in Int, n \in Int :
       Use(x, k, d, n)' <=> Use(x, k, d, n) /\ ~ (x = p /\ k = k0 /\ d = d0 /\ n = n0)

LEMMA UsesSame ==
    ASSUME Stays
    PROVE  Uses' = Uses
BY DEF Uses, Stays

LEMMA UsesMore ==
    ASSUME NEW p \in Int \ {0}, NEW k0 \in Kinds, NEW d0 \in Int, NEW n0 \in Int,
           Adds(p, k0, d0, n0)
    PROVE  Uses' = Uses \cup {NewUse(p, k0, d0, n0)}
<1> DEFINE T == [page : Int \ {0}, kind : Kinds, dir : Int, n : Int]
<1>1. NewUse(p, k0, d0, n0) \in T
  BY DEF NewUse
<1>2. ASSUME NEW u \in T PROVE u \in Uses' <=> u \in Uses \cup {NewUse(p, k0, d0, n0)}
  <2>1. u.page \in Int \ {0} /\ u.kind \in Kinds /\ u.dir \in Int /\ u.n \in Int
    OBVIOUS
  <2>2. u \in Uses' <=> Use(u.page, u.kind, u.dir, u.n)'
    BY DEF Uses
  <2>3. u \in Uses <=> Use(u.page, u.kind, u.dir, u.n)
    BY DEF Uses
  <2>4. u = NewUse(p, k0, d0, n0) <=> u.page = p /\ u.kind = k0 /\ u.dir = d0 /\ u.n = n0
    BY DEF NewUse
  <2> QED BY <2>1, <2>2, <2>3, <2>4 DEF Adds
<1>3. Uses \subseteq T /\ Uses' \subseteq T
  BY DEF Uses
<1> QED BY <1>1, <1>2, <1>3

LEMMA UsesLess ==
    ASSUME NEW p \in Int \ {0}, NEW k0 \in Kinds, NEW d0 \in Int, NEW n0 \in Int,
           Use(p, k0, d0, n0),
           Drops(p, k0, d0, n0)
    PROVE  /\ NewUse(p, k0, d0, n0) \in Uses
           /\ Uses' = Uses \ {NewUse(p, k0, d0, n0)}
<1> DEFINE T == [page : Int \ {0}, kind : Kinds, dir : Int, n : Int]
<1>1. NewUse(p, k0, d0, n0) \in T /\ NewUse(p, k0, d0, n0) \in Uses
  BY DEF NewUse, Uses
<1>2. ASSUME NEW u \in T PROVE u \in Uses' <=> u \in Uses \ {NewUse(p, k0, d0, n0)}
  <2>1. u.page \in Int \ {0} /\ u.kind \in Kinds /\ u.dir \in Int /\ u.n \in Int
    OBVIOUS
  <2>2. u \in Uses' <=> Use(u.page, u.kind, u.dir, u.n)'
    BY DEF Uses
  <2>3. u \in Uses <=> Use(u.page, u.kind, u.dir, u.n)
    BY DEF Uses
  <2>4. u = NewUse(p, k0, d0, n0) <=> u.page = p /\ u.kind = k0 /\ u.dir = d0 /\ u.n = n0
    BY DEF NewUse
  <2> QED BY <2>1, <2>2, <2>3, <2>4 DEF Drops
<1>3. Uses \subseteq T /\ Uses' \subseteq T
  BY DEF Uses
<1> QED BY <1>1, <1>2, <1>3
(* A page that is taken gets one use, a page given back had one.           *)
LEMMA TakeExact ==
    ASSUME OneOwner, Exact(Uses, taken), NEW p \in {NULL, Mem!alloc_mem_page}, Take(p),
           UNCHANGED other, NEW k0 \in Kinds, NEW d0 \in Int, NEW n0 \in Int,
           Adds(p, k0, d0, n0)
    PROVE  Exact(Uses', taken')
<1>1. p \in Int /\ (p # NULL => p \notin taken)
  BY TakeAllowed
<1>2. CASE p = NULL
  <2>1. taken' = taken
    BY <1>2 DEF Take
  <2>2. Uses' = Uses
    BY <1>2, NullIs, UsesSame DEF Adds, Stays
  <2> QED BY <2>1, <2>2
<1>3. CASE p # NULL
  <2>1. taken' = taken \cup {p}
    BY <1>3 DEF Take
  <2>2. Uses' = Uses \cup {NewUse(p, k0, d0, n0)}
    BY <1>1, <1>3, NullIs, UsesMore
  <2>3. NewUse(p, k0, d0, n0).page = p
    BY DEF NewUse
  <2> QED BY <1>1, <1>3, <2>1, <2>2, <2>3, ExactMore
<1> QED BY <1>2, <1>3

LEMMA GiveExact ==
    ASSUME Exact(Uses, taken), NEW p \in Int \ {0}, taken' = taken \ {p},
           NEW k0 \in Kinds, NEW d0 \in Int, NEW n0 \in Int, Use(p, k0, d0, n0),
           Drops(p, k0, d0, n0)
    PROVE  Exact(Uses', taken')
<1>1. /\ NewUse(p, k0, d0, n0) \in Uses
      /\ Uses' = Uses \ {NewUse(p, k0, d0, n0)}
  BY UsesLess
<1>2. NewUse(p, k0, d0, n0).page = p
  BY DEF NewUse
<1> QED BY <1>1, <1>2, ExactLess

LEMMA SameExact ==
    ASSUME Exact(Uses, taken), taken' = taken,
           Stays
    PROVE  Exact(Uses', taken')
BY UsesSame

-----------------------------------------------------------------------------
(* Every step keeps one use for each page.                                 *)

Keeps == Exact(Uses', taken') /\ Owners' /\ Built'

LEMMA ProcType ==
    ASSUME Owners
    PROVE  \A i \in DOMAIN procs : /\ procs[i].dir \in Int
                                   /\ procs[i].pages \in Seq(Int)
                                   /\ procs[i].stack \in BOOLEAN
<1> DEFINE T == [dir : Int, pages : Seq(Int), stack : BOOLEAN]
<1>1. \A i \in DOMAIN procs : procs[i] \in T
  <2>1. procs \in Seq(T)
    BY DEF Owners
  <2> HIDE DEF T
  <2> QED BY <2>1, ElementOfSeq
<1> QED BY <1>1

LEMMA BeginUses == ASSUME UInv, Begin PROVE Keeps
<1> DEFINE p == Mem!alloc_mem_page
<1>1. /\ OneOwner /\ call \in CallType /\ dirs \in [DOMAIN dirs -> DirType]
      /\ Exact(Uses, taken) /\ Owners
      /\ call.pc = "idle" /\ p # NULL /\ Take(p) /\ UNCHANGED <<other, procs>>
      /\ dirs' = [d \in DOMAIN dirs \cup {p} |-> IF d = p THEN EmptyDir ELSE dirs[d]]
      /\ call' = [Idle EXCEPT !.pc = "info", !.dir = p]
  BY DEF UInv, PInv, Shape, Begin, At
<1>2. p \in Int \ {0} /\ p \notin taken
  BY <1>1, TakeAllowed, NullIs
<1>3. /\ call'.pc = "info" /\ call'.dir = p /\ call'.todo = 0 /\ call'.pages = <<>>
      /\ call'.stack
  BY <1>1 DEF Idle
<1>4. DOMAIN dirs \subseteq taken
  <2>1. ASSUME NEW d \in DOMAIN dirs PROVE d \in taken
    <3>1. d \in Int \ {0}
      BY <1>1 DEF Owners
    <3>2. NewUse(d, "dir", d, 0) \in Uses
      BY <3>1 DEF NewUse, Uses, Use, DirUse, Kinds
    <3> QED BY <1>1, <3>2 DEF Exact, NewUse
  <2> QED BY <2>1
<1>5. /\ DOMAIN dirs' = DOMAIN dirs \cup {p}
      /\ p \notin DOMAIN dirs
      /\ \A d \in DOMAIN dirs : dirs'[d] = dirs[d]
      /\ dirs'[p] = EmptyDir
  BY <1>1, <1>2, <1>4
<1>6. \A x \in Int \ {0}, d \in Int, n \in Int :
         /\ DirUse(x, d, n)' <=> DirUse(x, d, n) \/ (x = p /\ d = p /\ n = 0)
         /\ TableUse(x, d, n)' <=> TableUse(x, d, n)
  BY <1>2, <1>5, NullIs DEF DirUse, TableUse, Tables, EmptyDir
<1>7. \A x \in Int \ {0}, d \in Int, n \in Int : PageUse(x, d, n)' <=> PageUse(x, d, n)
  BY <1>1, <1>3 DEF PageUse, OfProcess, OfCall
<1>8. \A x \in Int \ {0}, d \in Int, n \in Int : StackUse(x, d, n)' <=> StackUse(x, d, n)
  <2>1. \A i \in DOMAIN procs : dirs'[procs[i].dir] = dirs[procs[i].dir]
    BY <1>1, <1>5 DEF Owners
  <2>2. \A x, d, n \in Int : ~ Growing(x, d, n) /\ ~ Growing(x, d, n)'
    BY <1>1, <1>3 DEF Growing
  <2>3. \A x, d, n \in Int : Whole(x, d, n)' <=> Whole(x, d, n)
    BY <1>1, <2>1 DEF Whole
  <2> QED BY <2>2, <2>3 DEF StackUse
<1>9. Adds(p, "dir", p, 0)
  BY <1>6, <1>7, <1>8, UseKinds DEF Kinds, Adds
<1>10. Exact(Uses', taken')
  <2>1. "dir" \in Kinds /\ 0 \in Int /\ p \in Int /\ p \in {NULL, Mem!alloc_mem_page}
    BY <1>2 DEF Kinds
  <2>2. OneOwner /\ Exact(Uses, taken) /\ Take(p) /\ UNCHANGED other
    BY <1>1
  <2> HIDE DEF p
  <2> QED BY <1>9, <2>1, <2>2, TakeExact
<1>11. Owners'
  BY <1>1, <1>2, <1>3, <1>5 DEF Owners
<1>12. Built'
  BY <1>3 DEF Built
<1> QED BY <1>10, <1>11, <1>12 DEF Keeps

(* The table is a new page, and there was none in its place.               *)
LEMMA CallerMapsUses == ASSUME UInv, CallerMaps PROVE Keeps
<1> DEFINE p == Mem!alloc_mem_page
           c == call.dir
           old == dirs[c]
<1>1. /\ OneOwner /\ Owners /\ Built /\ Exact(Uses, taken) /\ call \in CallType
      /\ call.pc = "info" /\ call.todo = 0 /\ p # NULL /\ Take(p)
      /\ UNCHANGED <<other, procs, call>> /\ c \in Int /\ c \in DOMAIN dirs /\ old \in DirType
  BY DEF UInv, PInv, Shape, CallType, CallerMaps, At
<1>2. PICK t \in DOMAIN old.table :
          old.table[t] = NULL /\ dirs' = [dirs EXCEPT ![c].table[t] = p]
  BY DEF CallerMaps
<1>3. t \in Tables /\ t \in Int
  <2>1. t \in Tables
    BY <1>1, <1>2 DEF DirType, Tables
  <2>2. PICK k \in Stack : t = Table(k)
    BY <2>1 DEF Tables
  <2>3. k \in Nat
    BY ProcessAssumption DEF Stack
  <2> QED BY <2>1, <2>2, <2>3, ProcessAssumption DEF Table
<1> DEFINE new == [old EXCEPT !.table[t] = p]
<1>4. /\ DOMAIN dirs' = DOMAIN dirs
      /\ \A d \in DOMAIN dirs : d # c => dirs'[d] = dirs[d]
      /\ dirs'[c] = new
  BY <1>1, <1>2
<1>5. /\ new.pte = old.pte
      /\ \A n \in Tables : new.table[n] = IF n = t THEN p ELSE old.table[n]
  BY <1>1, <1>3 DEF DirType, Tables
<1>6. p \in {NULL, Mem!alloc_mem_page} /\ "table" \in Kinds
  BY DEF Kinds
<1> HIDE DEF p, new
<1>7. \A x \in Int \ {0}, d, n \in Int :
         /\ DirUse(x, d, n)' <=> DirUse(x, d, n)
         /\ TableUse(x, d, n)' <=> TableUse(x, d, n) \/ (x = p /\ d = c /\ n = t)
  <2>1. \A x \in Int \ {0}, d, n \in Int : DirUse(x, d, n)' <=> DirUse(x, d, n)
    BY <1>4 DEF DirUse
  <2>2. ASSUME NEW x \in Int \ {0}, NEW d \in Int, NEW n \in Int, d # c
        PROVE  TableUse(x, d, n)' <=> TableUse(x, d, n)
    BY <1>4, <2>2 DEF TableUse
  <2>3. ASSUME NEW x \in Int \ {0}, NEW d \in Int, NEW n \in Int, d = c
        PROVE  TableUse(x, d, n)' <=> TableUse(x, d, n) \/ (x = p /\ n = t)
    <3>1. TableUse(x, d, n)' <=> n \in Tables /\ x = new.table[n]
      BY <1>1, <1>4, <2>3 DEF TableUse
    <3>2. TableUse(x, d, n) <=> n \in Tables /\ x = old.table[n]
      BY <1>1, <2>3 DEF TableUse
    <3> HIDE DEF old, c
    <3> QED BY <1>2, <1>3, <1>5, <3>1, <3>2, NullIs
  <2>4. \A x \in Int \ {0}, d, n \in Int :
           TableUse(x, d, n)' <=> TableUse(x, d, n) \/ (x = p /\ d = c /\ n = t)
    BY <2>2, <2>3
  <2> QED BY <2>1, <2>4
<1>8. \A x, d, n \in Int : PageUse(x, d, n)' <=> PageUse(x, d, n)
  BY <1>1 DEF PageUse, OfProcess, OfCall
<1>9. \A x, d, n \in Int : StackUse(x, d, n)' <=> StackUse(x, d, n)
  <2>1. \A i \in DOMAIN procs : dirs'[procs[i].dir] = dirs[procs[i].dir]
    BY <1>1, <1>4 DEF Owners
  <2>2. \A x, d, n \in Int : Whole(x, d, n)' <=> Whole(x, d, n)
    BY <1>1, <2>1 DEF Whole
  <2>3. \A x, d, n \in Int : ~ Growing(x, d, n) /\ ~ Growing(x, d, n)'
    BY <1>1 DEF Growing
  <2> QED BY <2>2, <2>3 DEF StackUse
<1>10. Adds(p, "table", c, t)
  BY <1>7, <1>8, <1>9, UseKinds DEF Adds, Kinds
<1>11. Exact(Uses', taken')
  <2> HIDE DEF c
  <2> QED BY <1>1, <1>3, <1>6, <1>10, TakeExact
<1>12. Owners' /\ Built'
  BY <1>1, <1>4 DEF Owners, Built
<1> QED BY <1>11, <1>12 DEF Keeps

(* A step that leaves the directories alone.                               *)
LEMMA DirsSame ==
    ASSUME dirs' = dirs
    PROVE  \A x, d, n \in Int : /\ DirUse(x, d, n)' <=> DirUse(x, d, n)
                                /\ TableUse(x, d, n)' <=> TableUse(x, d, n)
BY DEF DirUse, TableUse

(* A step within a call that leaves the directories and processes alone.   *)
LEMMA InCall ==
    ASSUME Owners, UNCHANGED <<dirs, procs>>, call.pc # "idle", call'.dir = call.dir
    PROVE  Owners' /\ \A x, d, n \in Int : /\ OfProcess(x, d, n)' <=> OfProcess(x, d, n)
                                           /\ Whole(x, d, n)' <=> Whole(x, d, n)
BY DEF Owners, OfProcess, Whole

(* A page is added to those of the call.                                   *)
LEMMA CallGets ==
    ASSUME UInv, PInv', NEW p \in {NULL, Mem!alloc_mem_page}, Take(p), UNCHANGED other,
           UNCHANGED <<dirs, procs>>, call.pc \notin {"idle", "map"},
           call'.pc \notin {"idle", "map"}, call'.dir = call.dir, call'.todo = call.todo,
           call'.pages = Append(call.pages, p), Built'
    PROVE  Keeps
<1> DEFINE m == Len(call.pages) + 1
<1>1. /\ call \in CallType /\ Owners /\ OneOwner /\ Exact(Uses, taken)
      /\ call.dir \in Int /\ call.pages \in Seq(Int) /\ m \in Int /\ m \notin DOMAIN call.pages
  BY DEF UInv, PInv, Shape, CallType
<1>2. p \in Int
  BY <1>1, TakeAllowed
<1>3. /\ DOMAIN call'.pages = DOMAIN call.pages \cup {m}
      /\ call'.pages[m] = p
      /\ \A n \in DOMAIN call.pages : call'.pages[n] = call.pages[n]
  BY <1>1, <1>2
<1> HIDE DEF m
<1>4. \A x, d, n \in Int :
         OfCall(x, d, n)' <=> OfCall(x, d, n) \/ (x = p /\ d = call.dir /\ n = m)
  BY <1>1, <1>3 DEF OfCall
<1>5. \A x, d, n \in Int : Growing(x, d, n)' <=> Growing(x, d, n)
  BY DEF Growing
<1>6. Owners' /\ \A x, d, n \in Int : /\ OfProcess(x, d, n)' <=> OfProcess(x, d, n)
                                      /\ Whole(x, d, n)' <=> Whole(x, d, n)
  BY <1>1, InCall
<1>7. \A x, d, n \in Int :
         /\ PageUse(x, d, n)' <=> PageUse(x, d, n) \/ (x = p /\ d = call.dir /\ n = m)
         /\ StackUse(x, d, n)' <=> StackUse(x, d, n)
  BY <1>4, <1>5, <1>6 DEF PageUse, StackUse
<1>8. Adds(p, "page", call.dir, m)
  <2>1. \A x, d, n \in Int : /\ DirUse(x, d, n)' <=> DirUse(x, d, n)
                             /\ TableUse(x, d, n)' <=> TableUse(x, d, n)
    BY DirsSame
  <2> QED BY <1>7, <2>1, UseKinds DEF Adds, Kinds
<1>9. "page" \in Kinds
  BY DEF Kinds
<1>10. Exact(Uses', taken')
  BY <1>1, <1>8, <1>9, TakeExact
<1> QED BY <1>6, <1>10 DEF Keeps

(* A step that changes nothing but the place of the call.                  *)
LEMMA CallMoves ==
    ASSUME UInv, taken' = taken, UNCHANGED <<dirs, procs>>,
           call.pc \notin {"idle", "map"}, call'.pc \notin {"idle", "map"},
           call'.dir = call.dir, call'.todo = call.todo, call'.pages = call.pages, Built'
    PROVE  Keeps
<1>1. Owners /\ Exact(Uses, taken)
  BY DEF UInv
<1>2. Owners' /\ \A x, d, n \in Int : /\ OfProcess(x, d, n)' <=> OfProcess(x, d, n)
                                      /\ Whole(x, d, n)' <=> Whole(x, d, n)
  BY <1>1, InCall
<1>3. \A x, d, n \in Int : /\ OfCall(x, d, n)' <=> OfCall(x, d, n)
                           /\ Growing(x, d, n)' <=> Growing(x, d, n)
  BY DEF OfCall, Growing
<1>4. \A x, d, n \in Int : /\ PageUse(x, d, n)' <=> PageUse(x, d, n)
                           /\ StackUse(x, d, n)' <=> StackUse(x, d, n)
  <2>1. \A x, d, n \in Int : PageUse(x, d, n)' <=> PageUse(x, d, n)
    BY <1>2, <1>3 DEF PageUse
  <2>2. \A x, d, n \in Int : StackUse(x, d, n)' <=> StackUse(x, d, n)
    BY <1>2, <1>3 DEF StackUse
  <2> QED BY <2>1, <2>2
<1>5. Stays
  <2>1. \A x, d, n \in Int : /\ DirUse(x, d, n)' <=> DirUse(x, d, n)
                             /\ TableUse(x, d, n)' <=> TableUse(x, d, n)
    BY DirsSame
  <2> QED BY <1>4, <2>1, UseKinds DEF Stays, Kinds
<1>6. Exact(Uses', taken')
  BY <1>1, <1>5, SameExact
<1> QED BY <1>2, <1>6 DEF Keeps

LEMMA NewInfoUses == ASSUME UInv, NewInfo PROVE Keeps
<1> DEFINE p == Mem!alloc_mem_page
<1>1. /\ PInv' /\ Owners /\ call.pc = "info" /\ call.pages = <<>> /\ call.todo = 0
      /\ call \in CallType /\ Take(p) /\ UNCHANGED <<other, dirs, procs>>
      /\ call' = IF p = NULL THEN Idle
                 ELSE [call EXCEPT !.pc = "kernel_stack", !.pages = <<p>>]
  BY NewInfoKeeps DEF UInv, Built, PInv, Shape, NewInfo, At
<1>2. CASE p = NULL
  <2>1. /\ taken' = taken
        /\ call'.pc = "idle" /\ call'.todo = 0 /\ call'.pages = <<>>
    BY <1>1, <1>2 DEF Take, Idle
  <2>2. \A x, d, n \in Int : /\ OfProcess(x, d, n)' <=> OfProcess(x, d, n)
                             /\ Whole(x, d, n)' <=> Whole(x, d, n)
    BY <1>1 DEF OfProcess, Whole
  <2>3. \A x, d, n \in Int : /\ ~ OfCall(x, d, n) /\ ~ OfCall(x, d, n)'
                             /\ ~ Growing(x, d, n) /\ ~ Growing(x, d, n)'
    BY <1>1, <2>1 DEF OfCall, Growing
  <2>4. \A x, d, n \in Int : /\ PageUse(x, d, n)' <=> PageUse(x, d, n)
                             /\ StackUse(x, d, n)' <=> StackUse(x, d, n)
    BY <2>2, <2>3 DEF PageUse, StackUse
  <2>5. Stays
    BY <1>1, <2>4, DirsSame, UseKinds DEF Stays, Kinds
  <2>6. Exact(Uses', taken')
    BY <2>1, <2>5, SameExact DEF UInv
  <2>7. Owners' /\ Built'
    BY <1>1, <2>1 DEF Owners, Built
  <2> QED BY <2>6, <2>7 DEF Keeps
<1>3. CASE p # NULL
  <2>1. call' = [call EXCEPT !.pc = "kernel_stack", !.pages = <<p>>]
    BY <1>1, <1>3
  <2>2. /\ call'.pc = "kernel_stack" /\ call'.dir = call.dir /\ call'.todo = call.todo
        /\ call'.pages = <<p>> /\ call'.stack
    BY <1>1, <2>1 DEF CallType, UInv, Built
  <2>3. call'.pages = Append(call.pages, p)
    BY <1>1, <2>2
  <2>4. Built'
    BY <2>2 DEF Built
  <2> QED BY <1>1, <2>2, <2>3, <2>4, CallGets
<1> QED BY <1>2, <1>3

LEMMA KernelStackUses == ASSUME UInv, KernelStack PROVE Keeps
<1>1. /\ PInv' /\ call.pc = "kernel_stack" /\ call \in CallType
      /\ UNCHANGED <<other, dirs, procs>>
  BY KernelStackKeeps DEF UInv, PInv, Shape, KernelStack, At
<1>2. PICK p \in {NULL, Mem!alloc_mem_page} :
         Take(p) /\ call' = [call EXCEPT !.pc = "page", !.pages = Append(@, p)]
  BY DEF KernelStack
<1>3. /\ call'.pc = "page" /\ call'.dir = call.dir /\ call'.todo = call.todo
      /\ call'.pages = Append(call.pages, p) /\ call'.stack = call.stack
  BY <1>1, <1>2 DEF CallType
<1>4. Built'
  BY <1>1, <1>3 DEF UInv, Built
<1> QED BY <1>1, <1>2, <1>3, <1>4, CallGets
(* What happens to the stack that is being built.                          *)
LEMMA CallGrows ==
    ASSUME UNCHANGED <<dirs, procs>>, Owners, call.pc # "idle", call'.pc # "idle",
           call'.dir = call.dir, call'.pages = call.pages,
           NEW p, NEW k0,
           (\A x, d, n \in Int : Growing(x, d, n)' <=> Growing(x, d, n)
                                    \/ (x = p /\ d = call.dir /\ n = k0))
    PROVE  Owners' /\ Adds(p, "stack", call.dir, k0)
<1>1. Owners' /\ \A x, d, n \in Int : /\ OfProcess(x, d, n)' <=> OfProcess(x, d, n)
                                      /\ Whole(x, d, n)' <=> Whole(x, d, n)
  BY InCall
<1>2. \A x, d, n \in Int : OfCall(x, d, n)' <=> OfCall(x, d, n)
  BY DEF OfCall
<1>3. \A x, d, n \in Int :
         /\ PageUse(x, d, n)' <=> PageUse(x, d, n)
         /\ StackUse(x, d, n)' <=> StackUse(x, d, n) \/ (x = p /\ d = call.dir /\ n = k0)
  BY <1>1, <1>2 DEF PageUse, StackUse
<1>4. \A x, d, n \in Int : /\ DirUse(x, d, n)' <=> DirUse(x, d, n)
                           /\ TableUse(x, d, n)' <=> TableUse(x, d, n)
  BY DirsSame
<1>5. ASSUME NEW x \in Int \ {0}, NEW k \in Kinds, NEW d \in Int, NEW n \in Int
      PROVE  Use(x, k, d, n)' <=> Use(x, k, d, n)
                                     \/ (x = p /\ k = "stack" /\ d = call.dir /\ n = k0)
  <2>1. CASE k = "stack"
    BY <1>3, <2>1, UseKinds
  <2>2. CASE k # "stack"
    BY <1>3, <1>4, <2>2, UseKinds DEF Kinds
  <2> QED BY <2>1, <2>2
<1>6. Adds(p, "stack", call.dir, k0)
  BY <1>5 DEF Adds
<1> QED BY <1>1, <1>6

LEMMA CallShrinks ==
    ASSUME UNCHANGED <<dirs, procs>>, Owners, call.pc # "idle", call'.pc # "idle",
           call'.dir = call.dir, call'.pages = call.pages,
           NEW p, NEW k0,
           (\A x, n \in Int : ~ Whole(x, call.dir, n)),
           (\A x, d, n \in Int : Growing(x, d, n)' <=> Growing(x, d, n)
                                    /\ ~ (x = p /\ d = call.dir /\ n = k0))
    PROVE  Owners' /\ Drops(p, "stack", call.dir, k0)
<1>1. Owners' /\ \A x, d, n \in Int : /\ OfProcess(x, d, n)' <=> OfProcess(x, d, n)
                                      /\ Whole(x, d, n)' <=> Whole(x, d, n)
  BY InCall
<1>2. \A x, d, n \in Int : OfCall(x, d, n)' <=> OfCall(x, d, n)
  BY DEF OfCall
<1>3. \A x, d, n \in Int :
         /\ PageUse(x, d, n)' <=> PageUse(x, d, n)
         /\ StackUse(x, d, n)' <=> StackUse(x, d, n) /\ ~ (x = p /\ d = call.dir /\ n = k0)
  BY <1>1, <1>2 DEF PageUse, StackUse
<1>4. \A x, d, n \in Int : /\ DirUse(x, d, n)' <=> DirUse(x, d, n)
                           /\ TableUse(x, d, n)' <=> TableUse(x, d, n)
  BY DirsSame
<1>5. ASSUME NEW x \in Int \ {0}, NEW k \in Kinds, NEW d \in Int, NEW n \in Int
      PROVE  Use(x, k, d, n)' <=> Use(x, k, d, n)
                                     /\ ~ (x = p /\ k = "stack" /\ d = call.dir /\ n = k0)
  <2>1. CASE k = "stack"
    BY <1>3, <2>1, UseKinds
  <2>2. CASE k # "stack"
    BY <1>3, <1>4, <2>2, UseKinds DEF Kinds
  <2> QED BY <2>1, <2>2
<1>6. Drops(p, "stack", call.dir, k0)
  BY <1>5 DEF Drops
<1> QED BY <1>1, <1>6

LEMMA NotWhole ==
    ASSUME Owners, call.pc # "idle"
    PROVE  \A x, n \in Int : ~ Whole(x, call.dir, n)
BY DEF Owners, Whole

LEMMA StackPageUses == ASSUME UInv, StackPage PROVE Keeps
<1> DEFINE p == Mem!alloc_mem_page
           k == call.todo
<1>1. /\ OneOwner /\ Owners /\ Built /\ Exact(Uses, taken) /\ call \in CallType
      /\ call.pc = "page" /\ Take(p) /\ UNCHANGED <<other, dirs, procs>>
      /\ call.dir \in Int /\ k \in 0 .. StackPages /\ k \in Int
      /\ call' = IF p = NULL THEN [call EXCEPT !.pc = "undo", !.stack = FALSE]
                             ELSE [call EXCEPT !.pc = "map", !.frame = p]
  BY ProcessAssumption DEF UInv, PInv, Shape, CallType, StackPage, At
<1>2. /\ call'.dir = call.dir /\ call'.todo = k /\ call'.pages = call.pages
      /\ IF p = NULL THEN call'.pc = "undo" /\ ~ call'.stack
         ELSE call'.pc = "map" /\ call'.frame = p /\ call'.stack
  <2>1. CASE p = NULL
    BY <1>1, <2>1 DEF CallType
  <2>2. CASE p # NULL
    BY <1>1, <2>2 DEF CallType, Built
  <2> QED BY <2>1, <2>2
<1>3. Built'
  BY <1>2 DEF Built
<1>4. CASE p = NULL
  <2>1. taken' = taken
    BY <1>1, <1>4 DEF Take
  <2> QED BY <1>1, <1>2, <1>3, <1>4, <2>1, CallMoves
<1>5. CASE p # NULL
  <2>1. \A x, d, n \in Int : Growing(x, d, n)' <=> Growing(x, d, n)
                                \/ (x = p /\ d = call.dir /\ n = k)
    BY <1>1, <1>2, <1>5 DEF Growing
  <2>2. Owners' /\ Adds(p, "stack", call.dir, k)
    BY <1>1, <1>2, <1>5, <2>1, CallGrows
  <2>3. "stack" \in Kinds
    BY DEF Kinds
  <2>4. Exact(Uses', taken')
    <3> HIDE DEF p, k
    <3>1. p \in {NULL, Mem!alloc_mem_page}
      BY DEF p
    <3> QED BY <1>1, <2>2, <2>3, <3>1, TakeExact
  <2> QED BY <1>3, <2>2, <2>4 DEF Keeps
<1> QED BY <1>4, <1>5

LEMMA MapFailsUses == ASSUME UInv, MapFails PROVE Keeps
<1> DEFINE p == call.frame
           k == call.todo
<1>1. /\ OneOwner /\ Owners /\ Exact(Uses, taken) /\ call \in CallType
      /\ call.pc = "map" /\ Give(p) /\ UNCHANGED <<other, dirs, procs>> /\ p \in taken
      /\ call.dir \in Int /\ k \in 0 .. StackPages /\ k \in Int
      /\ call' = [call EXCEPT !.pc = "undo", !.frame = NULL, !.stack = FALSE]
  BY ProcessAssumption DEF UInv, PInv, Shape, InHand, CallType, MapFails, At
<1>2. /\ call'.dir = call.dir /\ call'.todo = k /\ call'.pages = call.pages
      /\ call'.pc = "undo" /\ ~ call'.stack
  BY <1>1 DEF CallType
<1>3. p \in Int \ {0}
  BY <1>1, ManagedPagesType, NullIs DEF OneOwner
<1>4. Use(p, "stack", call.dir, k)
  <2>1. Growing(p, call.dir, k)
    BY <1>1 DEF Growing
  <2> QED BY <1>1, <1>3, <2>1, UseKinds DEF StackUse
<1>5. \A x, d, n \in Int : Growing(x, d, n)' <=> Growing(x, d, n)
                              /\ ~ (x = p /\ d = call.dir /\ n = k)
  BY <1>1, <1>2 DEF Growing
<1>6. \A x, n \in Int : ~ Whole(x, call.dir, n)
  BY <1>1, NotWhole
<1>7. Owners' /\ Drops(p, "stack", call.dir, k)
  BY <1>1, <1>2, <1>5, <1>6, CallShrinks
<1>8. taken' = taken \ {p} /\ "stack" \in Kinds
  BY <1>1 DEF Give, Kinds
<1>9. Exact(Uses', taken')
  <2> HIDE DEF p, k
  <2> QED BY <1>1, <1>3, <1>4, <1>7, <1>8, GiveExact
<1>10. Built'
  BY <1>2 DEF Built
<1> QED BY <1>7, <1>9, <1>10 DEF Keeps

LEMMA UndoUses == ASSUME UInv, Undo PROVE Keeps
<1> DEFINE k == call.todo - 1
           p == dirs[call.dir].pte[k]
<1>1. /\ OneOwner /\ Owners /\ Built /\ Exact(Uses, taken) /\ call \in CallType
      /\ call.pc = "undo" /\ UNCHANGED <<other, dirs, procs>>
      /\ call.dir \in Int /\ call.todo \in 0 .. StackPages /\ k \in 0 .. call.todo - 1 /\ k \in Int
      /\ call' = [call EXCEPT !.todo = @ - 1]
  BY ProcessAssumption DEF UInv, PInv, Shape, CallType, Undo, At
<1>2. p \in taken /\ p \in Int \ {0}
  BY <1>1, ManagedPagesType, NullIs DEF UInv, PInv, OneOwner, InHand, Mapped
<1>3. Give(p)
  BY <1>2, NullIs DEF Undo, UndoAt
<1>4. /\ call'.dir = call.dir /\ call'.todo = k /\ call'.pages = call.pages
      /\ call'.pc = "undo" /\ ~ call'.stack
  BY <1>1 DEF CallType, Built
<1>5. Use(p, "stack", call.dir, k)
  <2>1. Growing(p, call.dir, k)
    BY <1>1 DEF Growing
  <2> QED BY <1>1, <1>2, <2>1, UseKinds DEF StackUse
<1>6. \A x, d, n \in Int : Growing(x, d, n)' <=> Growing(x, d, n)
                              /\ ~ (x = p /\ d = call.dir /\ n = k)
  <2>1. \A n \in Int : n \in 0 .. k - 1 <=> n \in 0 .. call.todo - 1 /\ n # k
    BY <1>1
  <2>2. \A x, d, n \in Int :
           Growing(x, d, n)' <=> d = call.dir /\ n \in 0 .. k - 1 /\ x = dirs[d].pte[n]
    BY <1>1, <1>4 DEF Growing
  <2>3. \A x, d, n \in Int :
           Growing(x, d, n) <=> d = call.dir /\ n \in 0 .. call.todo - 1 /\ x = dirs[d].pte[n]
    BY <1>1 DEF Growing
  <2> QED BY <2>1, <2>2, <2>3
<1>7. \A x, n \in Int : ~ Whole(x, call.dir, n)
  BY <1>1, NotWhole
<1> HIDE DEF p, k
<1>8. Owners' /\ Drops(p, "stack", call.dir, k)
  BY <1>1, <1>4, <1>6, <1>7, CallShrinks
<1>9. taken' = taken \ {p} /\ "stack" \in Kinds
  BY <1>3 DEF Give, Kinds
<1>10. Exact(Uses', taken')
  BY <1>1, <1>2, <1>5, <1>8, <1>9, GiveExact
<1>11. Built'
  BY <1>4 DEF Built
<1> QED BY <1>8, <1>10, <1>11 DEF Keeps
(* The page in hand becomes mapped, and a page table may be added.         *)
LEMMA MapPageUses == ASSUME UInv, MapPage PROVE Keeps
<1> DEFINE k == call.todo
           t == dirs[call.dir].table[Table(k)]
           p == IF t = NULL THEN Mem!alloc_mem_page ELSE NULL
           q == IF t = NULL THEN p ELSE t
           old == dirs[call.dir]
           new == [old EXCEPT !.pte[k] = call.frame, !.table[Table(k)] = q]
<1>1. /\ OneOwner /\ Owners /\ Built /\ Exact(Uses, taken) /\ call \in CallType
      /\ call.pc = "map" /\ Take(p) /\ UNCHANGED <<other, procs>>
      /\ call.dir \in Int /\ call.dir \in DOMAIN dirs
      /\ k \in Stack /\ k \in Nat /\ k < StackPages
      /\ old \in DirType
      /\ dirs' = [dirs EXCEPT ![call.dir].pte[k] = call.frame,
                              ![call.dir].table[Table(k)] = q]
      /\ call' = [call EXCEPT !.pc = "page", !.todo = @ + 1, !.frame = NULL]
  BY ProcessAssumption DEF UInv, PInv, Shape, InHand, CallType, MapPage, MapAt, At, Stack
<1>2. Table(k) \in Tables /\ Table(k) \in Int
  BY <1>1, ProcessAssumption DEF Tables, Table
<1>3. /\ DOMAIN dirs' = DOMAIN dirs
      /\ \A d \in DOMAIN dirs : d # call.dir => dirs'[d] = dirs[d]
      /\ dirs'[call.dir] = new
  BY <1>1
<1>4. /\ \A n \in Stack : new.pte[n] = IF n = k THEN call.frame ELSE old.pte[n]
      /\ \A n \in Tables : new.table[n] = IF n = Table(k) THEN q ELSE old.table[n]
  BY <1>1, <1>2 DEF DirType, Tables
<1>5. /\ call'.dir = call.dir /\ call'.pages = call.pages /\ call'.pc = "page"
      /\ call'.todo = k + 1 /\ call'.stack
  BY <1>1 DEF CallType, Built
<1>6. p \in {NULL, Mem!alloc_mem_page} /\ "table" \in Kinds
  BY DEF Kinds
<1>7. /\ old.table[Table(k)] = t
      /\ t # NULL => q = t /\ p = NULL
      /\ t = NULL => q = p
  OBVIOUS
<1> HIDE DEF k, t, p, q, old, new
<1>8. \A x \in Int \ {0}, d, n \in Int :
         /\ DirUse(x, d, n)' <=> DirUse(x, d, n)
         /\ TableUse(x, d, n)' <=> TableUse(x, d, n) \/ (x = p /\ d = call.dir /\ n = Table(k))
  <2>1. \A x \in Int \ {0}, d, n \in Int : DirUse(x, d, n)' <=> DirUse(x, d, n)
    BY <1>3 DEF DirUse
  <2>2. ASSUME NEW x \in Int \ {0}, NEW d \in Int, NEW n \in Int, d # call.dir
        PROVE  TableUse(x, d, n)' <=> TableUse(x, d, n)
    BY <1>3, <2>2 DEF TableUse
  <2>3. ASSUME NEW x \in Int \ {0}, NEW n \in Int
        PROVE  TableUse(x, call.dir, n)' <=> TableUse(x, call.dir, n) \/ (x = p /\ n = Table(k))
    <3>1. TableUse(x, call.dir, n)' <=> n \in Tables /\ x = new.table[n]
      BY <1>1, <1>3 DEF TableUse
    <3>2. TableUse(x, call.dir, n) <=> n \in Tables /\ x = old.table[n]
      BY <1>1 DEF TableUse, old
    <3> QED BY <1>2, <1>4, <1>7, <3>1, <3>2, NullIs
  <2>4. \A x \in Int \ {0}, d, n \in Int :
           TableUse(x, d, n)' <=> TableUse(x, d, n) \/ (x = p /\ d = call.dir /\ n = Table(k))
    BY <1>1, <2>2, <2>3
  <2> QED BY <2>1, <2>4
<1>9. \A x, d, n \in Int : PageUse(x, d, n)' <=> PageUse(x, d, n)
  BY <1>1, <1>5 DEF PageUse, OfProcess, OfCall
<1>10. \A x, d, n \in Int : StackUse(x, d, n)' <=> StackUse(x, d, n)
  <2>1. \A x, d, n \in Int : Whole(x, d, n)' <=> Whole(x, d, n)
    <3>1. \A i \in DOMAIN procs : procs[i].dir \in DOMAIN dirs /\ procs[i].dir # call.dir
      BY <1>1 DEF Owners
    <3>2. \A i \in DOMAIN procs : dirs'[procs[i].dir] = dirs[procs[i].dir]
      BY <1>3, <3>1
    <3> QED BY <1>1, <3>2 DEF Whole
  <2>2. /\ \A n \in Int : n \in 0 .. (k + 1) - 1 <=> n \in 0 .. k - 1 \/ n = k
        /\ \A n \in 0 .. k - 1 : n \in Stack /\ n # k
    BY <1>1, ProcessAssumption DEF Stack
  <2>3. \A x, d, n \in Int :
           Growing(x, d, n)' <=> d = call.dir /\ n \in 0 .. (k + 1) - 1 /\ x = new.pte[n]
    BY <1>3, <1>5 DEF Growing
  <2>4. \A x, d, n \in Int :
           Growing(x, d, n) <=> /\ d = call.dir
                                /\ \/ n \in 0 .. k - 1 /\ x = old.pte[n]
                                   \/ n = k /\ x = call.frame
    BY <1>1 DEF Growing, old, k
  <2>5. new.pte[k] = call.frame /\ \A n \in 0 .. k - 1 : new.pte[n] = old.pte[n]
    BY <1>1, <1>4, <2>2
  <2>6. \A x, d, n \in Int : Growing(x, d, n)' <=> Growing(x, d, n)
    BY <2>2, <2>3, <2>4, <2>5
  <2> QED BY <2>1, <2>6 DEF StackUse
<1>11. Adds(p, "table", call.dir, Table(k))
  BY <1>8, <1>9, <1>10, UseKinds DEF Adds, Kinds
<1>12. Exact(Uses', taken')
  BY <1>1, <1>2, <1>6, <1>11, TakeExact
<1>13. Owners' /\ Built'
  BY <1>1, <1>3, <1>5 DEF Owners, Built
<1> QED BY <1>12, <1>13 DEF Keeps

LEMMA StackDoneUses == ASSUME UInv, StackDone PROVE Keeps
<1>1. /\ Built /\ call \in CallType
      /\ \/ call.pc = "page" /\ call.todo = StackPages
         \/ call.pc = "undo" /\ call.todo = 0
      /\ UNCHANGED <<taken, dirs, procs>>
      /\ call' = [call EXCEPT !.pc = "esp0"]
  BY DEF UInv, PInv, Shape, StackDone, At
<1>2. /\ call'.pc = "esp0" /\ call'.dir = call.dir /\ call'.todo = call.todo
      /\ call'.pages = call.pages /\ call'.stack = call.stack
  BY <1>1 DEF CallType
<1>3. Built'
  BY <1>1, <1>2 DEF Built
<1> QED BY <1>1, <1>2, <1>3, CallMoves

LEMMA FirstTssStackUses == ASSUME UInv, TssStack("esp0") PROVE Keeps
<1> DEFINE p == Mem!alloc_mem_page
<1>1. /\ PInv' /\ Built /\ call \in CallType /\ call.pc = "esp0"
      /\ Take(p) /\ UNCHANGED <<other, dirs, procs>>
      /\ call' = [call EXCEPT !.pc = "esp", !.pages = Append(call.pages, p)]
  BY TssStackKeeps DEF UInv, PInv, Shape, TssStack, At
<1>2. /\ call'.pc = "esp" /\ call'.dir = call.dir /\ call'.todo = call.todo
      /\ call'.pages = Append(call.pages, p) /\ call'.stack = call.stack
  BY <1>1 DEF CallType
<1>3. Built'
  BY <1>1, <1>2 DEF Built
<1> QED BY <1>1, <1>2, <1>3, CallGets

(* The process is created: what was the call's is its own.                 *)
LEMMA LastTssStackUses == ASSUME UInv, TssStack("esp") PROVE Keeps
<1> DEFINE p == Mem!alloc_mem_page
           pages == Append(call.pages, p)
           new == [dir |-> call.dir, pages |-> pages, stack |-> call.stack]
           m == Len(call.pages) + 1
           T == [dir : Int, pages : Seq(Int), stack : BOOLEAN]
           z == Len(procs) + 1
<1>1. /\ OneOwner /\ Owners /\ Built /\ Exact(Uses, taken) /\ call \in CallType
      /\ call.pc = "esp" /\ Take(p) /\ UNCHANGED <<other, dirs>>
      /\ call.dir \in Int /\ call.dir \in DOMAIN dirs /\ call.pages \in Seq(Int)
      /\ call.stack \in BOOLEAN
      /\ call' = Idle /\ procs' = Append(procs, new)
  BY DEF UInv, PInv, Shape, CallType, TssStack, At
<1>2. call'.pc = "idle"
  BY <1>1 DEF Idle
<1>3. p \in Int
  BY <1>1, TakeAllowed
<1>4. /\ pages \in Seq(Int) /\ m \in Int
      /\ DOMAIN pages = DOMAIN call.pages \cup {m} /\ m \notin DOMAIN call.pages
      /\ pages[m] = p /\ \A n \in DOMAIN call.pages : pages[n] = call.pages[n]
  BY <1>1, <1>3
<1>5. new \in T /\ new.dir = call.dir /\ new.pages = pages /\ new.stack = call.stack
  BY <1>1, <1>4
<1>6. procs \in Seq(T)
  BY <1>1 DEF Owners
<1> HIDE DEF T, new, pages, m, p
<1>7. /\ procs' \in Seq(T)
      /\ DOMAIN procs' = DOMAIN procs \cup {z} /\ z \notin DOMAIN procs
      /\ procs'[z] = new /\ \A i \in DOMAIN procs : procs'[i] = procs[i]
  BY <1>1, <1>5, <1>6
<1> HIDE DEF z
<1>8. \A x, d, n \in Int :
         PageUse(x, d, n)' <=> PageUse(x, d, n) \/ (x = p /\ d = call.dir /\ n = m)
  <2>1. \A x, d, n \in Int :
           OfProcess(x, d, n)' <=> OfProcess(x, d, n)
                                      \/ (d = call.dir /\ n \in DOMAIN pages /\ x = pages[n])
    BY <1>5, <1>7 DEF OfProcess
  <2>2. \A x, d, n \in Int : OfCall(x, d, n) <=> d = call.dir /\ n \in DOMAIN call.pages
                                                    /\ x = call.pages[n]
    BY <1>1 DEF OfCall
  <2>3. \A x, d, n \in Int : ~ OfCall(x, d, n)'
    BY <1>2 DEF OfCall
  <2> QED BY <1>4, <2>1, <2>2, <2>3 DEF PageUse
<1>9. \A x, d, n \in Int : StackUse(x, d, n)' <=> StackUse(x, d, n)
  <2>1. \A x, d, n \in Int :
           Whole(x, d, n)' <=> \/ Whole(x, d, n)
                               \/ d = call.dir /\ call.stack /\ n \in Stack /\ x = dirs[d].pte[n]
    <3>1. dirs' = dirs
      BY <1>1
    <3> SUFFICES ASSUME NEW x \in Int, NEW d \in Int, NEW n \in Int
                 PROVE  Whole(x, d, n)' <=>
                           \/ Whole(x, d, n)
                           \/ d = call.dir /\ call.stack /\ n \in Stack /\ x = dirs[d].pte[n]
      OBVIOUS
    <3> DEFINE Has(proc) == proc.dir = d /\ proc.stack /\ n \in Stack /\ x = dirs[d].pte[n]
    <3>2. Whole(x, d, n)' <=> \E i \in DOMAIN procs' : Has(procs'[i])
      BY <3>1 DEF Whole
    <3>3. Whole(x, d, n) <=> \E i \in DOMAIN procs : Has(procs[i])
      BY DEF Whole
    <3>4. Has(new) <=> d = call.dir /\ call.stack /\ n \in Stack /\ x = dirs[d].pte[n]
      BY <1>5
    <3> HIDE DEF Has
    <3>5. (\E i \in DOMAIN procs' : Has(procs'[i])) <=>
             (\E i \in DOMAIN procs : Has(procs[i])) \/ Has(new)
      BY <1>7
    <3> QED BY <3>2, <3>3, <3>4, <3>5
  <2>2. \A n \in Int : n \in 0 .. call.todo - 1 <=> call.stack /\ n \in Stack
    BY <1>1, ProcessAssumption DEF Built, Stack
  <2>3. \A x, d, n \in Int :
           Growing(x, d, n) <=> d = call.dir /\ n \in 0 .. call.todo - 1 /\ x = dirs[d].pte[n]
    BY <1>1 DEF Growing
  <2>4. \A x, d, n \in Int : ~ Growing(x, d, n)'
    BY <1>2 DEF Growing
  <2> QED BY <2>1, <2>2, <2>3, <2>4 DEF StackUse
<1>10. Adds(p, "page", call.dir, m)
  <2>1. \A x, d, n \in Int : /\ DirUse(x, d, n)' <=> DirUse(x, d, n)
                             /\ TableUse(x, d, n)' <=> TableUse(x, d, n)
    BY <1>1, DirsSame
  <2> QED BY <1>8, <1>9, <2>1, UseKinds DEF Adds, Kinds
<1>11. Exact(Uses', taken')
  <2>1. p \in {NULL, Mem!alloc_mem_page} /\ "page" \in Kinds
    BY DEF p, Kinds
  <2> QED BY <1>1, <1>4, <1>10, <2>1, TakeExact
<1>12. Owners'
  <2>1. procs' \in Seq([dir : Int, pages : Seq(Int), stack : BOOLEAN])
    BY <1>7 DEF T
  <2>2. \A i \in DOMAIN procs : procs[i].dir \in DOMAIN dirs /\ procs[i].dir # call.dir
    BY <1>1 DEF Owners
  <2>3. \A i, j \in DOMAIN procs : i # j => procs[i].dir # procs[j].dir
    BY <1>1 DEF Owners
  <2>4. \A i \in DOMAIN procs' : procs'[i].dir \in DOMAIN dirs
    BY <1>1, <1>5, <1>7, <2>2
  <2>5. \A i, j \in DOMAIN procs' : i # j => procs'[i].dir # procs'[j].dir
    BY <1>5, <1>7, <2>2, <2>3
  <2>6. DOMAIN dirs \subseteq Int \ {0}
    BY <1>1 DEF Owners
  <2> QED BY <1>1, <1>2, <2>1, <2>4, <2>5, <2>6 DEF Owners
<1>13. Built'
  BY <1>2 DEF Built
<1> QED BY <1>11, <1>12, <1>13 DEF Keeps

LEMMA RestUses ==
    ASSUME UInv, UNCHANGED <<taken, dirs, procs, call>>
    PROVE  Keeps
<1>1. Uses' = Uses
  BY DEF Uses, Use, DirUse, TableUse, PageUse, OfProcess, OfCall, StackUse, Whole, Growing
<1> QED BY <1>1 DEF UInv, Keeps, Owners, Built
LEMMA InitUses == ASSUME Init PROVE UInv
<1>1. PInv
  BY InitKeeps
<1>2. Uses = {} /\ taken = {}
  BY DEF Init, Idle, Uses, Use, DirUse, TableUse, PageUse, OfProcess, OfCall, StackUse, Whole,
         Growing
<1>3. Exact(Uses, taken)
  BY <1>2 DEF Exact
<1>4. procs = <<>> /\ dirs = <<>> /\ call.pc = "idle"
  BY DEF Init, Idle
<1>5. Owners
  <2>1. DOMAIN dirs = {} /\ DOMAIN procs = {}
    BY <1>4
  <2>2. procs \in Seq([dir : Int, pages : Seq(Int), stack : BOOLEAN])
    BY <1>4, EmptySeq
  <2> QED BY <1>4, <2>1, <2>2 DEF Owners
<1>6. Built
  BY <1>4 DEF Built
<1> QED BY <1>1, <1>3, <1>5, <1>6 DEF UInv

LEMMA NextUses == ASSUME UInv, [Next]_vars PROVE UInv'
<1>1. PInv'
  BY NextKeeps DEF UInv
<1>2. Keeps
  <2>1. CASE UNCHANGED vars \/ OtherAlloc \/ OtherFree
    <3>1. UNCHANGED <<taken, dirs, procs, call>>
      BY <2>1 DEF vars, OtherAlloc, OtherFree
    <3> QED BY <3>1, RestUses
  <2>2. CASE Begin
    BY <2>2, BeginUses
  <2>3. CASE process_create
    BY <2>3, NewInfoUses, KernelStackUses, StackPageUses, MapPageUses, MapFailsUses, UndoUses,
       StackDoneUses, FirstTssStackUses, LastTssStackUses DEF process_create
  <2>4. CASE CallerMaps
    BY <2>4, CallerMapsUses
  <2> QED BY <2>1, <2>2, <2>3, <2>4 DEF Next
<1> QED BY <1>1, <1>2 DEF UInv, Keeps

(* Between calls, the uses are those FramesAccounted lists.                *)
LEMMA UsesListed == UInv => FramesAccounted
<1> SUFFICES ASSUME UInv, call.pc = "idle" PROVE FramesAccounted
  BY DEF FramesAccounted
<1> DEFINE infos  == UNION {ToSet(procs[i].pages) : i \in DOMAIN procs}
           stacks == UNION {StackFrames(procs[i].dir) :
                              i \in {j \in DOMAIN procs : procs[j].stack}}
           tables == UNION {{dirs[d].table[Table(k)] : k \in Stack} : d \in DOMAIN dirs}
           all == (DOMAIN dirs \cup infos \cup stacks \cup tables) \ {NULL}
<1>1. /\ Exact(Uses, taken) /\ Owners /\ dirs \in [DOMAIN dirs -> DirType]
      /\ DOMAIN dirs \subseteq Int \ {0}
      /\ \A i \in DOMAIN procs : procs[i].dir \in DOMAIN dirs /\ procs[i].pages \in Seq(Int)
  BY ProcType DEF UInv, PInv, Shape, Owners
<1>2. \A x : x \in infos <=> \E i \in DOMAIN procs : \E n \in DOMAIN procs[i].pages :
                                x = procs[i].pages[n]
  BY DEF ToSet
<1>3. \A x : x \in stacks <=> \E i \in DOMAIN procs : procs[i].stack /\ \E n \in Stack :
                                x = dirs[procs[i].dir].pte[n]
  BY DEF StackFrames
<1>4. \A x : x \in tables <=> \E d \in DOMAIN dirs : \E n \in Tables : x = dirs[d].table[n]
  BY DEF Tables
<1>5. Stack \subseteq Int /\ Tables \subseteq Int
  BY ProcessAssumption DEF Stack, Tables, Table
<1>6. ASSUME NEW x \in taken PROVE x \in all
  <2>1. PICK u \in Uses : x = u.page
    BY <1>1 DEF Exact
  <2>2. x \in Int \ {0} /\ Use(x, u.kind, u.dir, u.n)
    BY <2>1 DEF Uses
  <2>3. CASE DirUse(x, u.dir, u.n)
    BY <2>2, <2>3, NullIs DEF DirUse
  <2>4. CASE TableUse(x, u.dir, u.n)
    BY <1>4, <2>2, <2>4, NullIs DEF TableUse
  <2>5. CASE PageUse(x, u.dir, u.n)
    BY <1>2, <2>2, <2>5, NullIs DEF PageUse, OfProcess, OfCall
  <2>6. CASE StackUse(x, u.dir, u.n)
    <3>1. x \in stacks
      BY <1>3, <2>6 DEF StackUse, Whole, Growing
    <3> QED BY <2>2, <3>1, NullIs
  <2> QED BY <2>2, <2>3, <2>4, <2>5, <2>6 DEF Use
<1>7. ASSUME NEW x \in Int \ {0}, NEW k \in Kinds, NEW d \in Int, NEW n \in Int, Use(x, k, d, n)
      PROVE  x \in taken
  <2>1. NewUse(x, k, d, n) \in Uses
    BY <1>7 DEF NewUse, Uses
  <2> QED BY <1>1, <2>1 DEF Exact, NewUse
<1>8. \A x \in all : x # 0
  BY NullIs
<1>9. ASSUME NEW x \in all PROVE x \in taken
  <2>1. CASE x \in DOMAIN dirs
    <3>1. Use(x, "dir", x, 0) /\ x \in Int \ {0}
      BY <1>1, <2>1 DEF Use, DirUse
    <3> QED BY <1>7, <3>1 DEF Kinds
  <2>2. CASE x \in infos
    <3>0. PICK i \in DOMAIN procs : \E n \in DOMAIN procs[i].pages : x = procs[i].pages[n]
      BY <1>2, <2>2
    <3>1. PICK n \in DOMAIN procs[i].pages : x = procs[i].pages[n]
      BY <3>0
    <3>2. x \in Int \ {0} /\ procs[i].dir \in Int /\ n \in Int
      BY <1>1, <3>1, NullIs
    <3>3. Use(x, "page", procs[i].dir, n)
      BY <3>1 DEF Use, PageUse, OfProcess
    <3> QED BY <1>7, <3>2, <3>3 DEF Kinds
  <2>3. CASE x \in stacks
    <3>1. PICK i \in DOMAIN procs : procs[i].stack /\ \E n \in Stack : x = dirs[procs[i].dir].pte[n]
      BY <1>3, <2>3
    <3>2. PICK n \in Stack : x = dirs[procs[i].dir].pte[n]
      BY <3>1
    <3>3. x \in Int \ {0} /\ procs[i].dir \in Int /\ n \in Int
      <4>1. dirs[procs[i].dir] \in DirType /\ procs[i].dir \in Int
        BY <1>1
      <4>2. dirs[procs[i].dir].pte[n] \in Int
        BY <4>1 DEF DirType
      <4> QED BY <1>5, <1>8, <3>2, <4>1, <4>2
    <3>4. Use(x, "stack", procs[i].dir, n)
      BY <3>1, <3>2 DEF Use, StackUse, Whole
    <3> QED BY <1>7, <3>3, <3>4 DEF Kinds
  <2>4. CASE x \in tables
    <3>1. PICK d \in DOMAIN dirs : \E n \in Tables : x = dirs[d].table[n]
      BY <1>4, <2>4
    <3>2. PICK n \in Tables : x = dirs[d].table[n]
      BY <3>1
    <3>3. x \in Int \ {0} /\ d \in Int /\ n \in Int
      <4>1. dirs[d] \in DirType /\ d \in Int
        BY <1>1
      <4>2. dirs[d].table[n] \in Int
        BY <4>1 DEF DirType, Tables
      <4> QED BY <1>5, <1>8, <3>2, <4>1, <4>2
    <3>4. Use(x, "table", d, n)
      BY <3>2 DEF Use, TableUse
    <3> QED BY <1>7, <3>3, <3>4 DEF Kinds
  <2> QED BY <2>1, <2>2, <2>3, <2>4
<1>10. taken = all
  BY <1>6, <1>9
<1> QED BY <1>10 DEF FramesAccounted
LEMMA NextBacked == ASSUME UInv, Backed, [Next]_vars PROVE Backed'
<1>1. /\ Owners /\ call \in CallType /\ dirs \in [DOMAIN dirs -> DirType]
      /\ Built /\ OneOwner
      /\ \A i \in DOMAIN procs : procs[i].dir \in DOMAIN dirs
      /\ call.pc # "idle" => \A i \in DOMAIN procs : procs[i].dir # call.dir
  BY DEF UInv, PInv, Shape, Owners
<1>2. CASE UNCHANGED vars \/ OtherAlloc \/ OtherFree
  BY <1>2 DEF vars, OtherAlloc, OtherFree, Backed, Mappings
<1>3. CASE Begin
  <2> DEFINE p == Mem!alloc_mem_page
  <2>1. /\ p \in bitmap /\ UNCHANGED procs /\ call'.pc = "info"
        /\ dirs' = [d \in DOMAIN dirs \cup {p} |-> IF d = p THEN EmptyDir ELSE dirs[d]]
    BY <1>1, <1>3, AllocAnswers DEF OneOwner, Begin, Idle
  <2>2. p \notin DOMAIN dirs
    <3>1. ASSUME p \in DOMAIN dirs PROVE FALSE
      <4>1. p \in Int \ {0}
        BY <1>1, <3>1 DEF Owners
      <4>2. NewUse(p, "dir", p, 0) \in Uses
        BY <3>1, <4>1 DEF NewUse, Uses, Use, DirUse, Kinds
      <4>3. p \in taken
        BY <4>2 DEF UInv, Exact, NewUse
      <4> QED BY <1>1, <2>1, <4>3 DEF OneOwner
    <3> QED BY <3>1
  <2>3. \A i \in DOMAIN procs : dirs'[procs[i].dir] = dirs[procs[i].dir]
    BY <1>1, <2>1, <2>2
  <2>4. ASSUME NEW i \in DOMAIN procs, procs[i].stack, NEW n \in Stack
        PROVE  dirs'[procs[i].dir].pte[n] # 0
    <3>1. dirs[procs[i].dir].pte[n] # 0
      BY <2>4 DEF Backed, Mappings
    <3> QED BY <2>3, <3>1
  <2>5. \A i \in DOMAIN procs' : procs'[i].stack => \A n \in Stack : dirs'[procs'[i].dir].pte[n] # 0
    BY <2>1, <2>4
  <2>6. ~ (call'.pc \in {"esp0", "esp"})
    BY <2>1
  <2> QED BY <2>5, <2>6 DEF Backed, Mappings
<1>4. CASE NewInfo \/ KernelStack \/ StackPage \/ MapFails \/ Undo
  <2>1. UNCHANGED <<dirs, procs>>
    BY <1>4 DEF NewInfo, KernelStack, StackPage, MapFails, Undo
  <2>2. call'.pc \notin {"esp0", "esp"}
    <3>1. CASE NewInfo
      BY <1>1, <3>1 DEF NewInfo, CallType, Idle
    <3>2. CASE KernelStack
      BY <1>1, <3>2 DEF KernelStack, CallType
    <3>3. CASE StackPage
      BY <1>1, <3>3 DEF StackPage, CallType
    <3>4. CASE MapFails
      BY <1>1, <3>4 DEF MapFails, CallType
    <3>5. CASE Undo
      BY <1>1, <3>5 DEF Undo, CallType, At
    <3> QED BY <1>4, <3>1, <3>2, <3>3, <3>4, <3>5
  <2> QED BY <2>1, <2>2 DEF Backed, Mappings
<1>5. CASE MapPage \/ CallerMaps
  <2>1. /\ UNCHANGED procs /\ call.pc # "idle" /\ call'.pc \in {"page", "info"}
        /\ \A d \in DOMAIN dirs : d # call.dir => dirs'[d] = dirs[d]
    <3>1. CASE MapPage
      BY <1>1, <3>1 DEF MapPage, CallType, At
    <3>2. CASE CallerMaps
      BY <1>1, <3>2 DEF CallerMaps, CallType, At
    <3> QED BY <1>5, <3>1, <3>2
  <2>2. \A i \in DOMAIN procs : dirs'[procs[i].dir] = dirs[procs[i].dir]
    BY <1>1, <2>1
  <2> QED BY <2>1, <2>2 DEF Backed, Mappings
<1>6. CASE StackDone
  <2>1. /\ UNCHANGED <<dirs, procs>> /\ call'.dir = call.dir /\ call'.stack = call.stack
        /\ call.pc = "undo" \/ (call.pc = "page" /\ call.todo = StackPages)
    BY <1>1, <1>6 DEF StackDone, CallType, At
  <2>2. CASE call.pc = "undo"
    <3>1. ~ call'.stack
      BY <1>1, <2>1, <2>2 DEF Built
    <3> QED BY <2>1, <3>1 DEF Backed, Mappings
  <2>3. CASE call.pc = "page" /\ call.todo = StackPages
    <3>1. \A n \in Stack : dirs[call.dir].pte[n] \in taken
      BY <2>3 DEF UInv, PInv, InHand, Mapped, Stack
    <3>2. Mappings(call.dir)
      BY <1>1, <3>1, ManagedPagesType, NullIs DEF OneOwner, Mappings
    <3> QED BY <2>1, <3>2 DEF Backed, Mappings
  <2> QED BY <2>1, <2>2, <2>3
<1>7. CASE TssStack("esp0")
  <2>1. /\ UNCHANGED <<dirs, procs>> /\ call'.dir = call.dir /\ call'.stack = call.stack
        /\ call.pc = "esp0"
    BY <1>1, <1>7 DEF TssStack, CallType, At
  <2> QED BY <2>1 DEF Backed, Mappings
<1>9. CASE TssStack("esp")
  <2> DEFINE pages == Append(call.pages, Mem!alloc_mem_page)
             new == [dir |-> call.dir, pages |-> pages, stack |-> call.stack]
             z == Len(procs) + 1
  <2>1. /\ UNCHANGED dirs /\ call.pc = "esp" /\ call'.pc = "idle" /\ procs' = Append(procs, new)
    BY <1>1, <1>9 DEF TssStack, Idle, At
  <2>2. new.dir = call.dir /\ new.stack = call.stack
    OBVIOUS
  <2> HIDE DEF new
  <2>3. /\ DOMAIN procs' = DOMAIN procs \cup {z}
        /\ procs'[z] = new /\ \A i \in DOMAIN procs : procs'[i] = procs[i]
    BY <1>1, <2>1 DEF Owners
  <2> HIDE DEF z
  <2> QED BY <2>1, <2>2, <2>3 DEF Backed, Mappings
<1> QED BY <1>2, <1>3, <1>4, <1>5, <1>6, <1>7, <1>9 DEF Next, process_create

(* The pages of a process: those of its PROCESS_INFO, then its user stack. *)
All(i) == procs[i].pages \o [k \in 1 .. StackPages |-> dirs[procs[i].dir].pte[k - 1]]

WholeProcs == {i \in DOMAIN procs : procs[i].stack /\ NULL \notin ToSet(procs[i].pages)}

LEMMA PagesOfProcess ==
    ASSUME UInv, NEW i \in WholeProcs
    PROVE  \E m \in Nat :
              /\ DOMAIN procs[i].pages = 1 .. m
              /\ DOMAIN All(i) = 1 .. m + StackPages
              /\ \A n \in 1 .. m : All(i)[n] = procs[i].pages[n] /\ All(i)[n] \in Int
              /\ \A n \in m + 1 .. m + StackPages :
                    /\ n - m - 1 \in Stack
                    /\ All(i)[n] = dirs[procs[i].dir].pte[n - m - 1]
                    /\ All(i)[n] \in Int
<1> DEFINE user == [k \in 1 .. StackPages |-> dirs[procs[i].dir].pte[k - 1]]
           m == Len(procs[i].pages)
<1>1. /\ Owners /\ dirs \in [DOMAIN dirs -> DirType]
      /\ procs[i].dir \in DOMAIN dirs /\ procs[i].pages \in Seq(Int)
      /\ StackPages \in Nat /\ i \in DOMAIN procs
  BY ProcType, ProcessAssumption DEF UInv, PInv, Shape, Owners, WholeProcs
<1>2. ASSUME NEW k \in Stack PROVE dirs[procs[i].dir].pte[k] \in Int
  <2>1. dirs[procs[i].dir] \in DirType
    BY <1>1
  <2> QED BY <2>1 DEF DirType
<1>3. ASSUME NEW k \in 1 .. StackPages PROVE k - 1 \in Stack
  BY <1>1 DEF Stack
<1>4. user \in Seq(Int) /\ Len(user) = StackPages
  BY <1>1, <1>2, <1>3
<1>5. m \in Nat /\ DOMAIN procs[i].pages = 1 .. m
  BY <1>1
<1>6. /\ Len(procs[i].pages \o user) = m + StackPages
      /\ procs[i].pages \o user \in Seq(Int)
      /\ \A n \in 1 .. m + StackPages :
            (procs[i].pages \o user)[n] = IF n <= m THEN procs[i].pages[n] ELSE user[n - m]
  BY <1>1, <1>4, <1>5, ConcatProperties
<1>7. DOMAIN All(i) = 1 .. m + StackPages
  <2>1. ASSUME NEW s \in Seq(Int) PROVE DOMAIN s = 1 .. Len(s)
    OBVIOUS
  <2>2. All(i) \in Seq(Int) /\ Len(All(i)) = m + StackPages
    BY <1>6 DEF All
  <2> HIDE DEF m
  <2> QED BY <2>1, <2>2
<1>8. ASSUME NEW n \in 1 .. m PROVE All(i)[n] = procs[i].pages[n] /\ All(i)[n] \in Int
  <2>1. n \in 1 .. m + StackPages /\ n <= m
    BY <1>1, <1>5
  <2> QED BY <1>1, <1>6, <2>1 DEF All
<1>9. ASSUME NEW n \in m + 1 .. m + StackPages
      PROVE  /\ n - m - 1 \in Stack
             /\ All(i)[n] = dirs[procs[i].dir].pte[n - m - 1]
             /\ All(i)[n] \in Int
  <2>1. n \in 1 .. m + StackPages /\ ~ (n <= m) /\ n - m \in 1 .. StackPages
    BY <1>1, <1>5
  <2>2. All(i)[n] = user[n - m]
    BY <1>6, <2>1 DEF All
  <2>3. user[n - m] = dirs[procs[i].dir].pte[(n - m) - 1]
    BY <2>1
  <2> QED BY <1>2, <1>3, <2>1, <2>2, <2>3
<1> HIDE DEF m
<1> QED BY <1>5, <1>7, <1>8, <1>9

(* What the n-th page of a process is used for.                            *)
Named(i, n, u) ==
    /\ u \in Uses /\ u.page = All(i)[n] /\ u.dir = procs[i].dir
    /\ \/ u.kind = "page" /\ n \in DOMAIN procs[i].pages /\ u.n = n
       \/ /\ u.kind = "stack" /\ n \notin DOMAIN procs[i].pages
          /\ u.n = n - Len(procs[i].pages) - 1

LEMMA PagesNamed ==
    ASSUME UInv, Backed, NEW i \in WholeProcs, NEW n \in DOMAIN All(i)
    PROVE  \E u : Named(i, n, u)
<1>1. /\ i \in DOMAIN procs /\ procs[i].stack /\ NULL \notin ToSet(procs[i].pages)
      /\ procs[i].dir \in Int /\ procs[i].pages \in Seq(Int)
  BY ProcType DEF WholeProcs, UInv
<1>2. PICK m \in Nat :
              /\ DOMAIN procs[i].pages = 1 .. m
              /\ DOMAIN All(i) = 1 .. m + StackPages
              /\ \A k \in 1 .. m : All(i)[k] = procs[i].pages[k] /\ All(i)[k] \in Int
              /\ \A k \in m + 1 .. m + StackPages :
                    /\ k - m - 1 \in Stack
                    /\ All(i)[k] = dirs[procs[i].dir].pte[k - m - 1]
                    /\ All(i)[k] \in Int
  BY PagesOfProcess
<1>3. n \in Int /\ (n \in 1 .. m \/ (n \in m + 1 .. m + StackPages /\ n \notin 1 .. m))
      /\ m = Len(procs[i].pages)
  BY <1>1, <1>2, ProcessAssumption
<1>4. CASE n \in 1 .. m
  <2>1. All(i)[n] \in Int \ {0}
    BY <1>1, <1>2, <1>4, NullIs DEF ToSet
  <2>2. Use(All(i)[n], "page", procs[i].dir, n)
    BY <1>1, <1>2, <1>4 DEF Use, PageUse, OfProcess
  <2>3. NewUse(All(i)[n], "page", procs[i].dir, n) \in Uses
    BY <1>1, <1>3, <2>1, <2>2 DEF NewUse, Uses, Kinds
  <2> QED BY <1>2, <1>4, <2>3 DEF Named, NewUse
<1>5. CASE n \in m + 1 .. m + StackPages /\ n \notin 1 .. m
  <2> DEFINE k == n - m - 1
  <2>1. k \in Stack /\ All(i)[n] = dirs[procs[i].dir].pte[k] /\ All(i)[n] \in Int /\ k \in Int
    <3>1. k \in Stack /\ All(i)[n] = dirs[procs[i].dir].pte[k] /\ All(i)[n] \in Int
      BY <1>2, <1>5
    <3>2. k \in Int
      BY <1>2, <1>3
    <3> QED BY <3>1, <3>2
  <2>2. All(i)[n] # 0
    BY <1>1, <2>1 DEF Backed, Mappings
  <2> HIDE DEF k
  <2>3. Use(All(i)[n], "stack", procs[i].dir, k)
    BY <1>1, <2>1 DEF Use, StackUse, Whole
  <2>4. NewUse(All(i)[n], "stack", procs[i].dir, k) \in Uses
    BY <1>1, <2>1, <2>2, <2>3 DEF NewUse, Uses, Kinds
  <2> QED BY <1>2, <1>3, <1>5, <2>4 DEF Named, NewUse, k
<1> QED BY <1>3, <1>4, <1>5

(* Uses with different names are of different pages.                       *)
LEMMA UsesApart == UInv /\ Backed => StacksApart
<1> SUFFICES ASSUME UInv, Backed PROVE StacksApart
  OBVIOUS
<1>1. Exact(Uses, taken) /\ Owners /\ OneOwner
  BY DEF UInv, PInv
<1>2. ASSUME NEW i \in WholeProcs, NEW n \in DOMAIN All(i)
      PROVE  All(i)[n] \notin bitmap \cup other \cup DOMAIN dirs \cup {NULL}
  <2>1. PICK u : Named(i, n, u)
    BY PagesNamed
  <2>2. u \in Uses /\ u.page = All(i)[n] /\ u.kind # "dir"
    BY <2>1 DEF Named
  <2>3. u.page \in taken /\ u.page \in Int \ {0}
    BY <1>1, <2>2 DEF Exact, Uses
  <2>4. ASSUME u.page \in DOMAIN dirs PROVE FALSE
    <3>1. Use(u.page, "dir", u.page, 0)
      BY <2>4 DEF Use, DirUse
    <3>2. NewUse(u.page, "dir", u.page, 0) \in Uses
      BY <2>3, <3>1 DEF NewUse, Uses, Kinds
    <3>3. NewUse(u.page, "dir", u.page, 0) # u
      BY <2>2 DEF NewUse
    <3>4. NewUse(u.page, "dir", u.page, 0).page = u.page
      BY DEF NewUse
    <3> QED BY <1>1, <2>2, <3>2, <3>3, <3>4 DEF Exact
  <2> QED BY <1>1, <2>2, <2>3, <2>4, NullIs DEF OneOwner
<1>3. ASSUME NEW i \in WholeProcs, NEW n \in DOMAIN All(i),
             NEW j \in WholeProcs, NEW m \in DOMAIN All(j), All(i)[n] = All(j)[m]
      PROVE  i = j /\ n = m
  <2>1. PICK u : Named(i, n, u)
    BY PagesNamed
  <2>2. PICK v : Named(j, m, v)
    BY PagesNamed
  <2>3. u = v
    BY <1>1, <1>3, <2>1, <2>2 DEF Exact, Named
  <2>4. i = j
    BY <1>1, <2>1, <2>2, <2>3 DEF Owners, Named, WholeProcs
  <2>5. Len(procs[i].pages) \in Nat /\ n \in Int /\ m \in Int
    <3>1. procs[i].pages \in Seq(Int)
      BY <1>1, ProcType DEF WholeProcs
    <3>2. DOMAIN All(i) \subseteq Int
      <4>1. PICK k \in Nat : DOMAIN All(i) = 1 .. k + StackPages
        BY PagesOfProcess
      <4> QED BY <4>1
    <3> QED BY <2>4, <3>1, <3>2
  <2>6. n = m
    BY <2>1, <2>2, <2>3, <2>4, <2>5 DEF Named
  <2> QED BY <2>4, <2>6
<1>4. \A i \in WholeProcs : \A n \in DOMAIN All(i) :
         /\ All(i)[n] \notin bitmap \cup other \cup DOMAIN dirs \cup {NULL}
         /\ \A j \in WholeProcs : \A m \in DOMAIN All(j) :
               <<i, n>> # <<j, m>> => All(i)[n] # All(j)[m]
  BY <1>2, <1>3
<1> QED BY <1>4 DEF StacksApart, WholeProcs, All

LEMMA UsesStay == Spec => [](UInv /\ Backed)
<1>1. Init => UInv /\ Backed
  <2> SUFFICES ASSUME Init PROVE Backed
    BY InitUses
  <2>1. DOMAIN procs = {} /\ call.pc = "idle"
    BY DEF Init, Idle
  <2> QED BY <2>1 DEF Backed
<1>2. UInv /\ Backed /\ [Next]_vars => (UInv /\ Backed)'
  BY NextUses, NextBacked
<1> QED BY <1>1, <1>2, PTL DEF Spec

(* Between calls, the pages process.c has taken are those of its processes *)
(* and directories: a stack that could not be completed leaves none behind,*)
(* and nothing of a complete one was given back, wherever process_create   *)
(* and process_setup_user_stk ran out of memory.                           *)
THEOREM NoPageLost == Spec => []FramesAccounted
<1> QED BY UsesStay, UsesListed, PTL

(* A process for which no allocation failed has its pages to itself, also  *)
(* when the undo loop of another one gave pages back.                      *)
THEOREM PagesOfItsOwn == Spec => []StacksApart
<1> QED BY UsesStay, UsesApart, PTL

=============================================================================
