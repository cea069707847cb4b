---------------------------- MODULE FloppyProofs ----------------------------
(***************************************************************************)
(* The floppy driver waits for the interrupt of the command it sent and    *)
(* for no other, transfers into a page of its own, takes and returns that  *)
(* page as the page allocator allows, and reads and writes the sectors it  *)
(* was asked for, for every disk, every way a command can fail, and every  *)
(* number of retries.                                                      *)
(***************************************************************************)
EXTENDS Floppy, WellFoundedInduction, TLAPS

Polls  == {"reset_poll", "seek_poll", "rw_poll"}
Clears == {"reset_clear", "seek_clear", "rw_clear"}
Others == {"idle", "reset", "block", "seek", "rw", "end"}

(* What is told apart of a call: where the code stands, and what is sent   *)
(* to the controller.                                                      *)
Shape ==
    /\ call \in [pc : Polls \cup Clears \cup Others, rw : {"read", "write"},
                 lba : {call.lba}, n : {call.n}, left : {call.left}, page : {call.page},
                 retry : {call.retry}, result : {call.result}]
    /\ fdc \in [cmd : {"none", "reset", "seek", "read", "write"}, pos : {fdc.pos},
                st0 : {fdc.st0}, st1 : {fdc.st1}, pcn : {fdc.pcn}]
    /\ irq \in BOOLEAN /\ floppy_interrupt_flag \in BOOLEAN

(* The three places an interrupt can be at: the command that will raise it,*)
(* the line, the flag.                                                     *)
Quiet     == fdc.cmd = "none" /\ irq = FALSE /\ floppy_interrupt_flag = FALSE
Executing == fdc.cmd # "none" /\ irq = FALSE /\ floppy_interrupt_flag = FALSE
Raised    == fdc.cmd = "none" /\ irq = TRUE /\ floppy_interrupt_flag = FALSE
Seen      == fdc.cmd = "none" /\ irq = FALSE /\ floppy_interrupt_flag = TRUE

FInv ==
    /\ Shape
    /\ call.pc \in Polls => Executing \/ Raised \/ Seen
    /\ call.pc \in Clears => Seen
    /\ call.pc \in Others => Quiet

LEMMA PcsApart ==
    /\ Polls \cap Clears = {} /\ Polls \cap Others = {} /\ Clears \cap Others = {}
BY DEF Polls, Clears, Others

(* FInv says what OneInterruptPerWait counts.                              *)
LEMMA Counted == FInv => OneInterruptPerWait
<1> SUFFICES ASSUME FInv PROVE OneInterruptPerWait
  OBVIOUS
<1>1. call.pc \in Polls \cup Clears \cup Others
  BY DEF FInv, Shape
<1>2. CASE call.pc \in Polls
  <2>1. Executing \/ Raised \/ Seen
    BY <1>2 DEF FInv
  <2> QED BY <1>2, <2>1 DEF OneInterruptPerWait, Polls, Executing, Raised, Seen
<1>3. CASE call.pc \in Clears
  <2>1. Seen
    BY <1>3 DEF FInv
  <2> QED BY <1>3, <2>1 DEF OneInterruptPerWait, Clears, Seen
<1>4. CASE call.pc \in Others
  <2>1. Quiet
    BY <1>4 DEF FInv
  <2> QED BY <1>4, <2>1 DEF OneInterruptPerWait, Others, Quiet
<1> QED BY <1>1, <1>2, <1>3, <1>4

(* A step of the driver that neither sends nor waits.                      *)
LEMMA QuietStep ==
    ASSUME FInv, call.pc \in Others, call'.pc \in Others, Shape',
           UNCHANGED <<floppy_interrupt_flag, fdc, irq>>
    PROVE  FInv'
BY PcsApart DEF FInv, Quiet

(* A command is sent when nothing is under way.                            *)
LEMMA SendStep ==
    ASSUME FInv, call.pc \in Others, call'.pc \in Polls, Shape',
           fdc'.cmd # "none", UNCHANGED <<floppy_interrupt_flag, irq>>
    PROVE  FInv'
BY PcsApart DEF FInv, Quiet, Executing

(* The flag that was seen is cleared.                                      *)
LEMMA ClearStep ==
    ASSUME FInv, call.pc \in Clears, call'.pc \in Others, Shape',
           ClearFlag, UNCHANGED <<fdc, irq>>
    PROVE  FInv'
BY PcsApart DEF FInv, Seen, Quiet, ClearFlag

(* The controller is done with its command.                                *)
LEMMA ExecuteEnds ==
    ASSUME Shape, Execute
    PROVE  fdc' \in [cmd : {"none"}, pos : {fdc'.pos}, st0 : {fdc'.st0}, st1 : {fdc'.st1},
                     pcn : {fdc'.pcn}]
BY DEF Shape, Execute

LEMMA ExecuteKeeps == ASSUME FInv, Execute PROVE FInv'
<1>1. call.pc \in Polls /\ Executing /\ UNCHANGED <<call, floppy_interrupt_flag>>
  BY DEF FInv, Shape, Execute, driver, Quiet, Raised, Seen
<1>2. fdc' \in [cmd : {"none"}, pos : {fdc'.pos}, st0 : {fdc'.st0}, st1 : {fdc'.st1},
                pcn : {fdc'.pcn}]
  BY ExecuteEnds DEF FInv
<1>3. Shape' /\ Raised'
  BY <1>1, <1>2 DEF FInv, Shape, Execute, Executing, Raised
<1> QED BY <1>1, <1>3, PcsApart DEF FInv

LEMMA HandlerKeeps == ASSUME FInv, floppy_handler PROVE FInv'
<1>1. call.pc \in Polls /\ Raised /\ UNCHANGED <<call, fdc>>
  BY DEF FInv, Shape, floppy_handler, Quiet, Executing, Seen
<1>2. Shape' /\ Seen'
  BY <1>1 DEF FInv, Shape, floppy_handler, Raised, Seen
<1> QED BY <1>1, <1>2, PcsApart DEF FInv

LEMMA PollKeeps ==
    ASSUME FInv, NEW pc \in Polls, NEW next \in Clears, Poll(pc, next)
    PROVE  FInv'
<1>1. call.pc \in Polls /\ floppy_interrupt_flag /\ UNCHANGED <<floppy_interrupt_flag, fdc, irq>>
  BY DEF Poll
<1>2. Seen
  BY <1>1 DEF FInv, Executing, Raised
<1>3. Shape' /\ call'.pc = next
  BY <1>1 DEF FInv, Shape, Poll, Goto
<1> QED BY <1>1, <1>2, <1>3, PcsApart DEF FInv, Seen

LEMMA CommandKeeps ==
    ASSUME FInv, NEW pc \in Others, NEW cmd \in {"seek", "read", "write"}, NEW next \in Polls,
           Command(pc, cmd, next)
    PROVE  FInv'
<1>1. fdc' = [fdc EXCEPT !.cmd = cmd, !.pos = floppy_get_position(call.lba)]
      /\ call' = [call EXCEPT !.pc = next, !.retry = @ + 1]
      /\ call.pc = pc /\ UNCHANGED <<floppy_interrupt_flag, irq>>
  BY DEF Command, Send
<1>2. Shape' /\ call'.pc = next /\ fdc'.cmd # "none"
  BY <1>1 DEF FInv, Shape
<1> QED BY <1>1, <1>2, SendStep

LEMMA ResetKeeps == ASSUME FInv, Reset PROVE FInv'
<1>1. call.pc \in Others /\ Shape' /\ call'.pc \in Polls /\ fdc'.cmd # "none"
  BY DEF FInv, Shape, Reset, Send, Goto, Others, Polls
<1> QED BY <1>1, SendStep DEF Reset

LEMMA ResetDoneKeeps == ASSUME FInv, ResetDone PROVE FInv'
<1>1. call.pc \in Clears /\ Shape' /\ call'.pc \in Others
  BY DEF FInv, Shape, ResetDone, ClearFlag, Goto, Others, Clears
<1> QED BY <1>1, ClearStep DEF ResetDone

LEMMA SeekDoneKeeps == ASSUME FInv, SeekDone PROVE FInv'
<1>1. \/ call' = [call EXCEPT !.pc = "rw", !.retry = 0]
      \/ call' = [call EXCEPT !.pc = "seek"]
  BY DEF SeekDone, Goto
<1>2. call.pc \in Clears /\ Shape' /\ call'.pc \in Others
  BY <1>1 DEF FInv, Shape, SeekDone, ClearFlag, Others, Clears
<1> QED BY <1>2, ClearStep DEF SeekDone

LEMMA TransferredKeeps == ASSUME FInv, Transferred PROVE FInv'
<1>1. \/ \E pc \in {"end", "block"}, lba \in {call'.lba} :
            call' = [call EXCEPT !.pc = pc, !.left = @ - 1, !.result = 0, !.lba = lba]
      \/ call' = [call EXCEPT !.pc = "rw"]
  <2>1. CASE rw_error = 0
    <3> DEFINE pc  == IF call.left = 1 THEN "end" ELSE "block"
               lba == IF call.rw = "write" THEN (call.lba + 1) % BYTE ELSE call.lba + 1
    <3>1. call' = [call EXCEPT !.pc = pc, !.left = @ - 1, !.result = 0, !.lba = lba]
      BY <2>1 DEF Transferred
    <3>2. call'.lba = lba
      BY <3>1 DEF FInv, Shape
    <3> QED BY <3>1, <3>2
  <2>2. CASE rw_error # 0
    BY <2>2 DEF Transferred, Goto
  <2> QED BY <2>1, <2>2
<1>2. call.pc \in Clears /\ Shape' /\ call'.pc \in Others
  BY <1>1 DEF FInv, Shape, Transferred, ClearFlag, Others, Clears
<1> QED BY <1>2, ClearStep DEF Transferred

LEMMA BeginKeeps == ASSUME FInv, NEW req \in Requests, Begin(req) PROVE FInv'
<1> DEFINE lba == IF req.rw = "write" THEN req.lba % BYTE ELSE req.lba
<1>1. call' = [Idle EXCEPT !.pc = "block", !.rw = req.rw, !.lba = lba, !.n = req.n,
                           !.left = req.n, !.page = Buffer]
  BY DEF Begin
<1>2. req.rw \in {"read", "write"}
  BY FloppyAssumption
<1>3. call.pc \in Others /\ Shape' /\ call'.pc \in Others
  BY <1>1, <1>2 DEF FInv, Shape, Begin, Idle, Others
<1> QED BY <1>3, QuietStep DEF Begin

LEMMA BlockKeeps == ASSUME FInv, Block PROVE FInv'
<1>1. \/ call' = [call EXCEPT !.pc = "seek", !.retry = 0]
      \/ call' = [call EXCEPT !.pc = "end", !.result = -1]
  BY DEF Block
<1>2. call.pc \in Others /\ Shape' /\ call'.pc \in Others
  BY <1>1 DEF FInv, Shape, Block, Others
<1> QED BY <1>2, QuietStep DEF Block

LEMMA FailsKeeps == ASSUME FInv, Fails PROVE FInv'
<1>1. call' = [call EXCEPT !.pc = "end", !.result = -1]
  BY DEF Fails, GiveUp
<1>2. call.pc \in Others /\ Shape' /\ call'.pc \in Others
  BY <1>1 DEF FInv, Shape, Fails, Others
<1> QED BY <1>2, QuietStep DEF Fails

LEMMA ReturnKeeps == ASSUME FInv, Return PROVE FInv'
<1>1. call' = [call EXCEPT !.pc = "idle", !.page = NULL]
  BY DEF Return
<1>2. call.pc \in Others /\ Shape' /\ call'.pc \in Others
  BY <1>1 DEF FInv, Shape, Return, Others
<1> QED BY <1>2, QuietStep DEF Return

(* Steps that leave the driver, the controller and its line alone.         *)
LEMMA ElsewhereKeeps ==
    ASSUME FInv, UNCHANGED <<call, floppy_interrupt_flag, fdc, irq>>
    PROVE  FInv'
BY DEF FInv, Shape, Quiet, Executing, Raised, Seen

LEMMA DriverKeeps == ASSUME FInv, Driver PROVE FInv'
<1>1. ASSUME NEW pc \in Polls, NEW next \in Clears, Poll(pc, next) PROVE FInv'
  BY <1>1, PollKeeps
<1>2. CASE Poll("reset_poll", "reset_clear") \/ Poll("seek_poll", "seek_clear")
           \/ Poll("rw_poll", "rw_clear")
  BY <1>1, <1>2 DEF Polls, Clears
<1>3. CASE Command("seek", "seek", "seek_poll")
  BY <1>3, CommandKeeps DEF Others, Polls
<1>4. CASE Command("rw", call.rw, "rw_poll")
  <2>1. call.rw \in {"seek", "read", "write"}
    BY DEF FInv, Shape
  <2> QED BY <1>4, <2>1, CommandKeeps DEF Others, Polls
<1>5. CASE Reset \/ ResetDone
  BY <1>5, ResetKeeps, ResetDoneKeeps
<1>6. CASE Block \/ SeekDone \/ Transferred
  BY <1>6, BlockKeeps, SeekDoneKeeps, TransferredKeeps
<1>7. CASE Fails \/ Return
  BY <1>7, FailsKeeps, ReturnKeeps
<1> QED BY <1>2, <1>3, <1>4, <1>5, <1>6, <1>7 DEF Driver

LEMMA NextKeeps == ASSUME FInv, [Next]_vars PROVE FInv'
<1>1. CASE UNCHANGED vars
  BY <1>1, ElsewhereKeeps DEF vars
<1>2. CASE OtherAlloc \/ OtherFree
  BY <1>2, ElsewhereKeeps DEF OtherAlloc, OtherFree, driver
<1>3. ASSUME NEW req \in Requests, Begin(req) PROVE FInv'
  BY <1>3, BeginKeeps
<1>4. CASE Driver
  BY <1>4, DriverKeeps
<1>5. CASE Execute \/ floppy_handler
  BY <1>5, ExecuteKeeps, HandlerKeeps
<1> QED BY <1>1, <1>2, <1>3, <1>4, <1>5 DEF Next

(* While floppy_wait polls, the interrupt of the command before it is      *)
(* still to come, on the line or noted in the flag, and it is the only     *)
(* one; when the driver does not wait there is none.  So no wait ends by   *)
(* the interrupt of an earlier command, and none is begun in vain.         *)
THEOREM WaitsMatchInterrupts == Spec => []OneInterruptPerWait
<1>1. Init => FInv
  <2> SUFFICES ASSUME Init PROVE FInv
    OBVIOUS
  <2>1. call.pc = "reset" /\ Shape /\ Quiet
    BY DEF Init, Idle, Shape, Quiet, Others
  <2> QED BY <2>1, PcsApart DEF FInv, Others
<1>2. FInv /\ [Next]_vars => FInv'
  BY NextKeeps
<1> QED BY <1>1, <1>2, Counted, PTL DEF Spec

-----------------------------------------------------------------------------
(* The DMA buffer: what the page allocator answers, and three bytes of an  *)
(* address.                                                                *)

LEMMA QuotientRemainder ==
    ASSUME NEW a \in Nat, NEW b \in Nat \ {0}
    PROVE  /\ a \div b \in Nat /\ a % b \in Nat /\ a % b < b
           /\ a = b * (a \div b) + (a % b)
OBVIOUS

(* A quotient is bounded as its dividend is.                               *)
LEMMA QuotientBounded ==
    ASSUME NEW a \in Nat, NEW b \in Nat \ {0}, NEW c \in Nat, a < b * c
    PROVE  a \div b < c
<1> DEFINE q == a \div b
<1>1. q \in Nat /\ b * q <= a
  <2>1. b * q \in Nat
    BY QuotientRemainder
  <2> QED BY <2>1, QuotientRemainder
<1> HIDE DEF q
<1>2. CASE c <= q
  <2>1. b * c <= b * q
    BY <1>1, <1>2
  <2> QED BY <1>1, <2>1
<1> QED BY <1>1, <1>2 DEF q

(* Dividing twice is dividing by the square.                               *)
LEMMA QuotientTwice ==
    ASSUME NEW a \in Nat, NEW b \in Nat \ {0}
    PROVE  a \div (b * b) = (a \div b) \div b
<1> DEFINE q == a \div b  r == a % b  e == q \div b  s == q % b
<1>1. /\ q \in Nat /\ e \in Nat /\ r \in Nat /\ s \in Nat /\ r < b /\ s < b
      /\ a = b * q + r /\ q = b * e + s
  BY QuotientRemainder
<1> HIDE DEF q, r, e, s
<1>2. b * q = (b * b) * e + b * s
  <2>1. b * q = b * (b * e) + b * s
    BY <1>1
  <2>2. b * (b * e) = (b * b) * e
    BY <1>1
  <2> QED BY <2>1, <2>2
<1>3. b * s + r < b * b /\ b * s + r \in Nat
  <2>1. b * s <= b * (b - 1) /\ b * s \in Nat
    BY <1>1
  <2>2. b * (b - 1) = b * b - b
    OBVIOUS
  <2> QED BY <1>1, <2>1, <2>2
<1>4. b * b \in Nat \ {0}
  OBVIOUS
<1>5. a = (b * b) * e + (b * s + r)
  BY <1>1, <1>2, <1>3
<1>6. ASSUME NEW m \in Nat \ {0}, NEW t \in Nat, t < m, a = m * e + t PROVE a \div m = e
  BY <1>1, <1>6
<1>7. a \div (b * b) = e
  BY <1>3, <1>4, <1>5, <1>6
<1> QED BY <1>7 DEF e, q

(* An address below BYTE^3 is read back from its three bytes.              *)
LEMMA ThreeBytes ==
    ASSUME NEW a \in Nat, a < BYTE * BYTE * BYTE
    PROVE  (((a \div (BYTE * BYTE)) % BYTE) * BYTE + ((a \div BYTE) % BYTE)) * BYTE + (a % BYTE) = a
<1> DEFINE q == a \div BYTE  e == q \div BYTE
<1>1. BYTE \in Nat \ {0} /\ BYTE * BYTE \in Nat \ {0}
  BY FloppyAssumption
<1>2. /\ q \in Nat /\ e \in Nat /\ q % BYTE \in Nat /\ a % BYTE \in Nat
      /\ a = BYTE * q + (a % BYTE) /\ q = BYTE * e + (q % BYTE)
  BY <1>1, QuotientRemainder
<1>3. a \div (BYTE * BYTE) = e
  BY <1>1, QuotientTwice
<1>4. e < BYTE
  BY <1>1, <1>3, QuotientBounded
<1> HIDE DEF q, e
<1>5. e % BYTE = e
  BY <1>1, <1>2, <1>4
<1>6. (e * BYTE + (q % BYTE)) * BYTE + (a % BYTE) = a
  BY <1>1, <1>2
<1> QED BY <1>3, <1>5, <1>6 DEF q

(* Managed memory begins at a positive address, so no page is called NULL. *)
LEMMA ManagedPagesType == Mem!ManagedPages \subseteq Nat \ {NULL}
<1> USE MemoryAssumption DEF Mem!SizeAssumption
<1>1. Mem!mem_bitmap_size \in Nat
  <2>1. physical_mem_size \div PAGE_MEM_SIZE \in Nat
    BY QuotientRemainder
  <2> QED BY <2>1, QuotientRemainder DEF Mem!mem_bitmap_size
<1>2. ASSUME NEW a \in Nat \ {0} PROVE Mem!AlignUp(a) \in Nat \ {0}
  <2>1. a % PAGE_MEM_SIZE \in Nat /\ a % PAGE_MEM_SIZE < PAGE_MEM_SIZE
    BY QuotientRemainder
  <2> QED BY <2>1 DEF Mem!AlignUp
<1>3. Mem!available_mem_start \in Nat \ {0}
  BY <1>1, <1>2 DEF Mem!available_mem_start
<1> QED BY <1>3 DEF Mem!ManagedPages, NULL, Mem!NULL

(* A set of addresses has a least one: the scan's choice is well defined.  *)
LEMMA FirstOfPages ==
    ASSUME NEW pages, pages \subseteq Nat, pages # {}
    PROVE  Mem!First(pages) \in pages
<1>1. PICK p \in pages : \A q \in pages : ~ (<<q, p>> \in OpToRel(<, Nat))
  BY WFMin, NatLessThanWellFounded
<1>2. ASSUME NEW q \in pages PROVE p <= q
  <2>1. <<q, p>> \in OpToRel(<, Nat) <=> q < p
    BY DEF OpToRel
  <2>2. ~ (q < p)
    BY <1>1, <2>1, Zenon
  <2> QED BY <2>2
<1> QED BY <1>2 DEF Mem!First

(* The scan finds nothing, or a page that is free and whose byte of the    *)
(* bitmap begins below the limit.                                          *)
LEMMA ScanAnswers ==
    ASSUME bitmap \subseteq Mem!ManagedPages, NEW start, NEW end,
           Mem!Scan(start, end) # NULL
    PROVE  /\ Mem!Scan(start, end) \in bitmap
           /\ Mem!GroupBase(Mem!Scan(start, end)) < end
<1> DEFINE found == {p \in bitmap : /\ Mem!GroupBase(start) <= Mem!GroupBase(p)
                                    /\ Mem!GroupBase(p) < end}
<1>1. found # {} /\ found \subseteq Nat
  BY ManagedPagesType DEF Mem!Scan, NULL
<1> HIDE DEF found
<1>2. Mem!First(found) \in found
  BY <1>1, FirstOfPages
<1> QED BY <1>1, <1>2 DEF Mem!Scan, found

(* alloc_mem_page answers NULL or a free page.                             *)
LEMMA AllocAnswers ==
    ASSUME bitmap \subseteq Mem!ManagedPages
    PROVE  Mem!alloc_mem_page \in bitmap \cup {NULL}
BY ScanAnswers DEF Mem!alloc_mem_page, Mem!alloc_low_mem_page, Mem!alloc_high_mem_page,
                   Mem!alloc_physical_mem_page, NULL

(* alloc_low_mem_page answers NULL or a free page that three bytes can     *)
(* name: the scan passes its limit inside a byte of the bitmap only, and   *)
(* low memory ends where such a byte does.                                 *)
LEMMA LowPageAnswers ==
    ASSUME bitmap \subseteq Mem!ManagedPages, Buffer # NULL
    PROVE  Buffer \in bitmap /\ Buffer < BYTE * BYTE * BYTE
<1> DEFINE G   == PAGE_MEM_SIZE * BITS
           lim == PHYSICAL_LOW_MEM
<1>1. PICK end : end \in Nat /\ end <= lim /\ Buffer \in bitmap /\ Mem!GroupBase(Buffer) < end
  <2> DEFINE end == IF lim > physical_mem_size THEN physical_mem_size ELSE lim
  <2>1. end \in Nat /\ end <= lim
    BY MemoryAssumption DEF Mem!SizeAssumption
  <2>2. Buffer = Mem!Scan(Mem!available_mem_start, end)
    BY DEF Buffer, Mem!alloc_low_mem_page, Mem!alloc_physical_mem_page, NULL
  <2> QED BY <2>1, <2>2, ScanAnswers
<1> DEFINE q == Buffer \div G  l == lim \div G
<1>2. G \in Nat \ {0} /\ lim \in Nat /\ lim % G = 0
  BY MemoryAssumption DEF Mem!SizeAssumption, Mem!GROUP_SIZE
<1>3. Buffer \in Nat
  BY <1>1, ManagedPagesType
<1>4. /\ q \in Nat /\ l \in Nat /\ lim = G * l
      /\ Buffer % G \in Nat /\ Buffer % G < G /\ Buffer = G * q + (Buffer % G)
  <2> HIDE DEF G, lim
  <2> QED BY <1>2, <1>3, QuotientRemainder
<1>5. G * q < lim
  BY <1>1, <1>2, <1>4 DEF Mem!GroupBase, Mem!GROUP_SIZE
<1> HIDE DEF G, q, l, lim
<1>6. q < l
  <2>1. CASE l <= q
    <3>1. G * l <= G * q
      BY <1>2, <1>4, <2>1
    <3> QED BY <1>2, <1>4, <1>5, <3>1
  <2> QED BY <1>4, <2>1
<1>7. G * q + G <= G * l
  <2>1. G * (q + 1) <= G * l
    BY <1>2, <1>4, <1>6
  <2>2. G * (q + 1) = G * q + G
    BY <1>2, <1>4
  <2> QED BY <2>1, <2>2
<1>8. G * q \in Nat
  BY <1>2, <1>4
<1>9. Buffer < lim
  BY <1>2, <1>3, <1>4, <1>7, <1>8
<1>10. lim <= BYTE * BYTE * BYTE
  BY FloppyAssumption DEF lim
<1> QED BY <1>1, <1>2, <1>3, <1>9, <1>10, FloppyAssumption

-----------------------------------------------------------------------------
(* The inductive invariant.  A page has one owner, so that the buffer the  *)
(* allocator hands out is nobody else's; and from Begin to Return the      *)
(* channel is set up for that buffer, while the controller transfers only  *)
(* when the driver waits for it.                                           *)
OneOwner ==
    /\ bitmap \cup other \subseteq Mem!ManagedPages
    /\ bitmap \cap other = {}
    /\ call.page # NULL => call.page \in Mem!ManagedPages \ (bitmap \cup other)

InCall == {"block", "seek", "seek_poll", "seek_clear", "rw", "rw_poll", "rw_clear", "end"}

Prepared ==
    /\ call.pc \in InCall => call.page # NULL /\ DmaAddress = call.page /\ dma.rw = call.rw
    /\ call.pc \notin InCall => call.page = NULL

Commanded ==
    fdc.cmd \in {"read", "write"} => call.pc = "rw_poll" /\ fdc.cmd = call.rw

DInv == Shape /\ OneOwner /\ Prepared /\ Commanded

LEMMA BufferOwned == DInv => DmaIntoOwnPage
BY DEF DInv, OneOwner, Prepared, Commanded, DmaIntoOwnPage, InCall

(* What a step may do to the pages: the allocator allows it, and the       *)
(* invariant holds behind it.                                              *)
Keeps == [Mem!Next]_(Mem!vars) /\ DInv'

(* A step within a call, or between two, that leaves the pages alone.      *)
LEMMA StayKeeps ==
    ASSUME DInv, UNCHANGED <<bitmap, free_mem_size, other, dma>>, Shape', Commanded',
           call'.page = call.page,
           \/ call.pc \in InCall /\ call'.pc \in InCall /\ call'.rw = call.rw
           \/ call.pc \notin InCall /\ call'.pc \notin InCall
    PROVE  Keeps
<1>1. UNCHANGED Mem!vars
  BY DEF Mem!vars, Held
<1>2. OneOwner'
  BY DEF DInv, OneOwner
<1>3. Prepared'
  BY DEF DInv, Prepared, DmaAddress
<1> QED BY <1>1, <1>2, <1>3 DEF Keeps, DInv

LEMMA BeginPrepares == ASSUME DInv, NEW req \in Requests, Begin(req) PROVE Keeps
<1> DEFINE lba == IF req.rw = "write" THEN req.lba % BYTE ELSE req.lba
           p   == Buffer
<1>1. /\ call' = [Idle EXCEPT !.pc = "block", !.rw = req.rw, !.lba = lba, !.n = req.n,
                              !.left = req.n, !.page = p]
      /\ call.pc = "idle" /\ p # NULL /\ Mem!Take(p) /\ dma_setup(p, req.rw)
      /\ UNCHANGED <<other, fdc, floppy_interrupt_flag, irq>>
  BY DEF Begin
<1>2. req.rw \in {"read", "write"}
  BY FloppyAssumption
<1>3. p \in bitmap /\ p \in Nat /\ p < BYTE * BYTE * BYTE
  BY <1>1, LowPageAnswers, ManagedPagesType DEF DInv, OneOwner
<1>4. call'.pc = "block" /\ call'.page = p /\ call'.rw = req.rw
  BY <1>1 DEF Idle
<1>5. Shape'
  BY <1>1, <1>2 DEF DInv, Shape, Idle, Others
<1>6. /\ dma'.rw = req.rw
      /\ DmaAddress' = (((p \div (BYTE * BYTE)) % BYTE) * BYTE + ((p \div BYTE) % BYTE)) * BYTE
                          + (p % BYTE)
  BY <1>1 DEF dma_setup, DmaAddress
<1>7. DmaAddress' = p
  BY <1>3, <1>6, ThreeBytes
<1>8. Prepared'
  BY <1>1, <1>4, <1>6, <1>7 DEF Prepared, InCall
<1>9. Commanded'
  BY <1>1 DEF DInv, Commanded
<1>10. OneOwner' /\ call.page = NULL
  BY <1>1, <1>3, <1>4 DEF DInv, OneOwner, Prepared, InCall, Mem!Take
<1>11. Mem!AllocLow("floppy")
  <2>1. Held' = [Held EXCEPT !["floppy"] = @ \cup {p}]
    BY <1>1, <1>4, <1>10 DEF Held, NULL, Mem!NULL
  <2> QED BY <1>1, <2>1 DEF Mem!AllocLow, Mem!Grant, Buffer, NULL
<1> QED BY <1>5, <1>8, <1>9, <1>10, <1>11 DEF Keeps, DInv, Mem!Next

LEMMA ReturnGivesBack == ASSUME DInv, Return PROVE Keeps
<1>1. /\ call' = [call EXCEPT !.pc = "idle", !.page = NULL]
      /\ call.pc = "end" /\ Mem!free_mem_page(call.page)
      /\ UNCHANGED <<other, fdc, floppy_interrupt_flag, irq>>
  BY DEF Return, ReleaseBuffer
<1>2. Shape' /\ call'.page = NULL /\ call'.pc = "idle"
  BY <1>1 DEF DInv, Shape, Others
<1>3. call.page # NULL /\ call.page \in Mem!ManagedPages \ (bitmap \cup other)
  BY <1>1 DEF DInv, OneOwner, Prepared, InCall
<1>4. Prepared' /\ Commanded' /\ OneOwner'
  BY <1>1, <1>2, <1>3 DEF DInv, Prepared, Commanded, OneOwner, InCall, Mem!free_mem_page
<1>5. /\ call.page \in Held["floppy"]
      /\ Held' = [Held EXCEPT !["floppy"] = @ \ {call.page}]
  BY <1>1, <1>2, <1>3 DEF Held, NULL, Mem!NULL
<1>6. Mem!Free("floppy", call.page)
  BY <1>1, <1>5 DEF Mem!Free
<1>7. Mem!Next
  BY <1>5, <1>6 DEF Mem!Next
<1> QED BY <1>2, <1>4, <1>7 DEF Keeps, DInv

LEMMA OtherAllocKeeps == ASSUME DInv, OtherAlloc PROVE Keeps
<1> DEFINE p == Mem!alloc_mem_page
<1>1. /\ call.pc = "idle" /\ p # NULL /\ Mem!Take(p) /\ other' = other \cup {p}
      /\ UNCHANGED <<call, dma, fdc, floppy_interrupt_flag, irq>>
  BY DEF OtherAlloc, driver
<1>2. p \in bitmap
  BY <1>1, AllocAnswers DEF DInv, OneOwner
<1>3. call.page = NULL
  BY <1>1 DEF DInv, Prepared, InCall
<1>4. Shape' /\ OneOwner' /\ Prepared' /\ Commanded'
  BY <1>1, <1>2, <1>3
     DEF DInv, Shape, OneOwner, Prepared, Commanded, DmaAddress, Mem!Take
<1>5. Held' = [Held EXCEPT !["other"] = @ \cup {p}]
  BY <1>1 DEF Held
<1>6. Mem!Alloc("other")
  BY <1>1, <1>5 DEF Mem!Alloc, Mem!Grant, NULL
<1> QED BY <1>4, <1>6 DEF Keeps, DInv, Mem!Next

LEMMA OtherFreeKeeps == ASSUME DInv, OtherFree PROVE Keeps
<1>1. PICK p \in other : Mem!free_mem_page(p) /\ other' = other \ {p}
  BY DEF OtherFree
<1>2. call.pc = "idle" /\ UNCHANGED <<call, dma, fdc, floppy_interrupt_flag, irq>>
  BY DEF OtherFree, driver
<1>3. call.page = NULL
  BY <1>2 DEF DInv, Prepared, InCall
<1>4. Shape' /\ OneOwner' /\ Prepared' /\ Commanded'
  BY <1>1, <1>2, <1>3
     DEF DInv, Shape, OneOwner, Prepared, Commanded, DmaAddress, Mem!free_mem_page
<1>5. p \in Held["other"] /\ Held' = [Held EXCEPT !["other"] = @ \ {p}]
  BY <1>1, <1>2 DEF Held
<1>6. Mem!Free("other", p)
  BY <1>1, <1>5 DEF Mem!Free
<1>7. Mem!Next
  BY <1>5, <1>6 DEF Mem!Next
<1> QED BY <1>4, <1>7 DEF Keeps, DInv

LEMMA CommandPrepared ==
    ASSUME DInv, NEW pc \in {"seek", "rw"}, NEW cmd \in {"seek", "read", "write"},
           NEW next \in {"seek_poll", "rw_poll"}, Command(pc, cmd, next),
           cmd # "seek" => next = "rw_poll" /\ cmd = call.rw
    PROVE  Keeps
<1>1. /\ fdc' = [fdc EXCEPT !.cmd = cmd, !.pos = floppy_get_position(call.lba)]
      /\ call' = [call EXCEPT !.pc = next, !.retry = @ + 1] /\ call.pc = pc
      /\ UNCHANGED <<memory, dma, floppy_interrupt_flag, irq>>
  BY DEF Command, Send
<1>2. /\ Shape' /\ fdc'.cmd = cmd
      /\ call'.pc = next /\ call'.page = call.page /\ call'.rw = call.rw
  BY <1>1 DEF DInv, Shape, Polls
<1>3. Commanded'
  BY <1>2 DEF Commanded
<1> QED BY <1>1, <1>2, <1>3, StayKeeps DEF memory, InCall

(* A step that sends no command and is not a wait for one.                 *)
LEMMA UncommandedKeeps ==
    ASSUME FInv, DInv, call.pc \in Clears \cup Others, Shape', fdc' = fdc,
           UNCHANGED <<memory, dma>>, call'.page = call.page, call'.rw = call.rw,
           call.pc \in InCall <=> call'.pc \in InCall
    PROVE  Keeps
<1>1. fdc'.cmd = "none"
  BY DEF FInv, Quiet, Seen
<1> QED BY <1>1, StayKeeps DEF Commanded, memory

LEMMA DriverPrepared ==
    ASSUME FInv, DInv, Driver, Shape' PROVE Keeps
<1>1. ASSUME NEW pc \in Polls, NEW next \in Clears, Poll(pc, next), pc # "reset_poll",
             next # "reset_clear"
      PROVE  Keeps
  <2>1. call' = [call EXCEPT !.pc = next] /\ call.pc = pc /\ UNCHANGED <<memory, dma, fdc>>
        /\ floppy_interrupt_flag
    BY <1>1 DEF Poll, Goto
  <2>2. fdc'.cmd = "none"
    BY <1>1, <2>1 DEF FInv, Executing, Raised, Seen
  <2>3. call'.pc = next /\ call'.page = call.page /\ call'.rw = call.rw
    BY <2>1 DEF DInv, Shape
  <2> QED BY <1>1, <2>1, <2>2, <2>3, StayKeeps DEF Commanded, memory, Polls, Clears, InCall
<1>2. CASE Poll("reset_poll", "reset_clear")
  <2>1. call' = [call EXCEPT !.pc = "reset_clear"] /\ call.pc = "reset_poll"
        /\ UNCHANGED <<memory, dma, fdc>>
    BY <1>2 DEF Poll, Goto
  <2>2. call'.pc = "reset_clear" /\ call'.page = call.page
    BY <2>1 DEF DInv, Shape
  <2>3. Commanded'
    BY <2>1, <2>2 DEF DInv, Commanded
  <2> QED BY <2>1, <2>2, <2>3, StayKeeps DEF memory, InCall
<1>3. CASE Command("seek", "seek", "seek_poll")
  BY <1>3, CommandPrepared
<1>4. CASE Command("rw", call.rw, "rw_poll")
  <2>1. call.rw \in {"seek", "read", "write"}
    BY DEF DInv, Shape
  <2> QED BY <1>4, <2>1, CommandPrepared
<1>5. CASE Reset
  <2>1. /\ fdc' = [fdc EXCEPT !.cmd = "reset", !.pos = fdc.pos]
        /\ call' = [call EXCEPT !.pc = "reset_poll"] /\ call.pc = "reset"
        /\ UNCHANGED <<memory, dma>>
    BY <1>5 DEF Reset, Send, Goto
  <2>2. fdc'.cmd = "reset" /\ call'.pc = "reset_poll" /\ call'.page = call.page
    BY <2>1 DEF DInv, Shape
  <2> QED BY <2>1, <2>2, StayKeeps DEF Commanded, memory, InCall
<1>6. CASE ResetDone
  <2>1. call' = [call EXCEPT !.pc = "idle"] /\ call.pc = "reset_clear"
        /\ UNCHANGED <<memory, dma, fdc>>
    BY <1>6 DEF ResetDone, Goto
  <2>2. call'.pc = "idle" /\ call'.page = call.page /\ call'.rw = call.rw
    BY <2>1 DEF DInv, Shape
  <2> QED BY <2>1, <2>2, UncommandedKeeps DEF Clears, InCall
<1>7. CASE Block
  <2>1. /\ \/ call' = [call EXCEPT !.pc = "seek", !.retry = 0]
           \/ call' = [call EXCEPT !.pc = "end", !.result = -1]
        /\ call.pc = "block" /\ UNCHANGED <<memory, dma, fdc>>
    BY <1>7 DEF Block
  <2>2. call'.pc \in {"seek", "end"} /\ call'.page = call.page /\ call'.rw = call.rw
    BY <2>1 DEF DInv, Shape
  <2> QED BY <2>1, <2>2, UncommandedKeeps DEF Others, InCall
<1>8. CASE SeekDone
  <2>1. /\ \/ call' = [call EXCEPT !.pc = "rw", !.retry = 0]
           \/ call' = [call EXCEPT !.pc = "seek"]
        /\ call.pc = "seek_clear" /\ UNCHANGED <<memory, dma, fdc>>
    BY <1>8 DEF SeekDone, Goto
  <2>2. call'.pc \in {"rw", "seek"} /\ call'.page = call.page /\ call'.rw = call.rw
    BY <2>1 DEF DInv, Shape
  <2> QED BY <2>1, <2>2, UncommandedKeeps DEF Clears, InCall
<1>9. CASE Transferred
  <2> DEFINE pc  == IF call.left = 1 THEN "end" ELSE "block"
             lba == IF call.rw = "write" THEN (call.lba + 1) % BYTE ELSE call.lba + 1
  <2>1. /\ \/ call' = [call EXCEPT !.pc = pc, !.left = @ - 1, !.result = 0, !.lba = lba]
           \/ call' = [call EXCEPT !.pc = "rw"]
        /\ call.pc = "rw_clear" /\ UNCHANGED <<memory, dma, fdc>>
    BY <1>9 DEF Transferred, Goto
  <2>2. call'.pc \in {"end", "block", "rw"} /\ call'.page = call.page /\ call'.rw = call.rw
    <3>1. pc \in {"end", "block"}
      OBVIOUS
    <3> HIDE DEF pc, lba
    <3> QED BY <2>1, <3>1 DEF DInv, Shape
  <2>3. call.pc = "rw_clear" /\ UNCHANGED <<memory, dma, fdc>>
    BY <2>1
  <2> QED BY <2>2, <2>3, UncommandedKeeps DEF Clears, InCall
<1>10. CASE Fails
  <2>1. call' = [call EXCEPT !.pc = "end", !.result = -1] /\ call.pc \in {"seek", "rw"}
        /\ UNCHANGED <<memory, dma, fdc>>
    BY <1>10 DEF Fails, GiveUp
  <2>2. call'.pc = "end" /\ call'.page = call.page /\ call'.rw = call.rw
    BY <2>1 DEF DInv, Shape
  <2> QED BY <2>1, <2>2, UncommandedKeeps DEF Others, InCall
<1>11. CASE Return
  BY <1>11, ReturnGivesBack
<1> QED BY <1>1, <1>2, <1>3, <1>4, <1>5, <1>6, <1>7, <1>8, <1>9, <1>10, <1>11
        DEF Driver, Polls, Clears

LEMMA NextPrepared == ASSUME FInv, DInv, [Next]_vars PROVE Keeps
<1>1. Shape'
  BY NextKeeps DEF FInv
<1>2. CASE UNCHANGED vars
  BY <1>1, <1>2, StayKeeps DEF vars, DInv, Commanded
<1>3. CASE OtherAlloc \/ OtherFree
  BY <1>3, OtherAllocKeeps, OtherFreeKeeps
<1>4. ASSUME NEW req \in Requests, Begin(req) PROVE Keeps
  BY <1>4, BeginPrepares
<1>5. CASE Driver
  BY <1>1, <1>5, DriverPrepared
<1>6. CASE Execute
  <2>1. fdc'.cmd = "none"
    BY <1>6, ExecuteEnds DEF DInv
  <2>2. UNCHANGED <<bitmap, free_mem_size, other, call, dma>>
    BY <1>6 DEF Execute, driver, memory
  <2> QED BY <1>1, <2>1, <2>2, StayKeeps DEF Commanded
<1>7. CASE floppy_handler
  BY <1>1, <1>7, StayKeeps DEF floppy_handler, memory, DInv, Commanded
<1> QED BY <1>2, <1>3, <1>4, <1>5, <1>6, <1>7 DEF Next

LEMMA InitPrepared == Init => FInv /\ DInv
<1> SUFFICES ASSUME Init PROVE FInv /\ DInv
  OBVIOUS
<1>1. call.pc = "reset" /\ call.page = NULL /\ Shape /\ Quiet
  BY DEF Init, Idle, Shape, Quiet, Others
<1>2. FInv
  BY <1>1, PcsApart DEF FInv, Others
<1>3. Prepared /\ Commanded
  BY <1>1 DEF Prepared, Commanded, InCall, Quiet
<1>4. OneOwner
  BY <1>1 DEF Init, OneOwner, Mem!physical_mem_init
<1> QED BY <1>1, <1>2, <1>3, <1>4 DEF DInv

(* While the controller transfers, the channel's registers name the page   *)
(* of the call that waits, in the direction of its request, and that page  *)
(* is nobody else's: dma_setup's three bytes lose nothing of an address    *)
(* that alloc_low_mem_page answers with.                                   *)
THEOREM TransfersIntoOwnPage == Spec => []DmaIntoOwnPage
<1>1. FInv /\ DInv /\ [Next]_vars => (FInv /\ DInv)'
  BY NextKeeps, NextPrepared DEF Keeps
<1> QED BY <1>1, InitPrepared, BufferOwned, PTL DEF Spec

(* The driver implements the page allocator's specification: it is granted *)
(* one page for a call and gives back the page it was granted, once.       *)
THEOREM FloppyUsesAllocator == Spec => MemSpec
<1>1. Init => Mem!Init
  BY DEF Init, Mem!Init, Held, Idle, NULL, Mem!NULL
<1>2. FInv /\ DInv /\ [Next]_vars => (FInv /\ DInv)' /\ [Mem!Next]_(Mem!vars)
  BY NextKeeps, NextPrepared DEF Keeps
<1> QED BY <1>1, <1>2, InitPrepared, PTL DEF Spec, MemSpec, Mem!Spec

-----------------------------------------------------------------------------
(* Where a logical sector number is on the disk.                           *)

(* Quotient and remainder are the only such pair.                          *)
LEMMA QuotientUnique ==
    ASSUME NEW b \in Nat \ {0}, NEW q \in Int, NEW r \in Int, 0 <= r, r < b,
           NEW e \in Int, NEW s \in Int, 0 <= s, s < b, b * q + r = b * e + s
    PROVE  q = e /\ r = s
<1>1. b * (q - e) = s - r
  <2>1. b * (q - e) = b * q - b * e
    OBVIOUS
  <2>2. b * q \in Int /\ b * e \in Int
    OBVIOUS
  <2> QED BY <2>1, <2>2
<1>2. CASE q - e >= 1
  <2>1. b * (q - e) >= b
    BY <1>2
  <2> QED BY <1>1, <2>1
<1>3. CASE q - e <= -1
  <2>1. b * (q - e) <= -b
    BY <1>3
  <2> QED BY <1>1, <2>1
<1>4. CASE q = e
  BY <1>1, <1>4
<1> QED BY <1>2, <1>3, <1>4

(* No two positions have the same number.                                  *)
LEMMA NumberApart ==
    ASSUME NEW p1 \in Positions, NEW p2 \in Positions, Number(p1) = Number(p2)
    PROVE  p1 = p2
<1>1. PICK t1 \in 0 .. tracks - 1, h1 \in 0 .. heads - 1, s1 \in 1 .. sectors :
        p1 = <<t1, h1, s1>>
  BY DEF Positions
<1>2. PICK t2 \in 0 .. tracks - 1, h2 \in 0 .. heads - 1, s2 \in 1 .. sectors :
        p2 = <<t2, h2, s2>>
  BY DEF Positions
<1>3. heads \in Nat \ {0} /\ sectors \in Nat \ {0} /\ tracks \in Nat \ {0}
  BY FloppyAssumption
<1> DEFINE q1 == heads * t1 + h1  q2 == heads * t2 + h2
<1>4. q1 \in Int /\ q2 \in Int
  BY <1>3
<1>5. sectors * q1 + (s1 - 1) = sectors * q2 + (s2 - 1)
  <2>1. (t1 * heads + h1) * sectors + s1 - 1 = (t2 * heads + h2) * sectors + s2 - 1
    BY <1>1, <1>2 DEF Number
  <2>2. t1 * heads + h1 = q1 /\ t2 * heads + h2 = q2
    BY <1>3
  <2> HIDE DEF q1, q2
  <2>3. q1 * sectors = sectors * q1 /\ q2 * sectors = sectors * q2
    BY <1>3, <1>4
  <2>4. sectors * q1 \in Int /\ sectors * q2 \in Int
    BY <1>3, <1>4
  <2> QED BY <1>3, <1>4, <2>1, <2>2, <2>3, <2>4
<1>6. q1 = q2 /\ s1 - 1 = s2 - 1
  <2> HIDE DEF q1, q2
  <2>1. /\ s1 - 1 \in Int /\ 0 <= s1 - 1 /\ s1 - 1 < sectors
        /\ s2 - 1 \in Int /\ 0 <= s2 - 1 /\ s2 - 1 < sectors
    BY <1>3
  <2> QED BY <1>3, <1>4, <1>5, <2>1, QuotientUnique
<1>7. t1 = t2 /\ h1 = h2
  BY <1>3, <1>6, QuotientUnique
<1> QED BY <1>1, <1>2, <1>6, <1>7

(* floppy_get_position finds the sector of that number: on a disk, no byte *)
(* of a position overflows.                                                *)
LEMMA PositionFound ==
    ASSUME NEW l \in Nat, l < tracks * heads * sectors
    PROVE  floppy_get_position(l) \in Positions /\ Number(floppy_get_position(l)) = l
<1> DEFINE c == heads * sectors
           q == l \div c  r == l % c  h == r \div sectors  j == r % sectors
<1>1. /\ heads \in Nat \ {0} /\ sectors \in Nat \ {0} /\ tracks \in Nat \ {0}
      /\ BYTE \in Nat /\ sectors < BYTE /\ tracks < BYTE /\ heads <= 2
  BY FloppyAssumption
<1>2. c \in Nat \ {0} /\ tracks * heads * sectors = c * tracks
  BY <1>1
<1>3. /\ q \in Nat /\ r \in Nat /\ r < c /\ l = c * q + r /\ q < tracks
  <2> HIDE DEF c
  <2> QED BY <1>1, <1>2, QuotientRemainder, QuotientBounded
<1>4. h \in Nat /\ j \in Nat /\ j < sectors /\ r = sectors * h + j /\ h < heads
  <2>1. r < sectors * heads
    BY <1>1, <1>3
  <2> HIDE DEF r
  <2> QED BY <1>1, <1>3, <2>1, QuotientRemainder, QuotientBounded
<1> HIDE DEF q, r, h, j
<1>5. l = sectors * (heads * q + h) + j
  <2>1. (heads * sectors) * q = sectors * (heads * q)
    BY <1>1, <1>3
  <2>2. sectors * (heads * q + h) = sectors * (heads * q) + sectors * h
    BY <1>1, <1>3, <1>4
  <2>3. sectors * (heads * q) \in Nat /\ sectors * h \in Nat
    BY <1>1, <1>3, <1>4
  <2> QED BY <1>3, <1>4, <2>1, <2>2, <2>3
<1>6. l % sectors = j
  <2>1. /\ l % sectors \in Nat /\ l % sectors < sectors /\ l \div sectors \in Nat
        /\ l = sectors * (l \div sectors) + (l % sectors)
    BY <1>1, QuotientRemainder
  <2>2. heads * q + h \in Nat
    BY <1>1, <1>3, <1>4
  <2> DEFINE e == heads * q + h  f == l \div sectors  g == l % sectors
  <2>3. l = sectors * e + j /\ l = sectors * f + g
    BY <1>5, <2>1
  <2> HIDE DEF e, f, g
  <2>4. e \in Int /\ f \in Int /\ g \in Nat /\ g < sectors
    BY <2>1, <2>2 DEF e, f, g
  <2>5. sectors * f + g = sectors * e + j
    BY <2>3
  <2>6. sectors \in Nat \ {0} /\ j \in Int /\ g \in Int /\ 0 <= g /\ 0 <= j /\ j < sectors
    BY <1>1, <1>4, <2>4
  <2>7. g = j
    BY <2>4, <2>5, <2>6, QuotientUnique
  <2> QED BY <2>7 DEF g
<1>7. q % BYTE = q /\ h % BYTE = h /\ (j + 1) % BYTE = j + 1
  BY <1>1, <1>3, <1>4
<1>8. floppy_get_position(l) = <<q, h, j + 1>>
  BY <1>6, <1>7 DEF floppy_get_position, q, r, h
<1>9. <<q, h, j + 1>> \in Positions
  BY <1>1, <1>3, <1>4 DEF Positions
<1>10. Number(<<q, h, j + 1>>) = l
  <2>1. Number(<<q, h, j + 1>>) = (q * heads + h) * sectors + (j + 1) - 1
    BY DEF Number
  <2>2. q * heads + h = heads * q + h /\ heads * q + h \in Nat
    BY <1>1, <1>3, <1>4
  <2>3. (heads * q + h) * sectors = sectors * (heads * q + h)
    BY <1>1, <2>2
  <2>4. sectors * (heads * q + h) \in Nat
    BY <1>1, <2>2
  <2> QED BY <1>4, <1>5, <2>1, <2>2, <2>3, <2>4
<1> QED BY <1>8, <1>9, <1>10

(* The sector a number means is the one floppy_get_position finds.         *)
LEMMA AtPosition ==
    ASSUME NEW l \in Nat, l < tracks * heads * sectors
    PROVE  (CHOOSE pos \in Positions : Number(pos) = l) = floppy_get_position(l)
BY PositionFound, NumberApart


-----------------------------------------------------------------------------
(* What is read and written.  Sector number First + i - 1 is the i-th of   *)
(* the call; Done of them have been dealt with.                            *)
Done  == call.n - call.left
First == call.lba - Done

InBlock == InCall \ {"end"}

(* The command of the current sector has ended; it has ended well.         *)
Ended == call.pc = "rw_clear" \/ (call.pc = "rw_poll" /\ fdc.cmd = "none")
Good  == Ended /\ fdc.st1 = {}

DataShape ==
    /\ disk \in [Positions -> Int] /\ before \in [Positions -> Int]
    /\ page_data \in Int /\ out \in Seq(Int)
    /\ call.lba \in Nat /\ call.n \in Nat /\ call.left \in 0 .. call.n
    /\ call.rw = "write" => call.lba < BYTE
    /\ call.rw = "read" => First >= 0

Through == Finished \/ call.pc \in {"reset", "reset_poll", "reset_clear"}

AtSector == fdc.pos = floppy_get_position(call.lba) /\ fdc.cmd \in {"none", call.rw}

(* A call that answers 0 has no sector left, and a command is for the      *)
(* sector the call is at.  Register 0 never has the bit that is looked at; *)
(* register 1 has it when an error is not one that goes unnoticed.         *)
Aimed ==
    /\ call.pc \in InBlock => call.left > 0
    /\ Through => call.left = 0
    /\ call.pc \in {"rw_poll", "rw_clear"} => AtSector
    /\ Ended => 0 \notin fdc.st0
    /\ Ended /\ ~ unnoticed => fdc.st1 \in {{}, {0}}

ReadSoFar ==
    call.rw = "read" /\ ~ unnoticed /\ OnDisk(First, call.n) =>
        /\ Len(out) = Done
        /\ \A i \in 1 .. Done : out[i] = disk[floppy_get_position(First + i - 1)]
        /\ Good => page_data = disk[fdc.pos]

(* A sector that is written well is on the disk before the call knows it.  *)
Written == IF Good THEN Done + 1 ELSE Done

WrittenSoFar ==
    call.rw = "write" /\ ~ unnoticed /\ First >= 0 /\ OnDisk(First, call.n) =>
        /\ \A pos \in Positions :
              disk[pos] = IF Number(pos) \in First .. First + Written - 1
                          THEN ToWrite(Number(pos) - First + 1) ELSE before[pos]
        /\ call.pc \in InBlock \ {"block"} => page_data = ToWrite(Done + 1)

DataInv == DataShape /\ Aimed /\ ReadSoFar /\ WrittenSoFar

LEMMA NamesOfSteps ==
    /\ InBlock = {"block", "seek", "seek_poll", "seek_clear", "rw", "rw_poll", "rw_clear"}
    /\ Polls \cup Clears \cup Others = InBlock \cup {"idle", "reset", "reset_poll", "reset_clear", "end"}
BY DEF InBlock, InCall, Polls, Clears, Others

(* A step that moves no data and stays at the same sector.                 *)
LEMMA DataStays ==
    ASSUME Shape, DataInv, UNCHANGED <<disk, before, page_data, out, unnoticed>>,
           call'.rw = call.rw, call'.lba = call.lba, call'.n = call.n, call'.left = call.left,
           call'.pc \in InBlock => call.pc \in InBlock,
           call'.pc \in InBlock \ {"block"} => call.pc \in InBlock \ {"block"} \/ call.rw = "read",
           Through' => call.left = 0,
           call'.pc \in {"rw_poll", "rw_clear"} => AtSector',
           Ended' => Ended /\ fdc' = fdc, Good => Good'
    PROVE  DataInv'
<1>1. Done' = Done /\ First' = First
  BY DEF Done, First
<1>2. DataShape'
  BY <1>1 DEF DataInv, DataShape
<1>3. Good' <=> Good
  BY DEF Good
<1>4. Aimed'
  BY DEF DataInv, Aimed
<1>5. ReadSoFar'
  <2>1. Good => fdc' = fdc
    BY <1>3 DEF Good
  <2> QED BY <1>1, <1>3, <2>1 DEF DataInv, ReadSoFar, OnDisk
<1>6. WrittenSoFar'
  BY <1>1, <1>3 DEF DataInv, WrittenSoFar, Written, OnDisk
<1> QED BY <1>2, <1>4, <1>5, <1>6 DEF DataInv

(* The sector a call on the disk is at is on the disk.                     *)
LEMMA SectorOnDisk ==
    ASSUME DataShape, call.left > 0, First >= 0, OnDisk(First, call.n)
    PROVE  /\ call.lba \in Nat /\ call.lba < tracks * heads * sectors
           /\ call.lba = First + Done /\ First \in Nat /\ Done \in Nat
           /\ floppy_get_position(call.lba) \in Positions
           /\ Number(floppy_get_position(call.lba)) = call.lba
<1>1. tracks * heads * sectors \in Nat
  BY FloppyAssumption
<1> DEFINE size == tracks * heads * sectors
<1> HIDE DEF size
<1>2. /\ call.lba \in Nat /\ call.lba < size
      /\ call.lba = First + Done /\ First \in Nat /\ Done \in Nat
  <2>1. First + call.n <= size
    BY DEF OnDisk, size
  <2> QED BY <1>1, <2>1 DEF DataShape, First, Done, size
<1> QED BY <1>2, PositionFound DEF size

(* The registers at the end of a transfer; without an error there was such *)
(* a sector.                                                               *)
LEMMA OutcomeStatus ==
    ASSUME NEW end \in Outcomes
    PROVE  0 \notin end.st0 /\ (end.st1 = {} => fdc.pos \in Positions)
<1>1. CASE fdc.pos \notin Positions
  BY <1>1 DEF Outcomes
<1>2. CASE fdc.pos \in Positions
  <2>1. PICK e \in Errors \cup {"none"} :
          end = CASE e = "none"         -> [st0 |-> {}, st1 |-> {}]
                  [] e = "address_mark" -> [st0 |-> {6}, st1 |-> {0}]
                  [] e = "not_writable" -> [st0 |-> {6}, st1 |-> {1}]
                  [] e = "no_data"      -> [st0 |-> {6}, st1 |-> {2}]
                  [] e = "crc"          -> [st0 |-> {6}, st1 |-> {5}]
    BY <1>2 DEF Outcomes
  <2>2. e \in {"none", "address_mark", "not_writable", "no_data", "crc"}
    BY FloppyAssumption
  <2>3. end.st0 \in {{}, {6}}
    BY <2>1, <2>2
  <2> QED BY <1>2, <2>3
<1> QED BY <1>1, <1>2

LEMMA TransferKeepsData ==
    ASSUME FInv, DInv, DataInv, fdc.cmd \in {"read", "write"}, NEW end \in Outcomes,
           fdc' = [fdc EXCEPT !.cmd = "none", !.st0 = end.st0, !.st1 = end.st1],
           Transfer(end), UNCHANGED <<call, dma, out, before>>
    PROVE  DataInv'
<1>1. call.pc = "rw_poll" /\ fdc.cmd = call.rw /\ DmaAddress = call.page /\ call.left > 0
  BY DEF DInv, Commanded, Prepared, DataInv, Aimed, InBlock, InCall
<1>2. fdc.pos = floppy_get_position(call.lba)
  BY <1>1 DEF DataInv, Aimed, AtSector
<1>3. /\ fdc'.cmd = "none" /\ fdc'.pos = fdc.pos
      /\ fdc'.st0 = end.st0 /\ fdc'.st1 = end.st1 /\ 0 \notin end.st0
  BY OutcomeStatus DEF DInv, Shape
<1>4. Done' = Done /\ First' = First
  BY DEF Done, First
<1>5. Ended' /\ ~ Ended /\ ~ Good /\ (Good' <=> end.st1 = {})
  BY <1>1, <1>3 DEF Ended, Good
<1>6. ~ unnoticed' => ~ unnoticed /\ end.st1 \in {{}, {0}}
  BY DEF Transfer
<1>7. call.rw = "read" => disk' = disk /\ (end.st1 = {} => page_data' = disk[fdc.pos])
  BY <1>1 DEF Transfer
<1>8. call.rw = "write" =>
        /\ page_data' = page_data
        /\ disk' = IF end.st1 = {} THEN [disk EXCEPT ![fdc.pos] = page_data] ELSE disk
  BY <1>1 DEF Transfer
<1>9. DataShape'
  <2>1. page_data' \in Int
    BY OutcomeStatus DEF Transfer, DataInv, DataShape
  <2>2. disk' \in [Positions -> Int]
    BY OutcomeStatus DEF Transfer, DataInv, DataShape
  <2> QED BY <1>4, <2>1, <2>2 DEF DataInv, DataShape
<1>10. Aimed'
  BY <1>1, <1>2, <1>3, <1>5, <1>6 DEF DataInv, Aimed, AtSector, Through, Finished
<1>11. ReadSoFar'
  BY <1>3, <1>4, <1>5, <1>6, <1>7 DEF DataInv, ReadSoFar, OnDisk
<1>12. WrittenSoFar'
  <2> SUFFICES ASSUME call.rw = "write", ~ unnoticed', First >= 0, OnDisk(First, call.n)
               PROVE  /\ \A pos \in Positions :
                           disk'[pos] = IF Number(pos) \in First .. First + Written' - 1
                                        THEN ToWrite(Number(pos) - First + 1) ELSE before[pos]
                      /\ page_data' = ToWrite(Done + 1)
    BY <1>4 DEF WrittenSoFar, OnDisk, ToWrite
  <2>1. /\ \A pos \in Positions :
              disk[pos] = IF Number(pos) \in First .. First + Done - 1
                          THEN ToWrite(Number(pos) - First + 1) ELSE before[pos]
        /\ page_data = ToWrite(Done + 1)
    BY <1>1, <1>5, <1>6 DEF DataInv, WrittenSoFar, Written, InBlock, InCall
  <2>2. CASE end.st1 # {}
    BY <1>4, <1>5, <1>8, <2>1, <2>2 DEF Written
  <2>3. CASE end.st1 = {}
    <3>1. Written' = Done + 1
      BY <1>4, <1>5, <2>3 DEF Written
    <3>2. /\ First \in Nat /\ Done \in Nat /\ fdc.pos \in Positions
          /\ Number(fdc.pos) = First + Done
      BY <1>1, <1>2, SectorOnDisk DEF DataInv
    <3>3. disk' = [disk EXCEPT ![fdc.pos] = page_data]
      BY <1>8, <2>3
    <3>4. ASSUME NEW pos \in Positions
          PROVE  disk'[pos] = IF Number(pos) \in First .. First + Done
                              THEN ToWrite(Number(pos) - First + 1) ELSE before[pos]
      <4>1. Number(pos) \in Int
        BY FloppyAssumption DEF Positions, Number
      <4>2. CASE pos = fdc.pos
        <5>1. disk'[pos] = ToWrite(Done + 1)
          BY <2>1, <3>3, <4>2 DEF DataInv, DataShape
        <5>2. Number(pos) \in First .. First + Done /\ Number(pos) - First + 1 = Done + 1
          BY <3>2, <4>2
        <5> QED BY <5>1, <5>2
      <4>3. CASE pos # fdc.pos
        <5>1. disk'[pos] = disk[pos]
          BY <3>3, <4>3 DEF DataInv, DataShape
        <5>2. Number(pos) # First + Done
          BY <3>2, <4>3, NumberApart
        <5>3. Number(pos) \in First .. First + Done <=> Number(pos) \in First .. First + Done - 1
          BY <3>2, <4>1, <5>2
        <5> QED BY <2>1, <5>1, <5>3
      <4> QED BY <4>2, <4>3
    <3>5. First + Written' - 1 = First + Done
      BY <3>1, <3>2
    <3> QED BY <1>8, <2>1, <3>4, <3>5
  <2> QED BY <2>2, <2>3
<1> QED BY <1>9, <1>10, <1>11, <1>12 DEF DataInv

(* Begin: nothing is done yet, and the disk is the disk before.            *)
LEMMA BeginData == ASSUME DInv, DataInv, NEW req \in Requests, Begin(req) PROVE DataInv'
<1> DEFINE lba == IF req.rw = "write" THEN req.lba % BYTE ELSE req.lba
<1>1. /\ call' = [Idle EXCEPT !.pc = "block", !.rw = req.rw, !.lba = lba, !.n = req.n,
                              !.left = req.n, !.page = Buffer]
      /\ req.n > 0 /\ page_data' = -1 /\ out' = <<>> /\ before' = disk /\ disk' = disk
  BY DEF Begin
<1>2. req.rw \in {"read", "write"} /\ req.lba \in Nat /\ req.n \in Nat
  BY FloppyAssumption
<1>3. lba \in Nat /\ (req.rw = "write" => lba < BYTE)
  BY <1>2, FloppyAssumption
<1> HIDE DEF lba
<1>4. /\ call'.pc = "block" /\ call'.rw = req.rw /\ call'.lba = lba /\ call'.n = req.n
      /\ call'.left = req.n
  BY <1>1 DEF Idle
<1>5. Done' = 0 /\ First' = lba /\ ~ Good' /\ ~ Ended'
  BY <1>2, <1>3, <1>4 DEF Done, First, Good, Ended
<1>6. out' \in Seq(Int) /\ Len(out') = 0
  BY <1>1
<1>7. DataShape'
  BY <1>1, <1>2, <1>3, <1>4, <1>5, <1>6 DEF DataInv, DataShape
<1>8. Aimed'
  BY <1>1, <1>2, <1>4, <1>5 DEF Aimed, Through, Finished
<1>9. ReadSoFar'
  BY <1>5, <1>6 DEF ReadSoFar
<1>10. WrittenSoFar'
  <2>1. Written' = 0
    BY <1>5 DEF Written
  <2>2. First' .. First' + Written' - 1 = {}
    BY <1>3, <1>5, <2>1
  <2>3. call'.pc \notin InBlock \ {"block"}
    BY <1>4
  <2> QED BY <1>1, <2>2, <2>3 DEF WrittenSoFar
<1> QED BY <1>7, <1>8, <1>9, <1>10 DEF DataInv

(* Block: the sector to write is copied to the buffer.                     *)
LEMMA BlockData == ASSUME FInv, DInv, DataInv, Block PROVE DataInv'
<1>1. /\ \/ call' = [call EXCEPT !.pc = "seek", !.retry = 0]
         \/ call' = [call EXCEPT !.pc = "end", !.result = -1]
      /\ call.pc = "block" /\ UNCHANGED <<fdc, disk, out, before, unnoticed>>
      /\ page_data' = IF call.rw = "write" THEN ToWrite(call.n - call.left + 1) ELSE page_data
  BY DEF Block, history
<1>2. /\ call'.pc = "seek" \/ (call'.pc = "end" /\ call'.result = -1)
      /\ call'.rw = call.rw /\ call'.lba = call.lba /\ call'.n = call.n /\ call'.left = call.left
  BY <1>1 DEF DInv, Shape
<1>3. Done' = Done /\ First' = First /\ ~ Good /\ ~ Good' /\ ~ Ended' /\ ~ Through'
  BY <1>1, <1>2 DEF Done, First, Good, Ended, Through, Finished
<1>4. call.left > 0 /\ Done \in Int
  BY <1>1 DEF DataInv, Aimed, DataShape, Done, InBlock, InCall
<1>5. DataShape'
  BY <1>1, <1>2, <1>3, <1>4 DEF DataInv, DataShape, ToWrite, Done
<1>6. Aimed'
  BY <1>2, <1>3, <1>4 DEF Aimed
<1>7. ReadSoFar'
  BY <1>1, <1>2, <1>3 DEF DataInv, ReadSoFar, OnDisk
<1>8. WrittenSoFar'
  <2>1. call.rw = "write" => page_data' = ToWrite(Done + 1)
    BY <1>1 DEF Done
  <2> QED BY <1>1, <1>2, <1>3, <2>1 DEF DataInv, WrittenSoFar, Written, OnDisk, ToWrite
<1> QED BY <1>5, <1>6, <1>7, <1>8 DEF DataInv

LEMMA FailedNotGood == ASSUME DataInv, rw_error # 0 PROVE ~ Good
BY DEF DataInv, Aimed, rw_error, Noticed, Good

(* Only a transfer without error passes for one, unless nobody noticed.    *)
LEMMA PassedGood ==
    ASSUME DataInv, Ended, rw_error = 0, ~ unnoticed PROVE Good
BY DEF DataInv, Aimed, rw_error, Noticed, Good

(* The call has done with the sector, and goes to the next or ends.        *)
LEMMA TransferredData ==
    ASSUME FInv, DInv, DataInv, Transferred, rw_error = 0 PROVE DataInv'
<1> DEFINE pc  == IF call.left = 1 THEN "end" ELSE "block"
           lba == IF call.rw = "write" THEN (call.lba + 1) % BYTE ELSE call.lba + 1
<1>1. /\ call' = [call EXCEPT !.pc = pc, !.left = @ - 1, !.result = 0, !.lba = lba]
      /\ call.pc = "rw_clear"
      /\ out' = IF call.rw = "read" THEN Append(out, page_data) ELSE out
      /\ UNCHANGED <<page_data, fdc, disk, before, unnoticed>>
  BY DEF Transferred, history
<1>2. /\ call'.pc = pc /\ call'.left = call.left - 1 /\ call'.lba = lba
      /\ call'.rw = call.rw /\ call'.n = call.n
  BY <1>1 DEF DInv, Shape
<1>3. /\ call.lba \in Nat /\ call.n \in Nat /\ call.left \in 1 .. call.n
      /\ fdc.pos = floppy_get_position(call.lba) /\ Ended
  BY <1>1 DEF DataInv, DataShape, Aimed, AtSector, InBlock, InCall, Ended
<1>4. pc \in {"end", "block"} /\ (pc = "block" => call.left > 1) /\ (pc = "end" => call.left = 1)
  BY <1>3
<1>5. lba \in Nat /\ (call.rw = "write" => lba < BYTE)
  BY <1>3, FloppyAssumption
<1>6. call.rw = "read" => lba = call.lba + 1
  OBVIOUS
<1>7. call.rw = "write" /\ lba > 0 => lba = call.lba + 1
  <2>1. BYTE \in Nat \ {0} /\ (call.rw = "write" => call.lba < BYTE)
    BY FloppyAssumption DEF DataInv, DataShape
  <2>2. ASSUME NEW a \in Nat, a < BYTE, (a + 1) % BYTE > 0 PROVE (a + 1) % BYTE = a + 1
    <3>1. CASE a + 1 = BYTE
      BY <2>1, <2>2, <3>1
    <3>2. CASE a + 1 < BYTE
      BY <2>1, <2>2, <3>2
    <3> QED BY <2>1, <2>2, <3>1, <3>2
  <2> QED BY <1>3, <2>1, <2>2
<1> HIDE DEF pc, lba
<1>8. Done' = Done + 1 /\ Done \in Nat /\ ~ Good' /\ ~ Ended'
  BY <1>2, <1>3, <1>4 DEF Done, Good, Ended
<1>9. lba = call.lba + 1 => First' = First
  BY <1>2, <1>3, <1>5 DEF Done, First
<1>10. call.rw = "write" /\ First' >= 0 => First' = First
  BY <1>2, <1>3, <1>5, <1>7, <1>8, <1>9 DEF First
<1>11. ~ unnoticed => Good
  BY <1>3, PassedGood
<1>12. page_data \in Int /\ out \in Seq(Int)
  BY DEF DataInv, DataShape
<1>13. /\ Append(out, page_data) \in Seq(Int) /\ Len(Append(out, page_data)) = Len(out) + 1
       /\ Append(out, page_data)[Len(out) + 1] = page_data
       /\ \A i \in 1 .. Len(out) : Append(out, page_data)[i] = out[i]
  BY <1>12
<1>14. DataShape'
  <2>1. out' \in Seq(Int)
    BY <1>1, <1>12, <1>13
  <2>2. call.rw = "read" => First' >= 0
    BY <1>6, <1>9 DEF DataInv, DataShape
  <2>3. call.left - 1 \in 0 .. call.n
    BY <1>3
  <2> QED BY <1>1, <1>2, <1>5, <2>1, <2>2, <2>3 DEF DataInv, DataShape
<1>15. Aimed'
  <2>1. call'.pc \in InBlock => call'.left > 0
    BY <1>2, <1>3, <1>4 DEF InBlock, InCall
  <2>2. Through' => call'.left = 0
    BY <1>2, <1>3, <1>4 DEF Through, Finished
  <2>3. call'.pc \notin {"rw_poll", "rw_clear"}
    BY <1>2, <1>4
  <2> QED BY <1>8, <2>1, <2>2, <2>3 DEF Aimed
<1>16. ReadSoFar'
  <2> SUFFICES ASSUME call.rw = "read", ~ unnoticed, OnDisk(First, call.n)
               PROVE  /\ Len(out') = Done + 1
                      /\ \A i \in 1 .. Done + 1 :
                            out'[i] = disk[floppy_get_position(First + i - 1)]
    BY <1>1, <1>2, <1>6, <1>8, <1>9 DEF ReadSoFar, OnDisk
  <2>1. /\ Len(out) = Done /\ page_data = disk[floppy_get_position(call.lba)]
        /\ \A i \in 1 .. Done : out[i] = disk[floppy_get_position(First + i - 1)]
    BY <1>3, <1>11 DEF DataInv, ReadSoFar
  <2>2. out' = Append(out, page_data)
    BY <1>1
  <2>3. First + (Done + 1) - 1 = call.lba
    BY <1>3, <1>8 DEF First
  <2>4. ASSUME NEW i \in 1 .. Done + 1
        PROVE  out'[i] = disk[floppy_get_position(First + i - 1)]
    <3>1. CASE i = Done + 1
      BY <1>13, <2>1, <2>2, <2>3, <3>1
    <3>2. CASE i \in 1 .. Done
      BY <1>13, <2>1, <2>2, <3>2
    <3> QED BY <1>8, <3>1, <3>2
  <2> QED BY <1>13, <2>1, <2>2, <2>4
<1>17. WrittenSoFar'
  <2> SUFFICES ASSUME call.rw = "write", ~ unnoticed, First' >= 0, OnDisk(First, call.n),
                      First' = First
               PROVE  \A pos \in Positions :
                        disk[pos] = IF Number(pos) \in First .. First + Written' - 1
                                    THEN ToWrite(Number(pos) - First + 1) ELSE before[pos]
    <3>1. call'.pc \notin InBlock \ {"block"}
      BY <1>2, <1>4 DEF InBlock, InCall
    <3> QED BY <1>1, <1>2, <1>10, <3>1 DEF WrittenSoFar, OnDisk, ToWrite
  <2>1. Written' = Done + 1 /\ Written = Done + 1
    BY <1>8, <1>11 DEF Written
  <2> QED BY <2>1 DEF DataInv, WrittenSoFar
<1> QED BY <1>14, <1>15, <1>16, <1>17 DEF DataInv

(* A step outside the sectors, or one that begins a wait.                  *)
LEMMA CommandData ==
    ASSUME DInv, DataInv, NEW pc, NEW cmd, NEW next, Command(pc, cmd, next),
           cmd \in {"seek", "read", "write"},
           \/ pc = "seek" /\ next = "seek_poll"
           \/ pc = "rw" /\ next = "rw_poll" /\ cmd = call.rw
    PROVE  DataInv'
<1>1. /\ fdc' = [fdc EXCEPT !.cmd = cmd, !.pos = floppy_get_position(call.lba)]
      /\ call' = [call EXCEPT !.pc = next, !.retry = @ + 1] /\ call.pc = pc
      /\ UNCHANGED <<disk, before, page_data, out, unnoticed>>
  BY DEF Command, Send, history
<1>2. /\ fdc'.cmd = cmd /\ fdc'.pos = floppy_get_position(call.lba)
      /\ call'.pc = next /\ call'.rw = call.rw /\ call'.lba = call.lba /\ call'.n = call.n
      /\ call'.left = call.left
  BY <1>1 DEF DInv, Shape
<1>3. ~ Ended /\ ~ Ended' /\ ~ Through'
  BY <1>1, <1>2 DEF Ended, Through, Finished
<1>4. pc \in InBlock \ {"block"} /\ next \in InBlock \ {"block"}
  BY NamesOfSteps
<1>5. call'.pc \in {"rw_poll", "rw_clear"} => AtSector'
  BY <1>2 DEF AtSector
<1> QED BY <1>1, <1>2, <1>3, <1>4, <1>5, DataStays DEF DInv, Good

LEMMA PollData ==
    ASSUME FInv, DInv, DataInv, NEW pc \in Polls, NEW next \in Clears, Poll(pc, next),
           \/ pc = "reset_poll" /\ next = "reset_clear"
           \/ pc = "seek_poll" /\ next = "seek_clear"
           \/ pc = "rw_poll" /\ next = "rw_clear"
    PROVE  DataInv'
<1>1. /\ call' = [call EXCEPT !.pc = next] /\ call.pc = pc /\ floppy_interrupt_flag
      /\ UNCHANGED <<fdc, disk, before, page_data, out, unnoticed>>
  BY DEF Poll, Goto, history
<1>2. fdc.cmd = "none"
  BY <1>1 DEF FInv, Executing, Raised, Seen
<1>3. /\ call'.pc = next /\ call'.rw = call.rw /\ call'.lba = call.lba /\ call'.n = call.n
      /\ call'.left = call.left
  BY <1>1 DEF DInv, Shape
<1>4. (Ended' <=> Ended) /\ (Through' => call.left = 0)
  BY <1>1, <1>2, <1>3 DEF Ended, Through, Finished, DataInv, Aimed
<1>5. /\ next \in InBlock <=> pc \in InBlock
      /\ next \in InBlock \ {"block"} <=> pc \in InBlock \ {"block"}
      /\ next \in {"rw_poll", "rw_clear"} => pc \in {"rw_poll", "rw_clear"}
  BY NamesOfSteps
<1>6. next \in {"rw_poll", "rw_clear"} => AtSector'
  BY <1>1, <1>3, <1>5 DEF DataInv, Aimed, AtSector
<1>7. Good => Good'
  BY <1>1, <1>4 DEF Good
<1> QED BY <1>1, <1>3, <1>4, <1>5, <1>6, <1>7, DataStays DEF DInv

(* A step that ends a wait in vain, or that no sector is concerned by.     *)
LEMMA ElsewhereData ==
    ASSUME DInv, DataInv, UNCHANGED <<disk, before, page_data, out, unnoticed>>,
           call'.rw = call.rw, call'.lba = call.lba, call'.n = call.n, call'.left = call.left,
           ~ Good, call'.pc \notin {"rw_poll", "rw_clear"}, Through' => call.left = 0,
           call'.pc \in InBlock => call.pc \in InBlock \ {"block"}
    PROVE  DataInv'
<1>1. ~ Ended'
  BY DEF Ended
<1> QED BY <1>1, DataStays DEF DInv

LEMMA DriverData == ASSUME FInv, DInv, DataInv, Driver PROVE DataInv'
<1>1. CASE Poll("reset_poll", "reset_clear") \/ Poll("seek_poll", "seek_clear")
           \/ Poll("rw_poll", "rw_clear")
  BY <1>1, PollData DEF Polls, Clears
<1>2. CASE Command("seek", "seek", "seek_poll")
  BY <1>2, CommandData
<1>3. CASE Command("rw", call.rw, "rw_poll")
  <2>1. call.rw \in {"seek", "read", "write"}
    BY DEF DInv, Shape
  <2> QED BY <1>3, <2>1, CommandData
<1>4. CASE Block
  BY <1>4, BlockData
<1>5. CASE Reset
  <2>1. /\ call' = [call EXCEPT !.pc = "reset_poll"] /\ call.pc = "reset"
        /\ UNCHANGED <<disk, before, page_data, out, unnoticed>>
    BY <1>5 DEF Reset, Goto, history
  <2>2. /\ call'.pc = "reset_poll" /\ call'.rw = call.rw /\ call'.lba = call.lba
        /\ call'.n = call.n /\ call'.left = call.left
    BY <2>1 DEF DInv, Shape
  <2>3. ~ Good /\ call.left = 0 /\ call'.pc \notin InBlock
    BY <2>1, <2>2, NamesOfSteps DEF Good, Ended, Through, DataInv, Aimed
  <2> QED BY <2>1, <2>2, <2>3, ElsewhereData
<1>6. CASE ResetDone
  <2>1. /\ call' = [call EXCEPT !.pc = "idle"] /\ call.pc = "reset_clear"
        /\ UNCHANGED <<disk, before, page_data, out, unnoticed>>
    BY <1>6 DEF ResetDone, Goto, history
  <2>2. /\ call'.pc = "idle" /\ call'.rw = call.rw /\ call'.lba = call.lba
        /\ call'.n = call.n /\ call'.left = call.left
    BY <2>1 DEF DInv, Shape
  <2>3. ~ Good /\ call'.pc \notin InBlock
    BY <2>1, <2>2, NamesOfSteps DEF Good, Ended
  <2>4. Through' => call.left = 0
    BY <2>1, <2>2 DEF Through, Finished, DataInv, Aimed
  <2> QED BY <2>1, <2>2, <2>3, <2>4, ElsewhereData
<1>7. CASE SeekDone
  <2>1. /\ \/ call' = [call EXCEPT !.pc = "rw", !.retry = 0]
           \/ call' = [call EXCEPT !.pc = "seek"]
        /\ call.pc = "seek_clear" /\ UNCHANGED <<disk, before, page_data, out, unnoticed>>
    BY <1>7 DEF SeekDone, Goto, history
  <2>2. /\ call'.pc \in {"rw", "seek"} /\ call'.rw = call.rw /\ call'.lba = call.lba
        /\ call'.n = call.n /\ call'.left = call.left
    BY <2>1 DEF DInv, Shape
  <2>3. ~ Good /\ ~ Through' /\ call.pc \in InBlock \ {"block"}
    BY <2>1, <2>2, NamesOfSteps DEF Good, Ended, Through, Finished
  <2> QED BY <2>1, <2>2, <2>3, ElsewhereData
<1>8. CASE Transferred
  <2>1. CASE rw_error = 0
    BY <1>8, <2>1, TransferredData
  <2>2. CASE rw_error # 0
    <3>1. /\ call' = [call EXCEPT !.pc = "rw"] /\ call.pc = "rw_clear"
          /\ UNCHANGED <<disk, before, page_data, out, unnoticed>>
      BY <1>8, <2>2 DEF Transferred, Goto, history
    <3>2. /\ call'.pc = "rw" /\ call'.rw = call.rw /\ call'.lba = call.lba
          /\ call'.n = call.n /\ call'.left = call.left
      BY <3>1 DEF DInv, Shape
    <3>3. ~ Through' /\ call.pc \in InBlock \ {"block"}
      BY <3>1, <3>2, NamesOfSteps DEF Through, Finished
    <3> QED BY <2>2, <3>1, <3>2, <3>3, ElsewhereData, FailedNotGood
  <2> QED BY <2>1, <2>2
<1>9. CASE Fails
  <2>1. /\ call' = [call EXCEPT !.pc = "end", !.result = -1] /\ call.pc \in {"seek", "rw"}
        /\ UNCHANGED <<disk, before, page_data, out, unnoticed>>
    BY <1>9 DEF Fails, GiveUp, history
  <2>2. /\ call'.pc = "end" /\ call'.result = -1 /\ call'.rw = call.rw /\ call'.lba = call.lba
        /\ call'.n = call.n /\ call'.left = call.left
    BY <2>1 DEF DInv, Shape
  <2>3. ~ Good /\ ~ Through' /\ call.pc \in InBlock \ {"block"}
    BY <2>1, <2>2, NamesOfSteps DEF Good, Ended, Through, Finished
  <2> QED BY <2>1, <2>2, <2>3, ElsewhereData
<1>10. CASE Return
  <2>1. /\ call' = [call EXCEPT !.pc = "idle", !.page = NULL] /\ call.pc = "end"
        /\ UNCHANGED <<disk, before, page_data, out, unnoticed>>
    BY <1>10 DEF Return, history
  <2>2. /\ call'.pc = "idle" /\ call'.result = call.result /\ call'.rw = call.rw
        /\ call'.lba = call.lba /\ call'.n = call.n /\ call'.left = call.left
    BY <2>1 DEF DInv, Shape
  <2>3. ~ Good /\ call'.pc \notin InBlock
    BY <2>1, <2>2, NamesOfSteps DEF Good, Ended
  <2>4. Through' => call.left = 0
    BY <2>1, <2>2 DEF Through, Finished, DataInv, Aimed
  <2> QED BY <2>1, <2>2, <2>3, <2>4, ElsewhereData
<1> QED BY <1>1, <1>2, <1>3, <1>4, <1>5, <1>6, <1>7, <1>8, <1>9, <1>10 DEF Driver

LEMMA NextData == ASSUME FInv, DInv, DataInv, [Next]_vars PROVE DataInv'
<1>1. ASSUME UNCHANGED <<disk, before, page_data, out, unnoticed, call, fdc>> PROVE DataInv'
  <2>1. (Ended' <=> Ended) /\ (Good' <=> Good) /\ (Through' <=> Through)
    BY <1>1 DEF Ended, Good, Through, Finished
  <2>2. Through => call.left = 0
    BY DEF DataInv, Aimed
  <2>3. call'.pc \in {"rw_poll", "rw_clear"} => AtSector'
    BY <1>1 DEF DataInv, Aimed, AtSector
  <2> QED BY <1>1, <2>1, <2>2, <2>3, DataStays DEF DInv
<1>2. CASE UNCHANGED vars \/ OtherAlloc \/ OtherFree \/ floppy_handler
  BY <1>1, <1>2 DEF vars, OtherAlloc, OtherFree, floppy_handler, driver, history
<1>3. ASSUME NEW req \in Requests, Begin(req) PROVE DataInv'
  BY <1>3, BeginData
<1>4. CASE Driver
  BY <1>4, DriverData
<1>5. CASE Execute
  <2>1. UNCHANGED <<call, dma, out, before>> /\ fdc.cmd # "none"
    BY <1>5 DEF Execute, driver
  <2>2. CASE fdc.cmd \in {"read", "write"}
    <3>1. PICK end \in Outcomes :
            /\ fdc' = [fdc EXCEPT !.cmd = "none", !.st0 = end.st0, !.st1 = end.st1]
            /\ Transfer(end)
      BY <1>5, <2>2 DEF Execute
    <3> QED BY <2>1, <2>2, <3>1, TransferKeepsData
  <2>3. CASE fdc.cmd \notin {"read", "write"}
    <3>1. UNCHANGED <<disk, before, page_data, out, unnoticed, call>>
      BY <1>5, <2>1, <2>3 DEF Execute
    <3>2. call.pc \notin {"rw_poll", "rw_clear"}
      BY <2>1, <2>3 DEF DataInv, Aimed, AtSector, DInv, Shape
    <3>3. ~ Ended /\ ~ Ended' /\ (Through' => call.left = 0)
      BY <3>1, <3>2 DEF Ended, Through, Finished, DataInv, Aimed
    <3> QED BY <3>1, <3>2, <3>3, DataStays DEF DInv, Good
  <2> QED BY <2>2, <2>3
<1> QED BY <1>2, <1>3, <1>4, <1>5 DEF Next

LEMMA InitData == Init => DataInv
<1> SUFFICES ASSUME Init PROVE DataInv
  OBVIOUS
<1>1. /\ call.pc = "reset" /\ call.rw = "read" /\ call.lba = 0 /\ call.n = 0 /\ call.left = 0
      /\ page_data = -1 /\ out = <<>> /\ disk = [pos \in Positions |-> Number(pos)]
      /\ before = disk
  BY DEF Init, Idle
<1>2. disk \in [Positions -> Int]
  <2>1. \A pos \in Positions : Number(pos) \in Int
    BY FloppyAssumption DEF Positions, Number
  <2> QED BY <1>1, <2>1
<1>3. out \in Seq(Int) /\ Len(out) = 0
  BY <1>1
<1>4. Done = 0 /\ First = 0 /\ ~ Ended /\ ~ Good
  BY <1>1 DEF Done, First, Ended, Good
<1>5. DataShape
  BY <1>1, <1>2, <1>3, <1>4 DEF DataShape
<1>6. Aimed
  BY <1>1, <1>4 DEF Aimed, InBlock, InCall
<1>7. ReadSoFar
  BY <1>3, <1>4 DEF ReadSoFar
<1>8. WrittenSoFar
  BY <1>1 DEF WrittenSoFar
<1> QED BY <1>5, <1>6, <1>7, <1>8 DEF DataInv

LEMMA ReadInOrder == DataInv => ReadReturnsSectors
<1> DEFINE first == call.lba - call.n
<1> SUFFICES ASSUME DataInv, Finished, call.rw = "read", ~ unnoticed, OnDisk(first, call.n)
             PROVE  out = [i \in 1 .. call.n |-> At(disk, first + i - 1)]
  BY DEF ReadReturnsSectors
<1>1. call.left = 0 /\ call.lba \in Nat /\ call.n \in Nat /\ out \in Seq(Int)
  BY DEF DataInv, Aimed, Through, DataShape
<1>2. Done = call.n /\ First = first /\ first \in Nat
  BY <1>1 DEF Done, First, DataInv, DataShape
<1> HIDE DEF first
<1>3. /\ Len(out) = call.n
      /\ \A i \in 1 .. call.n : out[i] = disk[floppy_get_position(first + i - 1)]
  BY <1>2 DEF DataInv, ReadSoFar
<1>4. ASSUME NEW i \in 1 .. call.n PROVE out[i] = At(disk, first + i - 1)
  <2>1. first + i - 1 \in Nat /\ first + i - 1 < tracks * heads * sectors
    <3> DEFINE size == tracks * heads * sectors
    <3>1. size \in Nat /\ first + call.n <= size
      BY FloppyAssumption DEF OnDisk
    <3> HIDE DEF size
    <3>2. first + i - 1 \in Nat /\ first + i - 1 < size
      BY <1>1, <1>2, <3>1
    <3> QED BY <3>2 DEF size
  <2> QED BY <1>3, <2>1, AtPosition DEF At
<1>5. out = [i \in 1 .. Len(out) |-> out[i]]
  BY <1>1
<1> QED BY <1>3, <1>4, <1>5

LEMMA WrittenInOrder == DataInv => WriteHitsSectors
<1> DEFINE first == call.lba - call.n
<1> SUFFICES ASSUME DataInv, Finished, call.rw = "write", ~ unnoticed, first >= 0,
                    OnDisk(first, call.n), NEW lba \in 0 .. tracks * heads * sectors - 1
             PROVE  At(disk, lba) = IF lba \in first .. first + call.n - 1
                                    THEN ToWrite(lba - first + 1) ELSE At(before, lba)
  BY DEF WriteHitsSectors
<1>1. call.left = 0 /\ call.lba \in Nat /\ call.n \in Nat
  BY DEF DataInv, Aimed, Through, DataShape
<1>2. Done = call.n /\ First = first
  BY <1>1 DEF Done, First
<1>3. Written = call.n
  BY <1>2 DEF Written, Good, Ended, Finished
<1> HIDE DEF first
<1>4. \A pos \in Positions :
        disk[pos] = IF Number(pos) \in first .. first + call.n - 1
                    THEN ToWrite(Number(pos) - first + 1) ELSE before[pos]
  BY <1>2, <1>3 DEF DataInv, WrittenSoFar
<1>5. lba \in Nat /\ lba < tracks * heads * sectors
  <2>1. tracks * heads * sectors \in Nat
    BY FloppyAssumption
  <2> QED BY <2>1
<1> QED BY <1>4, <1>5, PositionFound, AtPosition DEF At

LEMMA DataAlways == Spec => []DataInv
<1>1. Init => FInv /\ DInv /\ DataInv
  BY InitPrepared, InitData
<1>2. FInv /\ DInv /\ DataInv /\ [Next]_vars => (FInv /\ DInv /\ DataInv)'
  BY NextKeeps, NextPrepared, NextData DEF Keeps
<1> QED BY <1>1, <1>2, PTL DEF Spec

(* What floppy_read stored, when it answers 0 and no error went unnoticed, *)
(* is the sectors that were asked for, in their order: every retry aims at *)
(* the same sector, and floppy_get_position is the numbering's inverse     *)
(* wherever the disk has such a sector, on a disk of any format.           *)
THEOREM ReadsWhatWasAsked == Spec => []ReadReturnsSectors
BY DataAlways, ReadInOrder, PTL

(* What floppy_write changed, under the same condition, is the sectors of  *)
(* the request and nothing else, as long as their numbers fit an INT8U.    *)
THEOREM WritesWhatWasAsked == Spec => []WriteHitsSectors
BY DataAlways, WrittenInOrder, PTL
=============================================================================
