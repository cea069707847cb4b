------------------------------- MODULE Floppy -------------------------------
(***************************************************************************)
(* The floppy driver, drivers/floppy.c, with drivers/dma.c: floppy_init,   *)
(* floppy_read and floppy_write on the first drive, the interrupt handler  *)
(* that wakes them, and the hardware they drive: the controller, which     *)
(* executes one command at a time and raises an interrupt at its end, and  *)
(* the DMA channel, which moves a sector between the drive and a page from *)
(* alloc_low_mem_page.  A status register is the set of its bits.          *)
(*                                                                         *)
(* The controller always accepts a command and always ends it, well or     *)
(* badly.  With one that does not, floppy_wait spins for ever.             *)
(***************************************************************************)
EXTENDS Integers, FiniteSets, SequencesExt

CONSTANTS
    PAGE_MEM_SIZE, BITS, PHYSICAL_LOW_MEM, physical_mem_size, free_mem_start,
    heads, tracks, sectors,     \* the format, from floppy_info
    FLOPPY_RETRY_MAX,
    BYTE,                       \* 2^8: the width of INT8U
    Errors,                     \* how a transfer may fail
    Requests                    \* calls: [rw, lba, n]

ASSUME FloppyAssumption ==
    /\ heads \in {1, 2}                           \* a head is sent in one bit
    /\ tracks \in Nat \ {0} /\ sectors \in Nat \ {0}
    /\ FLOPPY_RETRY_MAX \in Nat \ {0}
    /\ BYTE \in Nat /\ BYTE > sectors /\ BYTE > tracks
    /\ PHYSICAL_LOW_MEM <= BYTE * BYTE * BYTE      \* 16 MB: what the channel reaches
    /\ Errors \subseteq {"address_mark", "not_writable", "no_data", "crc"}
    /\ Requests \subseteq [rw : {"read", "write"}, lba : Nat, n : Nat]

VARIABLES
    bitmap, free_mem_size, other,   \* the page allocator; pages others hold
    floppy_interrupt_flag,
    call,           \* the call in progress
    dma,            \* the registers of the DMA channel: start, page and direction
    page_data,      \* what the page of the call in progress contains
    motor,          \* the motor bit of the drive in the DOR
    fdc,            \* the controller: the command it executes, its last results
    irq,            \* the controller's interrupt line
    disk,           \* the sectors, by track, head and sector
    out,            \* what floppy_read stored in the caller's buffer
    before,         \* history: the disk when the call began
    unnoticed       \* history: an error reported in a bit nobody looks at

driver   == <<floppy_interrupt_flag, call, motor>>
memory   == <<bitmap, free_mem_size, other>>
history  == <<before, unnoticed>>
vars == <<bitmap, free_mem_size, other, floppy_interrupt_flag, call, dma, page_data, motor,
          fdc, irq, disk, out, before, unnoticed>>

Held == [c \in {"floppy", "other"} |->
            IF c = "other" THEN other ELSE IF call.page = 0 THEN {} ELSE {call.page}]

Mem == INSTANCE Physical WITH Clients <- {"floppy", "other"}, held <- Held

(* Memory is as physical_mem_init leaves it on a machine that has booted.  *)
ASSUME MemoryAssumption == Mem!SizeAssumption /\ Mem!BootAssumption

NULL == Mem!NULL

(* call.pc is where the code stands; call.page the DMA buffer.             *)
Idle == [pc |-> "idle", rw |-> "read", lba |-> 0, n |-> 0, left |-> 0, page |-> NULL,
         retry |-> 0, result |-> 0]

Positions == (0 .. tracks - 1) \X (0 .. heads - 1) \X (1 .. sectors)

(* The logical number of a sector.                                         *)
Number(pos) == (pos[1] * heads + pos[2]) * sectors + pos[3] - 1

(* floppy_init: the handler is installed, and the controller reset.        *)
Init ==
    /\ Mem!physical_mem_init
    /\ other = {}
    /\ floppy_interrupt_flag = FALSE
    /\ call = [Idle EXCEPT !.pc = "reset"]
    /\ dma = [start |-> <<0, 0>>, page |-> 0, rw |-> "read"]
    /\ page_data = -1
    /\ motor = FALSE
    /\ fdc = [cmd |-> "none", pos |-> <<0, 0, 1>>, st0 |-> {}, st1 |-> {}, pcn |-> 0]
    /\ irq = FALSE
    /\ disk = [pos \in Positions |-> Number(pos)]
    /\ out = <<>>
    /\ before = disk
    /\ unnoticed = FALSE

-----------------------------------------------------------------------------
(* The hardware.                                                           *)

Send(cmd, pos) == fdc' = [fdc EXCEPT !.cmd = cmd, !.pos = pos]

(* How a transfer ends: the bits of status registers 0 and 1.  There is no *)
(* sector to be found past the last track.                                 *)
Outcomes ==
    LET error(bit) == [st0 |-> {6}, st1 |-> {bit}]
        possible   == Errors \cup {"none"}
    IN  IF fdc.pos \notin Positions THEN {error(2)}
        ELSE {CASE e = "none"         -> [st0 |-> {}, st1 |-> {}]
                [] e = "address_mark" -> error(0)
                [] e = "not_writable" -> error(1)
                [] e = "no_data"      -> error(2)
                [] e = "crc"          -> error(5) :
              e \in {f \in possible : f = "not_writable" => fdc.cmd = "write"}}

(* The channel's address: its start register, which dma_setup writes byte  *)
(* by byte, and its page register, a byte.                                 *)
DmaAddress == (dma.page * BYTE + dma.start[2]) * BYTE + dma.start[1]

(* A sector with a CRC error is transferred all the same.                  *)
Transfer(end) ==
    /\ page_data' = IF fdc.cmd # "read" \/ DmaAddress # call.page THEN page_data
                    ELSE IF end.st1 = {} THEN disk[fdc.pos]
                    ELSE IF end.st1 = {5} THEN -1 ELSE page_data
    /\ disk' = IF fdc.cmd = "write" /\ end.st1 = {}
               THEN [disk EXCEPT ![fdc.pos] = page_data] ELSE disk
    /\ unnoticed' = (unnoticed \/ end.st1 \notin {{}, {0}})

Execute ==
    /\ fdc.cmd # "none"
    /\ irq' = TRUE
    /\ \/ /\ fdc.cmd = "reset"
          /\ fdc' = [fdc EXCEPT !.cmd = "none"]
          /\ UNCHANGED <<page_data, disk, unnoticed>>
       \/ /\ fdc.cmd = "seek"
          /\ \/ fdc' = [fdc EXCEPT !.cmd = "none", !.st0 = {5}, !.pcn = fdc.pos[1]]
             \/ fdc' = [fdc EXCEPT !.cmd = "none", !.st0 = {5, 6}]
          /\ UNCHANGED <<page_data, disk, unnoticed>>
       \/ /\ fdc.cmd \in {"read", "write"}
          /\ \E end \in Outcomes :
                /\ fdc' = [fdc EXCEPT !.cmd = "none", !.st0 = end.st0, !.st1 = end.st1]
                /\ Transfer(end)
    /\ UNCHANGED <<memory, driver, dma, out, before>>

(* The interrupt handler.                                                  *)
floppy_handler ==
    /\ irq
    /\ irq' = FALSE
    /\ floppy_interrupt_flag' = TRUE
    /\ UNCHANGED <<memory, call, dma, page_data, motor, fdc, disk, out, history>>

-----------------------------------------------------------------------------
(* The driver.                                                             *)

(* Faulty: the head changes with each sector.                              *)
PositionByHead(lba) ==
    << (lba \div (heads * sectors)) % BYTE,
       (lba % heads) % BYTE,
       (((lba % (heads * sectors)) \div heads) + 1) % BYTE >>

floppy_get_position(lba) ==
    << (lba \div (heads * sectors)) % BYTE,
       ((lba % (heads * sectors)) \div sectors) % BYTE,
       ((lba % sectors) + 1) % BYTE >>

Goto(pc) == call' = [call EXCEPT !.pc = pc]

(* Faulty: floppy_wait leaves the flag set.                                *)
KeepFlag == UNCHANGED floppy_interrupt_flag

ClearFlag == floppy_interrupt_flag' = FALSE

(* floppy_wait: the flag is seen, then cleared.                            *)
Poll(pc, next) ==
    /\ call.pc = pc
    /\ floppy_interrupt_flag
    /\ Goto(next)
    /\ UNCHANGED <<memory, floppy_interrupt_flag, dma, page_data, motor, fdc, irq, disk, out,
                   history>>

Reset ==
    /\ call.pc = "reset"
    /\ Send("reset", fdc.pos)
    /\ motor' = FALSE
    /\ Goto("reset_poll")
    /\ UNCHANGED <<memory, floppy_interrupt_flag, dma, page_data, irq, disk, out, history>>

ResetDone ==
    /\ call.pc = "reset_clear"
    /\ ClearFlag
    /\ Goto("idle")
    /\ UNCHANGED <<memory, dma, page_data, motor, fdc, irq, disk, out, history>>

(* Faulty: the buffer is any page.                                         *)
AnyBuffer == Mem!alloc_mem_page

Buffer == Mem!alloc_low_mem_page

(* dma_read and dma_write: the channel, masked meanwhile, is given three   *)
(* bytes of an address, and a sector to transfer again and again.          *)
dma_setup(addr, rw) ==
    dma' = [start |-> <<addr % BYTE, (addr \div BYTE) % BYTE>>,
            page  |-> (addr \div (BYTE * BYTE)) % BYTE, rw |-> rw]

(* floppy_read or floppy_write is called: the DMA buffer is allocated and  *)
(* the channel set up, once for all sectors, as it reloads itself.  A call *)
(* that gets no page, or asks for no sector, answers -1 and does nothing.  *)
(* The sector number of floppy_write is an INT8U.                          *)
Begin(req) ==
    LET lba == IF req.rw = "write" THEN req.lba % BYTE ELSE req.lba
        p   == Buffer
    IN  /\ call.pc = "idle"
        /\ req.n > 0
        /\ p # NULL
        /\ Mem!Take(p)
        /\ call' = [Idle EXCEPT !.pc = "block", !.rw = req.rw, !.lba = lba, !.n = req.n,
                                !.left = req.n, !.page = p]
        /\ dma_setup(p, req.rw)
        /\ page_data' = -1
        /\ out' = <<>>
        /\ before' = disk
        /\ unnoticed' = FALSE
        /\ UNCHANGED <<other, floppy_interrupt_flag, motor, fdc, irq, disk>>

(* What the caller wants in the i-th sector that is written.               *)
ToWrite(i) == -1 - i

(* The limits are checked with one too many tracks and heads allowed.      *)
InRange(pos) == pos[2] <= heads /\ pos[1] <= tracks /\ pos[3] <= sectors

(* The next sector: floppy_write copies it to the DMA buffer;              *)
(* floppy_rw_block checks the position and turns the motor on.             *)
Block ==
    /\ call.pc = "block"
    /\ page_data' = IF call.rw = "write" THEN ToWrite(call.n - call.left + 1) ELSE page_data
    /\ IF InRange(floppy_get_position(call.lba))
       THEN /\ motor' = TRUE
            /\ call' = [call EXCEPT !.pc = "seek", !.retry = 0]
       ELSE /\ call' = [call EXCEPT !.pc = "end", !.result = -1]
            /\ UNCHANGED motor
    /\ UNCHANGED <<memory, floppy_interrupt_flag, dma, fdc, irq, disk, out, history>>

RetriesLeft == call.retry < FLOPPY_RETRY_MAX

(* A command is sent, from the loop of floppy_seek or floppy_rw_block.     *)
Command(pc, cmd, next) ==
    /\ call.pc = pc
    /\ RetriesLeft
    /\ Send(cmd, floppy_get_position(call.lba))
    /\ call' = [call EXCEPT !.pc = next, !.retry = @ + 1]
    /\ UNCHANGED <<memory, floppy_interrupt_flag, dma, page_data, motor, irq, disk, out, history>>

(* Faulty: the sector is begun again.                                      *)
GiveUpNever ==
    /\ motor' = FALSE
    /\ Goto("block")

GiveUp ==
    /\ motor' = FALSE
    /\ call' = [call EXCEPT !.pc = "end", !.result = -1]

(* The retries of either loop are used up.                                 *)
Fails ==
    /\ call.pc \in {"seek", "rw"}
    /\ ~ RetriesLeft
    /\ GiveUp
    /\ UNCHANGED <<memory, floppy_interrupt_flag, dma, page_data, fdc, irq, disk, out, history>>

(* Each test of the driver reads "status & mask != 0", which C takes for   *)
(* "status & (mask != 0)": whatever the mask, bit 0 is looked at.          *)
Noticed(status) == 0 \in status

(* The seek is over: it is tried again on a wrong track.  An abnormal end, *)
(* bit 6, goes by.  The motor is turned off behind a seek that succeeds,   *)
(* too.                                                                    *)
SeekDone ==
    /\ call.pc = "seek_clear"
    /\ ClearFlag
    /\ IF ~ Noticed(fdc.st0) /\ fdc.pcn = floppy_get_position(call.lba)[1]
       THEN motor' = FALSE /\ call' = [call EXCEPT !.pc = "rw", !.retry = 0]
       ELSE UNCHANGED motor /\ Goto("seek")
    /\ UNCHANGED <<memory, dma, page_data, fdc, irq, disk, out, history>>

(* Faulty: every transfer passes for a success.                            *)
NoError == 0

(* "Not writable" is looked for in bit 0 as well, and then overruled by    *)
(* the next test, so that rw_error is never 2.                             *)
rw_error == IF Noticed(fdc.st0 \cup fdc.st1) THEN 1 ELSE 0

Transferred ==
    /\ call.pc = "rw_clear"
    /\ ClearFlag
    /\ IF rw_error = 0
       THEN /\ motor' = FALSE
            /\ out' = IF call.rw = "read" THEN Append(out, page_data) ELSE out
            /\ call' = [call EXCEPT !.pc = IF call.left = 1 THEN "end" ELSE "block",
                                    !.left = @ - 1, !.result = 0,
                                    !.lba = IF call.rw = "write" THEN (@ + 1) % BYTE ELSE @ + 1]
       ELSE UNCHANGED <<motor, out>> /\ Goto("rw")
    /\ UNCHANGED <<memory, dma, page_data, fdc, irq, disk, history>>

(* Faulty: the buffer is lost.                                             *)
KeepBuffer == UNCHANGED <<bitmap, free_mem_size>>

ReleaseBuffer == Mem!free_mem_page(call.page)

(* The DMA buffer is given back.                                           *)
Return ==
    /\ call.pc = "end"
    /\ ReleaseBuffer
    /\ call' = [call EXCEPT !.pc = "idle", !.page = NULL]
    /\ UNCHANGED <<other, floppy_interrupt_flag, dma, page_data, motor, fdc, irq, disk, out,
                   history>>

Driver ==
    \/ Reset \/ Poll("reset_poll", "reset_clear") \/ ResetDone
    \/ Block
    \/ Command("seek", "seek", "seek_poll") \/ Poll("seek_poll", "seek_clear") \/ SeekDone
    \/ Command("rw", call.rw, "rw_poll") \/ Poll("rw_poll", "rw_clear") \/ Transferred
    \/ Fails
    \/ Return

(* Between calls the rest of the kernel uses the page allocator.           *)
OtherAlloc ==
    /\ call.pc = "idle"
    /\ Mem!alloc_mem_page # NULL
    /\ Mem!Take(Mem!alloc_mem_page)
    /\ other' = other \cup {Mem!alloc_mem_page}
    /\ UNCHANGED <<driver, dma, page_data, fdc, irq, disk, out, history>>

OtherFree ==
    /\ call.pc = "idle"
    /\ \E p \in other : Mem!free_mem_page(p) /\ other' = other \ {p}
    /\ UNCHANGED <<driver, dma, page_data, fdc, irq, disk, out, history>>

Next ==
    \/ \E req \in Requests : Begin(req)
    \/ Driver
    \/ Execute
    \/ floppy_handler
    \/ OtherAlloc
    \/ OtherFree

(* The processor runs on, takes interrupts, and the controller finishes    *)
(* what it was told.                                                       *)
Spec == Init /\ [][Next]_vars /\ WF_vars(Driver) /\ WF_vars(Execute) /\ WF_vars(floppy_handler)

-----------------------------------------------------------------------------
(* Each wait is for one interrupt and gets it once: while the driver waits *)
(* there is exactly one on its way, and none is left over from an earlier  *)
(* command to end a later wait too soon.                                   *)
OneInterruptPerWait ==
    LET underway == (IF fdc.cmd # "none" THEN 1 ELSE 0) + (IF irq THEN 1 ELSE 0)
                       + (IF floppy_interrupt_flag THEN 1 ELSE 0)
    IN  IF call.pc \in {"reset_poll", "seek_poll", "rw_poll"} THEN underway = 1
        ELSE IF call.pc \in {"reset_clear", "seek_clear", "rw_clear"}
        THEN underway = 1 /\ floppy_interrupt_flag
        ELSE underway = 0

(* While the controller transfers, the bytes dma_setup wrote name the page *)
(* the call allocated, and the transfer's direction: alloc_low_mem_page    *)
(* never answers with an address of more than three bytes.  That page is   *)
(* neither free nor anyone else's.                                         *)
DmaIntoOwnPage ==
    fdc.cmd \in {"read", "write"} =>
        /\ DmaAddress = call.page /\ dma.rw = fdc.cmd
        /\ call.page \notin bitmap \cup other \cup {NULL}

Finished == call.pc \in {"end", "idle"} /\ call.n > 0 /\ call.result = 0

(* The sector numbered lba, found by the definition of the numbering.      *)
At(contents, lba) == contents[CHOOSE pos \in Positions : Number(pos) = lba]

OnDisk(first, n) == first + n <= tracks * heads * sectors

(* floppy_read that answers 0 has stored the sectors that were asked for,  *)
(* unless the controller reported an error in a bit that is not looked at. *)
ReadReturnsSectors ==
    LET first == call.lba - call.n IN
    Finished /\ call.rw = "read" /\ ~ unnoticed /\ OnDisk(first, call.n) =>
        out = [i \in 1 .. call.n |-> At(disk, first + i - 1)]

(* floppy_write that answers 0 has changed the sectors it was given and no *)
(* others, under the same condition and as long as their numbers fit an    *)
(* INT8U.                                                                  *)
WriteHitsSectors ==
    LET first == call.lba - call.n IN
    Finished /\ call.rw = "write" /\ ~ unnoticed /\ first >= 0 /\ OnDisk(first, call.n) =>
        \A lba \in 0 .. tracks * heads * sectors - 1 :
            At(disk, lba) = IF lba \in first .. first + call.n - 1
                            THEN ToWrite(lba - first + 1) ELSE At(before, lba)

(* The driver takes one page for each call and returns it once.            *)
MemSpec == Mem!Spec

(* Every call returns, whatever fails and however often, and leaves the    *)
(* motor off and the buffer given back.                                    *)
CallsReturn ==
    call.pc # "idle" ~> (call.pc = "idle" /\ ~ motor /\ call.page = NULL)

=============================================================================
