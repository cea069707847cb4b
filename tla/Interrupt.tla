------------------------------ MODULE Interrupt ------------------------------
(***************************************************************************)
(* Hardware interrupts: the two cascaded 8259A controllers as              *)
(* interrupt/interrupt.c programs them, the stubs of interrupt/isr.asm and *)
(* isr_dispatcher.  A line is named by its number, 0 to 7 on the master, 8 *)
(* to 15 on the slave, whose output is the master's line 2.                *)
(*                                                                         *)
(* The gates are interrupt gates: the processor's interrupt flag is off    *)
(* from the delivery to the iret, so handlers do not nest.                 *)
(***************************************************************************)
EXTENDS Integers, FiniteSets

CONSTANTS
    Devices,        \* the lines that devices raise
    MaxRaise        \* bound: how often each device raises its line

ASSUME InterruptAssumption == Devices \subseteq 0 .. 15 \ {2} /\ MaxRaise \in Nat

INTERRUPT_IDT_NUM           == 48
INTERRUPT_PIC_VECTOR1_START == 32
INTERRUPT_PIC_VECTOR2_START == 40
Cascade == 2
Master  == 0 .. 7
Slave   == 8 .. 15

VARIABLES
    imr,        \* the masked lines
    irr,        \* the lines with a request
    isr,        \* the lines in service
    handler,    \* the vectors that have a handler in interrupt_isr_vector
    isr_num,    \* the number the running stub pushed, NoIsr outside of handlers
    ran,        \* history: the line whose handler ran last
    raised      \* how often each device raised its line

interrupt_vars == <<imr, irr, isr, handler, isr_num, ran, raised>>

NoIsr == -1

(* Faulty: the master is left fully masked.                                *)
RemapMasksAll == imr = Master /\ irr = {} /\ isr = {}

(* The last two writes are the masks: 0x01 to the master, 0 to the slave.  *)
interrupt_pic_remap == imr = {0} /\ irr = {} /\ isr = {}

(* After interrupt_init, interrupts are enabled and no handler is set.     *)
InterruptInit ==
    /\ interrupt_pic_remap
    /\ handler = {}
    /\ isr_num = NoIsr
    /\ ran = NoIsr
    /\ raised = [d \in Devices |-> 0]

-----------------------------------------------------------------------------
(* The 8259A.  A controller forwards its most urgent request when that is  *)
(* more urgent than everything it has in service.                          *)

Urgent(lines) == CHOOSE n \in lines : \A m \in lines : n <= m

Forwards(lines, requests) ==
    {n \in requests \ imr : /\ \A m \in requests \ imr : n <= m
                            /\ \A m \in isr \cap lines : n < m}

SlaveOut == Forwards(Slave, irr \cap Slave)

MasterOut ==
    Forwards(Master, (irr \cap Master) \cup (IF SlaveOut # {} THEN {Cascade} ELSE {}))

(* A non-specific EOI ends the most urgent line in service.                *)
Eoi(lines) ==
    isr' = IF isr \cap lines = {} THEN isr ELSE isr \ {Urgent(isr \cap lines)}

Raise(d) ==
    /\ d \notin irr
    /\ raised[d] < MaxRaise
    /\ irr' = irr \cup {d}
    /\ raised' = [raised EXCEPT ![d] = @ + 1]
    /\ UNCHANGED <<imr, isr, handler, isr_num, ran>>

-----------------------------------------------------------------------------
(* The numbers the stubs push.  Those of the lines 13 to 15 are off.       *)
StubNumber(line) ==
    IF line \in 13 .. 15 THEN 48 + (line - 13) ELSE INTERRUPT_PIC_VECTOR1_START + line

(* The processor acknowledges a request and enters the line's stub.        *)
Deliver ==
    /\ isr_num = NoIsr
    /\ \E n \in MasterOut : \E line \in IF n = Cascade THEN SlaveOut ELSE {n} :
          /\ irr' = irr \ {line}
          /\ isr' = isr \cup {n, line}
          /\ isr_num' = StubNumber(line)
    /\ UNCHANGED <<imr, handler, ran, raised>>

(* Faulty: the EOI of the slave goes to the master alone.                  *)
EoiMasterOnly(num) ==
    IF num \in INTERRUPT_PIC_VECTOR1_START .. INTERRUPT_PIC_VECTOR2_START + 7
    THEN Eoi(Master)
    ELSE UNCHANGED isr

(* Each EOI goes to one controller.                                        *)
SendEoi(num) ==
    IF num \in INTERRUPT_PIC_VECTOR1_START .. INTERRUPT_PIC_VECTOR1_START + 7
    THEN Eoi(Master)
    ELSE IF num \in INTERRUPT_PIC_VECTOR2_START .. INTERRUPT_PIC_VECTOR2_START + 7
    THEN Eoi(Slave)
    ELSE UNCHANGED isr

(* The handler runs, or a message is printed when there is none; then the  *)
(* EOI and the return.  A number past the table reads what lies behind it  *)
(* and calls it; the model takes the case in which that comes back.        *)
isr_dispatcher ==
    /\ isr_num # NoIsr
    /\ IF isr_num \in handler
       THEN ran' = isr_num - INTERRUPT_PIC_VECTOR1_START
       ELSE UNCHANGED ran
    /\ SendEoi(isr_num)
    /\ isr_num' = NoIsr
    /\ UNCHANGED <<imr, irr, handler, raised>>

(* The drivers install their handlers with interrupts enabled.             *)
interrupt_set_isr_handler(idt_sel) ==
    /\ isr_num = NoIsr
    /\ idt_sel <= INTERRUPT_IDT_NUM
    /\ handler' = handler \cup {idt_sel}
    /\ UNCHANGED <<imr, irr, isr, isr_num, ran, raised>>

InterruptNext ==
    \/ \E d \in Devices : Raise(d)
    \/ Deliver
    \/ isr_dispatcher
    \/ \E d \in Devices : interrupt_set_isr_handler(INTERRUPT_PIC_VECTOR1_START + d)

(* The processor takes interrupts between any two instructions, and a      *)
(* handler runs to its end.                                                *)
InterruptSpec ==
    /\ InterruptInit
    /\ [][InterruptNext]_interrupt_vars
    /\ WF_interrupt_vars(Deliver) /\ WF_interrupt_vars(isr_dispatcher)

-----------------------------------------------------------------------------
Installed(d) == INTERRUPT_PIC_VECTOR1_START + d \in handler

(* The EOI of a slave's line does not reach the master: behind it the      *)
(* cascade line, and nothing else, stays in service.                       *)
OnlyCascadeStuck == isr_num = NoIsr => isr \subseteq {Cascade}

(* Every request of a line whose handler is installed is delivered, and    *)
(* makes it run, unless the line comes behind the cascade and that is      *)
(* stuck: so the keyboard's, whose line is more urgent, is served always.  *)
EveryRequestServed ==
    \A d \in Devices :
        LET num == INTERRUPT_PIC_VECTOR1_START + d IN
        /\ (d \in irr /\ Installed(d)) ~> (isr_num = num \/ (d > Cascade /\ Cascade \in isr))
        /\ (isr_num = num /\ Installed(d)) ~> (isr_num # num /\ ran = d)

=============================================================================
