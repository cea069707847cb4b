---------------------------- MODULE InputProofs -----------------------------
(***************************************************************************)
(* The way of a key to the screen.  The interrupt controllers: what stays  *)
(* in service behind an interrupt, for any set of devices on the lines     *)
(* whose stubs push their own number.  The keyboard driver: its modifiers  *)
(* and its prefix flag, for every keyboard whose codes are those of the    *)
(* tables, and however many bytes the keyboard holds back before           *)
(* keyboard_handler runs.  The console it prints on, for a screen of any   *)
(* size.                                                                   *)
(***************************************************************************)
EXTENDS Interrupt, Keyboard, WellFoundedInduction, TLAPS

-----------------------------------------------------------------------------
(* The interrupt controllers.                                              *)

(* The lines that can be in service at the end of a handler and while the  *)
(* handler of "line" runs.  A master's line is then the most urgent one of *)
(* the master, so that the EOI ends it and not the cascade.                *)
InService ==
    /\ irr \subseteq Devices
    /\ isr_num = NoIsr => isr \subseteq {Cascade}
    /\ isr_num # NoIsr =>
          \E line \in Devices :
              /\ isr_num = StubNumber(line)
              /\ isr \subseteq {line, Cascade} /\ line \in isr
              /\ line \in Master /\ Cascade \in isr => line < Cascade

(* The choice of the most urgent line is well defined where it is made.    *)
LEMMA UrgentOfMaster ==
    ASSUME NEW line \in Master, NEW lines, lines \subseteq {line, Cascade},
           line \in lines, Cascade \in lines => line <= Cascade
    PROVE  Urgent(lines) = line
<1>1. line \in lines /\ \A m \in lines : line <= m
  BY DEF Master, Cascade
<1>2. \A n \in lines : (\A m \in lines : n <= m) => n = line
  BY DEF Master, Cascade
<1> QED BY <1>1, <1>2 DEF Urgent

LEMMA UrgentOfOne ==
    ASSUME NEW line \in Int
    PROVE  Urgent({line}) = line
<1>1. \A m \in {line} : line <= m
  OBVIOUS
<1> QED BY <1>1 DEF Urgent

LEMMA DeliverInService ==
    ASSUME InService, Deliver
    PROVE  InService'
<1> PICK n \in MasterOut : \E line \in IF n = Cascade THEN SlaveOut ELSE {n} :
          /\ irr' = irr \ {line}
          /\ isr' = isr \cup {n, line}
          /\ isr_num' = StubNumber(line)
  BY DEF Deliver
<1>1. PICK line \in IF n = Cascade THEN SlaveOut ELSE {n} :
          /\ irr' = irr \ {line}
          /\ isr' = isr \cup {n, line}
          /\ isr_num' = StubNumber(line)
  OBVIOUS
<1>2. isr \subseteq {Cascade}
  BY DEF InService, Deliver
<1>3. isr_num' # NoIsr
  BY <1>1, InterruptAssumption DEF StubNumber, NoIsr, INTERRUPT_PIC_VECTOR1_START, InService,
     MasterOut, SlaveOut, Forwards, Cascade, Slave, Master
<1>4. CASE n = Cascade
  <2>1. line \in irr /\ line \in Slave
    BY <1>1, <1>4 DEF SlaveOut, Forwards
  <2>2. isr' = {Cascade, line}
    BY <1>1, <1>2, <1>4
  <2>3. line \notin Master /\ line \in Devices
    BY <2>1 DEF Slave, Master, InService
  <2> QED BY <1>1, <1>3, <2>2, <2>3 DEF InService
<1>5. CASE n # Cascade
  <2>1. line = n /\ line \in irr /\ line \in Master
    BY <1>1, <1>5 DEF MasterOut, Forwards
  <2>2. Cascade \in isr => line < Cascade
    BY <1>1, <1>5, <2>1 DEF MasterOut, Forwards, Master, Cascade
  <2>3. isr' \subseteq {line, Cascade} /\ line \in isr'
    BY <1>1, <1>2, <2>1
  <2>4. Cascade \in isr' => line < Cascade
    BY <1>1, <1>5, <2>1, <2>2
  <2> QED BY <1>1, <1>3, <2>1, <2>3, <2>4 DEF InService
<1> QED BY <1>4, <1>5

LEMMA DispatcherInService ==
    ASSUME Devices \cap 13 .. 15 = {}, InService, isr_dispatcher
    PROVE  InService'
<1>1. PICK line \in Devices :
          /\ isr_num = StubNumber(line)
          /\ isr \subseteq {line, Cascade} /\ line \in isr
          /\ line \in Master /\ Cascade \in isr => line < Cascade
  BY DEF InService, isr_dispatcher
<1>2. line \in 0 .. 12 /\ line # Cascade
  BY InterruptAssumption DEF Cascade
<1>3. isr_num = INTERRUPT_PIC_VECTOR1_START + line
  BY <1>1, <1>2 DEF StubNumber
<1>4. isr' \subseteq {Cascade}
  <2>1. CASE line \in Master
    <3>1. Eoi(Master)
      BY <1>2, <1>3, <2>1 DEF isr_dispatcher, SendEoi, Master, INTERRUPT_PIC_VECTOR1_START,
         INTERRUPT_PIC_VECTOR2_START
    <3>2. Urgent(isr \cap Master) = line
      BY <1>1, <2>1, UrgentOfMaster DEF Master, Cascade
    <3>3. isr \cap Master # {}
      BY <1>1, <2>1
    <3> QED BY <1>1, <3>1, <3>2, <3>3 DEF Eoi
  <2>2. CASE line \in Slave
    <3>1. Eoi(Slave)
      BY <1>2, <1>3, <2>2 DEF isr_dispatcher, SendEoi, Slave, INTERRUPT_PIC_VECTOR1_START,
         INTERRUPT_PIC_VECTOR2_START
    <3>2. isr \cap Slave = {line}
      BY <1>1, <2>2 DEF Slave, Cascade
    <3>3. Urgent(isr \cap Slave) = line
      BY <3>2, <2>2, UrgentOfOne DEF Slave
    <3> QED BY <1>1, <3>1, <3>2, <3>3 DEF Eoi
  <2> QED BY <1>2, <2>1, <2>2 DEF Master, Slave
<1>5. isr_num' = NoIsr /\ irr' = irr
  BY DEF isr_dispatcher
<1> QED BY <1>4, <1>5 DEF InService

LEMMA NextInService ==
    ASSUME Devices \cap 13 .. 15 = {}, InService, [InterruptNext]_interrupt_vars
    PROVE  InService'
<1>1. CASE UNCHANGED interrupt_vars
  BY <1>1 DEF interrupt_vars, InService
<1>2. ASSUME NEW d \in Devices, Raise(d) PROVE InService'
  BY <1>2 DEF Raise, InService
<1>3. CASE Deliver
  BY <1>3, DeliverInService
<1>4. CASE isr_dispatcher
  BY <1>4, DispatcherInService
<1>5. ASSUME NEW v, interrupt_set_isr_handler(v) PROVE InService'
  BY <1>5 DEF interrupt_set_isr_handler, InService
<1> QED BY <1>1, <1>2, <1>3, <1>4, <1>5 DEF InterruptNext

(* Whatever devices there are on the lines 0 to 12, and however often they *)
(* raise them, between handlers nothing but the cascade is in service: the *)
(* EOI of isr_dispatcher ends the line whose handler ran.  For the lines   *)
(* 13 to 15 this is false, since their stubs push another number.          *)
THEOREM OnlyCascadeStays ==
    ASSUME Devices \cap 13 .. 15 = {}
    PROVE  InterruptSpec => []OnlyCascadeStuck
<1>1. InterruptInit => InService
  BY DEF InterruptInit, interrupt_pic_remap, InService
<1>2. InService /\ [InterruptNext]_interrupt_vars => InService'
  BY NextInService
<1>3. InService => OnlyCascadeStuck
  BY DEF InService, OnlyCascadeStuck
<1> QED BY <1>1, <1>2, <1>3, PTL DEF InterruptSpec

-----------------------------------------------------------------------------
(* The keyboard.                                                           *)

ModifierCodes == {KEYBOARD_KEY_LCTRL, KEYBOARD_KEY_LSHFT, KEYBOARD_KEY_RSHFT, KEYBOARD_KEY_LALT,
                  KEYBOARD_KEY_CAPS, KEYBOARD_KEY_NUM, KEYBOARD_KEY_SCROLL}

LEMMA ModifierFacts ==
    /\ DOMAIN ModifierOf = ModifierCodes
    /\ \A c \in ModifierCodes : ModifierOf[c] \in Modifiers
    /\ KEYBOARD_KEY_MULTI \notin ModifierCodes
    /\ \A c \in ModifierCodes : c \in 1 .. \h58
BY DEF ModifierOf, ModifierCodes, Modifiers, KEYBOARD_KEY_LCTRL, KEYBOARD_KEY_LSHFT,
       KEYBOARD_KEY_RSHFT, KEYBOARD_KEY_LALT, KEYBOARD_KEY_CAPS, KEYBOARD_KEY_NUM,
       KEYBOARD_KEY_SCROLL, KEYBOARD_KEY_MULTI

-----------------------------------------------------------------------------
(* The bytes the keyboard sends and the characters that are printed.       *)

Codes == {key.code : key \in Keys}

Sendable == {KEYBOARD_KEY_MULTI} \cup Codes \cup {c + \h80 : c \in Codes}

Chars == {keyboard_scode_no_shift[c] : c \in 1 .. \h58}
            \cup {keyboard_scode_with_shift[c] : c \in 1 .. \h58} \cup {"k", NewLine}

Shape ==
    /\ queue \in Seq(Sendable)
    /\ text \in Seq(Chars)
    /\ keyboard_key_multi \in {0, 1} /\ prefix \in BOOLEAN
    /\ detours \in Nat /\ swallowed \in Nat
    /\ modifier \in [Modifiers -> {0, 1}]

(* Of a byte the handler makes the code of a key again, and whether the    *)
(* key went down.                                                          *)
LEMMA ByteDecoded ==
    /\ \A c \in Codes : /\ ScanCode(c) = c /\ ~ IsBreak(c)
                        /\ ScanCode(c + \h80) = c /\ IsBreak(c + \h80)
                        /\ c \in 1 .. \h58 /\ c # KEYBOARD_KEY_MULTI
    /\ ScanCode(KEYBOARD_KEY_MULTI) = KEYBOARD_KEY_MULTI /\ ~ IsBreak(KEYBOARD_KEY_MULTI)
BY KeyboardAssumption DEF Codes, ScanCode, IsBreak, KEYBOARD_KEY_MULTI

LEMMA ScanCodeType ==
    ASSUME NEW byte \in Sendable
    PROVE  ScanCode(byte) \in Codes \cup {KEYBOARD_KEY_MULTI}
BY ByteDecoded DEF Sendable

LEMMA PutCharWrites ==
    ASSUME text \in Seq(Chars), NEW chr \in Chars, console_put_char(chr)
    PROVE  text' \in Seq(Chars) /\ text' # text
<1>1. text' = Append(text, chr)
  BY DEF console_put_char
<1>2. Len(text') = Len(text) + 1 /\ Len(text) \in Nat
  BY <1>1
<1> QED BY <1>1, <1>2

LEMMA PrintKeyWrites ==
    ASSUME text \in Seq(Chars), NEW code \in 1 .. \h58, NEW make, PrintKey(code, make)
    PROVE  /\ text' \in Seq(Chars)
           /\ IF make = 1 THEN text' # text ELSE text' = text
<1>1. keyboard_scode_no_shift[code] \in Chars /\ keyboard_scode_with_shift[code] \in Chars
  BY DEF Chars
<1>2. CASE make = 1
  BY <1>1, <1>2, PutCharWrites DEF PrintKey
<1>3. CASE make # 1
  BY <1>3 DEF PrintKey, console_vars
<1> QED BY <1>2, <1>3

-----------------------------------------------------------------------------
(* What one byte does, case by case.                                       *)

LEMMA HandlerCases ==
    ASSUME Shape, keyboard_handler
    PROVE  LET byte == Head(queue)
               code == ScanCode(byte)
               make == IF IsBreak(byte) THEN 0 ELSE 1
           IN  /\ byte \in Sendable /\ code \in Codes \cup {KEYBOARD_KEY_MULTI}
               /\ \/ SetModifier(code, make) /\ text' = text
                  \/ IgnoreKey(code) /\ text' = text
                  \/ SetMulti(code) /\ text' = text
                  \/ /\ Reaches(code) /\ code \in Codes
                     /\ \/ /\ FunctionKey(code, make)
                           /\ text' # text => code \in {KEYBOARD_KEY_KP_ENTER, KEYBOARD_KEY_KP_SLASH}
                        \/ /\ PlainKey(code, make)
                           /\ make = 1 => text' # text
               /\ make = 0 => text' = text
               /\ Shape'
<1> DEFINE byte == Head(queue)
           code == ScanCode(byte)
           make == IF IsBreak(byte) THEN 0 ELSE 1
<1>1. byte \in Sendable /\ code \in Codes \cup {KEYBOARD_KEY_MULTI} /\ queue' \in Seq(Sendable)
  <2>1. queue # <<>> /\ queue' = Tail(queue)
    BY DEF keyboard_handler
  <2> QED BY <2>1, ScanCodeType DEF Shape
<1>2. make \in {0, 1}
  OBVIOUS
<1>3. detours' \in Nat /\ swallowed' \in Nat /\ prefix' \in BOOLEAN
  BY DEF Shape, keyboard_handler
<1>4. ASSUME text' = text, keyboard_key_multi' \in {0, 1}, modifier' \in [Modifiers -> {0, 1}]
      PROVE  Shape'
  BY <1>1, <1>3, <1>4 DEF Shape
<1> HIDE DEF byte, code, make
<1>5. CASE SetModifier(code, make)
  <2>1. modifier' \in [Modifiers -> {0, 1}] /\ text' = text /\ keyboard_key_multi' \in {0, 1}
    BY <1>2, <1>5, ModifierFacts DEF SetModifier, Shape, console_vars
  <2> QED BY <1>1, <1>4, <1>5, <2>1 DEF byte, code, make
<1>6. CASE IgnoreKey(code)
  <2>1. modifier' \in [Modifiers -> {0, 1}] /\ text' = text /\ keyboard_key_multi' \in {0, 1}
    BY <1>6 DEF IgnoreKey, Shape, console_vars, keyboard_vars
  <2> QED BY <1>1, <1>4, <1>6, <2>1 DEF byte, code, make
<1>7. CASE SetMulti(code)
  <2>1. modifier' \in [Modifiers -> {0, 1}] /\ text' = text /\ keyboard_key_multi' \in {0, 1}
    BY <1>7 DEF SetMulti, Shape, console_vars
  <2> QED BY <1>1, <1>4, <1>7, <2>1 DEF byte, code, make
<1>8. CASE Reaches(code) /\ code # KEYBOARD_KEY_MULTI /\ FunctionKey(code, make)
  <2>1. code \in Codes /\ code \in 1 .. \h58
    BY <1>1, <1>8, ByteDecoded
  <2>2. modifier' = modifier /\ keyboard_key_multi' = 0
    BY <1>8 DEF FunctionKey
  <2>3. CASE code \in {KEYBOARD_KEY_KP_ENTER, KEYBOARD_KEY_KP_SLASH}
    <3>1. PrintKey(code, make)
      BY <1>8, <2>3 DEF FunctionKey
    <3>2. text' \in Seq(Chars) /\ IF make = 1 THEN text' # text ELSE text' = text
      BY <2>1, <3>1, PrintKeyWrites DEF Shape
    <3>3. Shape' /\ (make = 0 => text' = text)
      BY <1>1, <1>3, <2>2, <3>2 DEF Shape
    <3> QED BY <1>1, <1>8, <2>1, <2>3, <3>3 DEF byte, code, make
  <2>4. CASE code \notin {KEYBOARD_KEY_KP_ENTER, KEYBOARD_KEY_KP_SLASH}
    <3>1. text' = text
      BY <1>8, <2>4 DEF FunctionKey, console_vars
    <3>2. Shape'
      BY <1>4, <2>2, <3>1 DEF Shape
    <3> QED BY <1>1, <1>8, <2>1, <3>1, <3>2 DEF byte, code, make
  <2> QED BY <2>3, <2>4
<1>9. CASE Reaches(code) /\ code # KEYBOARD_KEY_MULTI /\ PlainKey(code, make)
  <2>1. code \in Codes /\ code \in 1 .. \h58
    BY <1>1, <1>9, ByteDecoded
  <2>2. text' \in Seq(Chars) /\ IF make = 1 THEN text' # text ELSE text' = text
    BY <1>9, <2>1, PrintKeyWrites DEF Shape, PlainKey
  <2>3. Shape' /\ (make = 0 => text' = text)
    BY <1>1, <1>3, <1>9, <2>2 DEF Shape, PlainKey, keyboard_vars
  <2> QED BY <1>1, <1>9, <2>1, <2>2, <2>3 DEF byte, code, make
<1> QED BY <1>5, <1>6, <1>7, <1>8, <1>9 DEF keyboard_handler, byte, code, make

(* The keyboard and the kernel's own messages leave the driver alone.      *)
LEMMA SendKeepsShape ==
    ASSUME Shape, NEW key \in Keys, NEW code \in {key.code, key.code + \h80},
           Send(Bytes(key, code))
    PROVE  Shape'
<1>1. code \in Sendable
  BY DEF Sendable, Codes
<1>2. KEYBOARD_KEY_MULTI \in Sendable
  BY DEF Sendable
<1>3. Bytes(key, code) \in Seq(Sendable)
  BY <1>1, <1>2 DEF Bytes
<1> QED BY <1>3 DEF Send, Shape, console_vars, keyboard_vars

LEMMA KernelKeepsShape == ASSUME Shape, KernelPrints PROVE Shape'
<1>1. PICK chr \in {"k", NewLine} : console_put_char(chr)
  BY DEF KernelPrints
<1>2. text' \in Seq(Chars)
  BY <1>1, PutCharWrites DEF Shape, Chars
<1> QED BY <1>2 DEF KernelPrints, Shape, keyboard_vars

-----------------------------------------------------------------------------
(* The prefix.  A flag that is set though the last byte was no prefix is a *)
(* detour that has not swallowed a character yet.                          *)
PrefixInv ==
    /\ prefix => keyboard_key_multi = 1
    /\ swallowed <= detours
    /\ keyboard_key_multi = 1 /\ ~ prefix => swallowed < detours

LEMMA HandlerPrefix == ASSUME Shape, PrefixInv, keyboard_handler PROVE PrefixInv'
<1> DEFINE byte == Head(queue)
           code == ScanCode(byte)
           make == IF IsBreak(byte) THEN 0 ELSE 1
           lost == ~ prefix /\ Reaches(code) /\ make = 1 /\ code # KEYBOARD_KEY_MULTI
                   /\ text' = text
<1>1. /\ prefix' <=> code = KEYBOARD_KEY_MULTI
      /\ detours' = IF prefix /\ ~ Reaches(code) THEN detours + 1 ELSE detours
      /\ swallowed' = IF lost THEN swallowed + 1 ELSE swallowed
  BY DEF keyboard_handler
<1>2. Reaches(KEYBOARD_KEY_MULTI)
  BY ModifierFacts DEF Reaches, KEYBOARD_KEY_MULTI, KEYBOARD_KEY_TAB, KEYBOARD_KEY_BKSP
<1>3. code \in Codes => code # KEYBOARD_KEY_MULTI
  BY ByteDecoded
<1>4. keyboard_key_multi \in {0, 1} /\ detours \in Nat /\ swallowed \in Nat
  BY DEF Shape
<1>5. \/ SetModifier(code, make) /\ text' = text
      \/ IgnoreKey(code) /\ text' = text
      \/ SetMulti(code) /\ text' = text
      \/ /\ Reaches(code) /\ code \in Codes
         /\ FunctionKey(code, make) \/ (PlainKey(code, make) /\ (make = 1 => text' # text))
  BY HandlerCases
<1> HIDE DEF byte, code, make
<1>6. CASE SetModifier(code, make) \/ IgnoreKey(code)
  <2>1. ~ Reaches(code) /\ keyboard_key_multi' = keyboard_key_multi
    BY <1>6 DEF SetModifier, IgnoreKey, Reaches, keyboard_vars
  <2>2. ~ prefix' /\ swallowed' = swallowed
    BY <1>1, <1>2, <2>1
  <2>3. CASE prefix
    <3>1. detours' = detours + 1 /\ swallowed <= detours
      BY <1>1, <2>1, <2>3 DEF PrefixInv
    <3>2. swallowed' < detours'
      BY <1>4, <2>2, <3>1
    <3> QED BY <1>4, <2>2, <3>1, <3>2 DEF PrefixInv
  <2>4. CASE ~ prefix
    BY <1>1, <2>1, <2>2, <2>4 DEF PrefixInv
  <2> QED BY <2>3, <2>4
<1>7. CASE SetMulti(code)
  <2>1. prefix' /\ keyboard_key_multi' = 1 /\ detours' = detours /\ swallowed' = swallowed
    BY <1>1, <1>2, <1>7 DEF SetMulti
  <2> QED BY <2>1 DEF PrefixInv
<1>8. CASE Reaches(code) /\ code \in Codes /\ FunctionKey(code, make)
  <2>1. ~ prefix' /\ keyboard_key_multi = 1 /\ keyboard_key_multi' = 0 /\ detours' = detours
    BY <1>1, <1>3, <1>8 DEF FunctionKey
  <2>2. CASE lost
    <3>1. swallowed' = swallowed + 1 /\ swallowed < detours
      BY <1>1, <2>1, <2>2 DEF PrefixInv
    <3>2. swallowed' <= detours'
      BY <1>4, <2>1, <3>1
    <3> QED BY <2>1, <3>2 DEF PrefixInv
  <2>3. CASE ~ lost
    BY <1>1, <2>1, <2>3 DEF PrefixInv
  <2> QED BY <2>2, <2>3
<1>9. CASE Reaches(code) /\ code \in Codes /\ PlainKey(code, make) /\ (make = 1 => text' # text)
  <2>1. ~ prefix' /\ keyboard_key_multi' = 0 /\ detours' = detours /\ swallowed' = swallowed
    BY <1>1, <1>3, <1>9 DEF PlainKey, keyboard_vars
  <2> QED BY <2>1 DEF PrefixInv
<1> QED BY <1>5, <1>6, <1>7, <1>8, <1>9

(* Only what the handler does touches the prefix.                          *)
LEMMA NextPrefix ==
    ASSUME Shape, PrefixInv, [Next]_vars
    PROVE  Shape' /\ PrefixInv'
<1>1. ASSUME UNCHANGED <<keyboard_key_multi, prefix, detours, swallowed>> PROVE PrefixInv'
  BY <1>1 DEF PrefixInv
<1>2. CASE UNCHANGED vars
  BY <1>1, <1>2 DEF vars, keyboard_vars, console_vars, Shape
<1>3. ASSUME NEW key \in Keys, Press(key) \/ Release(key) PROVE Shape' /\ PrefixInv'
  BY <1>1, <1>3, SendKeepsShape DEF Press, Release, Send, keyboard_vars
<1>4. CASE keyboard_handler
  BY <1>4, HandlerPrefix, HandlerCases
<1>5. CASE KernelPrints
  BY <1>1, <1>5, KernelKeepsShape DEF KernelPrints, keyboard_vars
<1> QED BY <1>2, <1>3, <1>4, <1>5 DEF Next

LEMMA InitPrefix == Init => Shape /\ PrefixInv
<1> SUFFICES ASSUME Init PROVE Shape /\ PrefixInv
  OBVIOUS
<1>1. Shape
  <2>1. queue \in Seq(Sendable) /\ text \in Seq(Chars)
    BY DEF Init, ConsoleInit
  <2>2. prefix \in BOOLEAN
    BY DEF Init
  <2>3. keyboard_key_multi \in {0, 1} /\ detours \in Nat /\ swallowed \in Nat
        /\ modifier \in [Modifiers -> {0, 1}]
    BY DEF Init, keyboard_init
  <2> QED BY <2>1, <2>2, <2>3 DEF Shape
<1>2. PrefixInv
  BY DEF Init, keyboard_init, PrefixInv
<1> QED BY <1>1, <1>2

(* The right Ctrl and Alt keys are looked at before the prefix is, so the  *)
(* flag stays set behind them; each such byte costs one character at most. *)
THEOREM DetoursSwallowOne == Spec => []SwallowedBounded
<1>1. PrefixInv => SwallowedBounded
  BY DEF PrefixInv, SwallowedBounded
<1>2. Shape /\ PrefixInv /\ [Next]_vars => (Shape /\ PrefixInv)'
  BY NextPrefix
<1> QED BY <1>1, <1>2, InitPrefix, PTL DEF Spec

(* A prefix is never forgotten before the byte it belongs to, so of the    *)
(* prefixed keys only Enter and the slash of the keypad print.             *)
THEOREM PrefixedKeysSilent == Spec => PrefixedKeysPrintNothing
<1> DEFINE step == keyboard_handler /\ prefix /\ text' # text =>
                      Head(queue) \in {KEYBOARD_KEY_KP_ENTER, KEYBOARD_KEY_KP_SLASH}
<1>1. ASSUME Shape, PrefixInv, keyboard_handler, prefix, text' # text
      PROVE  Head(queue) \in {KEYBOARD_KEY_KP_ENTER, KEYBOARD_KEY_KP_SLASH}
  <2> DEFINE byte == Head(queue)
             code == ScanCode(byte)
             make == IF IsBreak(byte) THEN 0 ELSE 1
  <2>1. keyboard_key_multi = 1
    BY <1>1 DEF PrefixInv
  <2>2. code \in {KEYBOARD_KEY_KP_ENTER, KEYBOARD_KEY_KP_SLASH} /\ make # 0
    BY <1>1, <2>1, HandlerCases DEF PlainKey
  <2>3. byte = code
    BY <2>2 DEF ScanCode, IsBreak
  <2> QED BY <2>2, <2>3
<1>2. Shape /\ PrefixInv /\ [Next]_vars => (Shape /\ PrefixInv)' /\ [step]_vars
  BY <1>1, NextPrefix
<1> HIDE DEF step
<1>3. Spec => [][step]_vars
  BY <1>2, InitPrefix, PTL DEF Spec
<1> QED BY <1>3 DEF step, PrefixedKeysPrintNothing

-----------------------------------------------------------------------------
(* The modifiers.  The last byte still to be handled that concerns a       *)
(* modifier decides what becomes of it; if none does, it stays as it is.   *)

Concerns(byte, m) == ScanCode(byte) \in ModifierCodes /\ ModifierOf[ScanCode(byte)] = m

SetBy(key, m) == key.code \in ModifierCodes /\ ModifierOf[key.code] = m

TurnedOn(m) ==
    \E i \in DOMAIN queue : /\ Concerns(queue[i], m) /\ ~ IsBreak(queue[i])
                            /\ \A j \in DOMAIN queue : i < j => ~ Concerns(queue[j], m)

Untouched(m) == \A i \in DOMAIN queue : ~ Concerns(queue[i], m)

WillBeOn(m) == TurnedOn(m) \/ (Untouched(m) /\ modifier[m] = 1)

(* A modifier that will be set when the keyboard has nothing left to send  *)
(* has a key that is held.                                                 *)
HeldInv == \A m \in Modifiers : WillBeOn(m) => \E key \in down : SetBy(key, m)

LEMMA HeldEnough == Shape /\ HeldInv => NoStickyModifier
<1> SUFFICES ASSUME Shape, HeldInv, queue = <<>>, NEW m \in Modifiers, modifier[m] = 1
             PROVE  \E key \in down : key.code \in DOMAIN ModifierOf /\ ModifierOf[key.code] = m
  BY DEF NoStickyModifier
<1>1. WillBeOn(m)
  BY DEF WillBeOn, Untouched
<1> QED BY <1>1, ModifierFacts DEF HeldInv, SetBy

(* Prefixes concern no modifier.                                           *)
LEMMA PrefixUnconcerned == \A m : ~ Concerns(KEYBOARD_KEY_MULTI, m)
BY ByteDecoded, ModifierFacts DEF Concerns

(* The bytes of a key go behind those that wait.                           *)
LEMMA SendDecides ==
    ASSUME Shape, NEW key, NEW byte, queue' = queue \o Bytes(key, byte), byte \in Sendable,
           modifier' = modifier, NEW m, WillBeOn(m)'
    PROVE  /\ Concerns(byte, m) => ~ IsBreak(byte)
           /\ ~ Concerns(byte, m) => WillBeOn(m)
<1> DEFINE n == Len(queue)
           k == IF key.prefixed THEN 2 ELSE 1
<1>1. /\ n \in Nat /\ DOMAIN queue = 1 .. n /\ DOMAIN queue' = 1 .. n + k /\ k \in {1, 2}
      /\ queue'[n + k] = byte /\ \A i \in 1 .. n : queue'[i] = queue[i]
      /\ k = 2 => queue'[n + 1] = KEYBOARD_KEY_MULTI
  <2>1. queue \in Seq(Sendable) /\ KEYBOARD_KEY_MULTI \in Sendable
    BY DEF Shape, Sendable
  <2>2. CASE key.prefixed
    <3>1. queue' = queue \o <<KEYBOARD_KEY_MULTI, byte>> /\ k = 2
      BY <2>2 DEF Bytes
    <3> QED BY <2>1, <3>1
  <2>3. CASE ~ key.prefixed
    <3>1. queue' = queue \o <<byte>> /\ k = 1
      BY <2>3 DEF Bytes
    <3> QED BY <2>1, <3>1
  <2> QED BY <2>2, <2>3
<1> HIDE DEF n, k
<1>2. \A i \in DOMAIN queue' : Concerns(queue'[i], m) => i \in 1 .. n \/ i = n + k
  <2> SUFFICES ASSUME NEW i \in DOMAIN queue', Concerns(queue'[i], m), i \notin 1 .. n
               PROVE  i = n + k
    OBVIOUS
  <2>1. i = n + 1 \/ i = n + k
    BY <1>1
  <2> QED BY <1>1, <2>1, PrefixUnconcerned
<1>3. CASE Concerns(byte, m)
  <2>1. n + k \in DOMAIN queue' /\ Concerns(queue'[n + k], m)
    BY <1>1, <1>3
  <2>2. PICK i \in DOMAIN queue' :
            /\ Concerns(queue'[i], m) /\ ~ IsBreak(queue'[i])
            /\ \A j \in DOMAIN queue' : i < j => ~ Concerns(queue'[j], m)
    BY <2>1 DEF WillBeOn, TurnedOn, Untouched
  <2>3. i = n + k
    BY <1>1, <2>1, <2>2
  <2> QED BY <1>1, <1>3, <2>2, <2>3
<1>4. CASE ~ Concerns(byte, m)
  <2>1. CASE TurnedOn(m)'
    <3>1. PICK i \in DOMAIN queue' :
              /\ Concerns(queue'[i], m) /\ ~ IsBreak(queue'[i])
              /\ \A j \in DOMAIN queue' : i < j => ~ Concerns(queue'[j], m)
      BY <2>1 DEF TurnedOn
    <3>2. i \in 1 .. n
      BY <1>1, <1>2, <1>4, <3>1
    <3>3. TurnedOn(m)
      BY <1>1, <3>1, <3>2 DEF TurnedOn
    <3> QED BY <1>4, <3>3 DEF WillBeOn
  <2>2. CASE Untouched(m)' /\ modifier'[m] = 1
    BY <1>1, <1>4, <2>2 DEF Untouched, WillBeOn
  <2> QED BY <2>1, <2>2 DEF WillBeOn
<1> QED BY <1>3, <1>4

LEMMA PressHeld == ASSUME Shape, HeldInv, NEW key \in Keys, Press(key) PROVE HeldInv'
<1>1. /\ queue' = queue \o Bytes(key, key.code) /\ modifier' = modifier
      /\ down' = down \cup {key}
  BY DEF Press, Send, keyboard_vars
<1>2. key.code \in Sendable /\ ScanCode(key.code) = key.code
  BY ByteDecoded DEF Sendable, Codes
<1>3. ASSUME NEW m \in Modifiers, WillBeOn(m)' PROVE \E held \in down' : SetBy(held, m)
  <2>1. CASE Concerns(key.code, m)
    BY <1>1, <1>2, <2>1 DEF Concerns, SetBy
  <2>2. CASE ~ Concerns(key.code, m)
    <3>1. WillBeOn(m)
      BY <1>1, <1>2, <1>3, <2>2, SendDecides
    <3> QED BY <1>1, <3>1 DEF HeldInv
  <2> QED BY <2>1, <2>2
<1> QED BY <1>3 DEF HeldInv, SetBy

(* The key that is let go held no modifier that will be set.               *)
LEMMA ReleaseHeld == ASSUME Shape, HeldInv, NEW key \in Keys, Release(key) PROVE HeldInv'
<1> DEFINE byte == key.code + \h80
<1>1. /\ queue' = queue \o Bytes(key, byte) /\ modifier' = modifier
      /\ down' = down \ {key}
  BY DEF Release, Send, keyboard_vars
<1>2. byte \in Sendable /\ ScanCode(byte) = key.code /\ IsBreak(byte)
  BY ByteDecoded DEF Sendable, Codes
<1>3. ASSUME NEW m \in Modifiers, WillBeOn(m)' PROVE \E held \in down' : SetBy(held, m)
  <2>1. ~ Concerns(byte, m) /\ WillBeOn(m)
    BY <1>1, <1>2, <1>3, SendDecides
  <2>2. PICK held \in down : SetBy(held, m)
    BY <2>1 DEF HeldInv
  <2>3. held # key
    BY <1>2, <2>1, <2>2 DEF Concerns, SetBy
  <2> QED BY <1>1, <2>2, <2>3
<1> QED BY <1>3 DEF HeldInv, SetBy

(* The handler does with a byte what was to become of it.                  *)
LEMMA HandlerHeld == ASSUME Shape, HeldInv, keyboard_handler PROVE HeldInv'
<1> DEFINE byte == Head(queue)
           code == ScanCode(byte)
           make == IF IsBreak(byte) THEN 0 ELSE 1
           n    == Len(queue)
<1>1. queue # <<>> /\ queue' = Tail(queue) /\ down' = down
  BY DEF keyboard_handler
<1>2. /\ n \in Nat \ {0} /\ byte = queue[1]
      /\ DOMAIN queue = 1 .. n /\ DOMAIN queue' = 1 .. n - 1
      /\ \A i \in 1 .. n - 1 : queue'[i] = queue[i + 1]
  BY <1>1 DEF Shape
<1>3. \/ SetModifier(code, make)
      \/ code \notin ModifierCodes /\ modifier' = modifier
  <2>1. code \in Codes => code # KEYBOARD_KEY_MULTI
    BY ByteDecoded
  <2>2. \/ SetModifier(code, make)
        \/ IgnoreKey(code)
        \/ SetMulti(code)
        \/ Reaches(code) /\ (FunctionKey(code, make) \/ PlainKey(code, make))
    BY HandlerCases
  <2> HIDE DEF code, make
  <2> QED BY <2>1, <2>2, ModifierFacts
          DEF IgnoreKey, SetMulti, Reaches, FunctionKey, PlainKey, keyboard_vars, ModifierCodes,
              KEYBOARD_KEY_TAB, KEYBOARD_KEY_BKSP, KEYBOARD_KEY_LCTRL, KEYBOARD_KEY_LSHFT,
              KEYBOARD_KEY_RSHFT, KEYBOARD_KEY_LALT, KEYBOARD_KEY_CAPS, KEYBOARD_KEY_NUM,
              KEYBOARD_KEY_SCROLL
<1> HIDE DEF n
<1>4. ASSUME NEW m \in Modifiers, WillBeOn(m)' PROVE WillBeOn(m)
  <2>1. CASE TurnedOn(m)'
    <3>1. PICK i \in DOMAIN queue' :
              /\ Concerns(queue'[i], m) /\ ~ IsBreak(queue'[i])
              /\ \A j \in DOMAIN queue' : i < j => ~ Concerns(queue'[j], m)
      BY <2>1 DEF TurnedOn
    <3>2. i + 1 \in DOMAIN queue /\ Concerns(queue[i + 1], m) /\ ~ IsBreak(queue[i + 1])
      BY <1>2, <3>1
    <3>3. ASSUME NEW j \in DOMAIN queue, i + 1 < j PROVE ~ Concerns(queue[j], m)
      <4>1. j - 1 \in DOMAIN queue' /\ i < j - 1 /\ queue'[j - 1] = queue[j]
        BY <1>2, <3>1, <3>3
      <4> QED BY <3>1, <4>1
    <3> QED BY <3>2, <3>3 DEF WillBeOn, TurnedOn
  <2>2. CASE Untouched(m)' /\ modifier'[m] = 1
    <3>1. ASSUME NEW j \in DOMAIN queue, 1 < j PROVE ~ Concerns(queue[j], m)
      <4>1. j - 1 \in DOMAIN queue' /\ queue'[j - 1] = queue[j]
        BY <1>2, <3>1
      <4> QED BY <2>2, <4>1 DEF Untouched
    <3>2. CASE Concerns(byte, m)
      <4>1. SetModifier(code, make)
        BY <1>3, <3>2 DEF Concerns
      <4>2. modifier'[m] = make
        BY <3>2, <4>1 DEF SetModifier, Concerns, Shape
      <4>3. ~ IsBreak(byte)
        BY <2>2, <4>2
      <4> QED BY <1>2, <3>1, <3>2, <4>3 DEF WillBeOn, TurnedOn
    <3>3. CASE ~ Concerns(byte, m)
      <4>1. modifier'[m] = modifier[m]
        BY <1>3, <3>3, ModifierFacts DEF SetModifier, Concerns, Shape
      <4>2. Untouched(m)
        BY <1>2, <3>1, <3>3 DEF Untouched
      <4> QED BY <2>2, <4>1, <4>2 DEF WillBeOn
    <3> QED BY <3>2, <3>3
  <2> QED BY <1>4, <2>1, <2>2 DEF WillBeOn
<1> QED BY <1>1, <1>4 DEF HeldInv, SetBy

LEMMA NextHeld == ASSUME Shape, HeldInv, [Next]_vars PROVE HeldInv'
<1>1. ASSUME UNCHANGED <<modifier, queue, down>> PROVE HeldInv'
  BY <1>1 DEF HeldInv, WillBeOn, TurnedOn, Untouched, SetBy, Concerns
<1>2. CASE UNCHANGED vars \/ KernelPrints
  BY <1>1, <1>2 DEF vars, keyboard_vars, KernelPrints
<1>3. ASSUME NEW key \in Keys, Press(key) \/ Release(key) PROVE HeldInv'
  BY <1>3, PressHeld, ReleaseHeld
<1>4. CASE keyboard_handler
  BY <1>4, HandlerHeld
<1> QED BY <1>2, <1>3, <1>4 DEF Next

(* Whatever the order in which keys go down and up, and however late their *)
(* bytes are handled, a modifier that is set at the end has a key that is  *)
(* held.                                                                   *)
THEOREM ModifiersReleased == Spec => []NoStickyModifier
<1>1. Init => HeldInv
  BY DEF Init, keyboard_init, HeldInv, WillBeOn, TurnedOn
<1>2. Shape /\ PrefixInv /\ HeldInv /\ [Next]_vars => (Shape /\ PrefixInv /\ HeldInv)'
  BY NextPrefix, NextHeld
<1> QED BY <1>1, <1>2, InitPrefix, HeldEnough, PTL DEF Spec

-----------------------------------------------------------------------------
(* The console.  First, what LinesOf answers: it is defined by recursion,  *)
(* and such a function has first to be shown to exist.                     *)

LEMMA LeastNumber ==
    ASSUME NEW S \in SUBSET Nat, S # {}
    PROVE  \E n \in S : \A m \in S : n <= m
<1>1. IsWellFoundedOn(OpToRel(<, Nat), Nat)
  BY NatLessThanWellFounded
<1>2. PICK n \in S : \A m \in Nat : <<m, n>> \in OpToRel(<, Nat) => m \notin S
  BY <1>1, WFMin
<1>3. \A m \in S : ~ (m < n)
  BY <1>2 DEF OpToRel
<1> QED BY <1>3

(* f maps each number up to n to the lines of so many characters.          *)
LinesUpTo(chars, n, f) ==
    f = [k \in 0 .. n |-> IF k = 0 THEN << <<>> >> ELSE Continued(f[k - 1], chars[k])]

LEMMA LinesExist == ASSUME NEW chars, NEW n \in Nat PROVE \E f : LinesUpTo(chars, n, f)
<1> DEFINE Bad == {m \in Nat : ~ \E f : LinesUpTo(chars, m, f)}
<1> SUFFICES ASSUME Bad # {} PROVE FALSE
  OBVIOUS
<1>1. PICK m \in Bad : \A k \in Bad : m <= k
  BY LeastNumber
<1>2. m # 0
  <2>1. LinesUpTo(chars, 0, [k \in 0 .. 0 |-> << <<>> >>])
    BY DEF LinesUpTo
  <2> QED BY <1>1, <2>1
<1>3. m - 1 \in Nat /\ m - 1 \notin Bad
  BY <1>1, <1>2
<1>4. PICK f : LinesUpTo(chars, m - 1, f)
  BY <1>3
<1> DEFINE e == [k \in 0 .. m |-> IF k = m THEN Continued(f[m - 1], chars[m]) ELSE f[k]]
<1>5. \A k \in 0 .. m - 1 : e[k] = f[k]
  BY <1>1, <1>3
<1>6. ASSUME NEW k \in 0 .. m
      PROVE  e[k] = IF k = 0 THEN << <<>> >> ELSE Continued(e[k - 1], chars[k])
  <2>1. CASE k = m
    BY <1>2, <1>3, <1>5, <2>1
  <2>2. CASE k \in 0 .. m - 1
    <3>1. f[k] = IF k = 0 THEN << <<>> >> ELSE Continued(f[k - 1], chars[k])
      BY <1>4, <2>2 DEF LinesUpTo
    <3>2. k # 0 => k - 1 \in 0 .. m - 1
      BY <1>3, <2>2
    <3> QED BY <1>5, <2>2, <3>1, <3>2
  <2> QED BY <1>1, <2>1, <2>2
<1>7. e = [k \in 0 .. m |-> e[k]]
  OBVIOUS
<1> HIDE DEF e
<1>8. LinesUpTo(chars, m, e)
  BY <1>6, <1>7 DEF LinesUpTo
<1> QED BY <1>1, <1>8

SameUpTo(s, t, n) == \A k \in 1 .. n : s[k] = t[k]

(* What they are for a beginning depends on this beginning only.           *)
LEMMA LinesUnique ==
    ASSUME NEW s, NEW t, NEW n \in Nat, NEW m \in Nat, n <= m, SameUpTo(s, t, n),
           NEW f, NEW g, LinesUpTo(s, n, f), LinesUpTo(t, m, g)
    PROVE  f[n] = g[n]
<1> DEFINE Bad == {k \in Nat : k <= n /\ f[k] # g[k]}
<1> SUFFICES ASSUME Bad # {} PROVE FALSE
  OBVIOUS
<1>1. PICK k \in Bad : \A j \in Bad : k <= j
  BY LeastNumber
<1>2. k \in 0 .. n /\ k \in 0 .. m /\ f[k] # g[k]
  BY <1>1
<1>3. /\ f[k] = IF k = 0 THEN << <<>> >> ELSE Continued(f[k - 1], s[k])
      /\ g[k] = IF k = 0 THEN << <<>> >> ELSE Continued(g[k - 1], t[k])
  BY <1>2 DEF LinesUpTo
<1>4. k # 0
  BY <1>2, <1>3
<1>5. k - 1 \in Nat /\ k - 1 <= n /\ k - 1 \notin Bad /\ k \in 1 .. n
  BY <1>1, <1>2, <1>4
<1>6. f[k - 1] = g[k - 1]
  BY <1>5
<1> QED BY <1>2, <1>3, <1>4, <1>5, <1>6 DEF SameUpTo

LEMMA LinesOfIs ==
    ASSUME NEW S, NEW s \in Seq(S)
    PROVE  \E f : LinesUpTo(s, Len(s), f) /\ LinesOf(s) = f[Len(s)]
<1> DEFINE f == CHOOSE f : LinesUpTo(s, Len(s), f)
<1>1. LinesUpTo(s, Len(s), f)
  BY LinesExist
<1>2. LinesOf(s) = f[Len(s)]
  BY DEF LinesOf, LinesUpTo
<1> QED BY <1>1, <1>2

LEMMA LinesOfNothing == LinesOf(<<>>) = << <<>> >>
<1>1. <<>> \in Seq({}) /\ Len(<<>>) = 0
  OBVIOUS
<1>2. PICK f : LinesUpTo(<<>>, 0, f) /\ LinesOf(<<>>) = f[0]
  BY <1>1, LinesOfIs
<1> QED BY <1>2 DEF LinesUpTo

LEMMA LinesOfMore ==
    ASSUME NEW S, NEW s \in Seq(S), NEW chr \in S
    PROVE  LinesOf(Append(s, chr)) = Continued(LinesOf(s), chr)
<1> DEFINE t == Append(s, chr)  n == Len(s)
<1>1. t \in Seq(S) /\ Len(t) = n + 1 /\ n \in Nat /\ t[n + 1] = chr
      /\ \A k \in 1 .. n : s[k] = t[k]
  OBVIOUS
<1> HIDE DEF t, n
<1>2. PICK f : LinesUpTo(s, n, f) /\ LinesOf(s) = f[n]
  BY LinesOfIs DEF n
<1>3. PICK g : LinesUpTo(t, n + 1, g) /\ LinesOf(t) = g[n + 1]
  <2>1. \E g : LinesUpTo(t, Len(t), g) /\ LinesOf(t) = g[Len(t)]
    BY <1>1, LinesOfIs
  <2> QED BY <1>1, <2>1
<1>4. n + 1 \in Nat /\ n <= n + 1
  BY <1>1
<1>5. f[n] = g[n]
  <2>1. LinesUpTo(s, n, f)
    BY <1>2
  <2>2. LinesUpTo(t, n + 1, g)
    BY <1>3
  <2>3. SameUpTo(s, t, n)
    BY <1>1 DEF SameUpTo
  <2>4. n \in Nat
    BY <1>1
  <2>5. n + 1 \in Nat
    BY <1>4
  <2>6. n <= n + 1
    BY <1>4
  <2> QED BY <2>1, <2>2, <2>3, <2>4, <2>5, <2>6, LinesUnique
<1>6. g[n + 1] = Continued(g[n], t[n + 1])
  BY <1>1, <1>3 DEF LinesUpTo
<1> QED BY <1>1, <1>2, <1>3, <1>5, <1>6 DEF t

(* The lines a text has, and where on the screen one of them is shown.     *)
Row   == Seq(Chars)
Texts == {lines \in Seq(Row) : /\ Len(lines) > 0
                               /\ \A i \in 1 .. Len(lines) : Len(lines[i]) <= CONSOLE_ROW}

Above(lines) == IF Len(lines) > CONSOLE_COLUMN THEN Len(lines) - CONSOLE_COLUMN ELSE 0

Shown(lines, x, y) ==
    IF Above(lines) + y + 1 \in DOMAIN lines /\ x + 1 \in DOMAIN lines[Above(lines) + y + 1]
    THEN lines[Above(lines) + y + 1][x + 1] ELSE Blank

Shows(cells, lines) ==
    \A x \in 0 .. CONSOLE_ROW - 1, y \in 0 .. CONSOLE_COLUMN - 1 :
        cells[Cell(x, y)] = Shown(lines, x, y)

(* The line of the screen that shows the last one.                         *)
LastRow(lines) == Len(lines) - Above(lines) - 1

Screens == [Cells -> Chars \cup {Blank}]

(* The cell of a place on the screen is of no other place; a line further  *)
(* down is CONSOLE_ROW cells further on.                                   *)
LEMMA CellPlaces ==
    ASSUME NEW x \in 0 .. CONSOLE_ROW - 1, NEW y \in 0 .. CONSOLE_COLUMN - 1
    PROVE  /\ Cell(x, y) \in Cells
           /\ Cell(x, y) + CONSOLE_ROW = Cell(x, y + 1)
           /\ Cell(x, y) + CONSOLE_ROW \in Cells <=> y + 1 < CONSOLE_COLUMN
<1> DEFINE R == CONSOLE_ROW  C == CONSOLE_COLUMN
<1>1. R \in Nat \ {0} /\ C \in Nat \ {0}
  BY ConsoleAssumption
<1> HIDE DEF R, C
<1>2. x \in 0 .. R - 1 /\ y \in 0 .. C - 1
  BY DEF R, C
<1>3. y * R \in Nat /\ (y + 1) * R = y * R + R
  BY <1>1, <1>2
<1>4. (y + 1) * R <= R * C /\ R * C \in Nat
  <2>1. y + 1 <= C /\ y + 1 \in Nat
    BY <1>1, <1>2
  <2>2. (y + 1) * R <= C * R
    BY <1>1, <2>1
  <2> QED BY <1>1, <2>2
<1>5. y + 1 < C => (y + 1) * R + R <= R * C
  <2> SUFFICES ASSUME y + 1 < C PROVE (y + 1) * R + R <= R * C
    OBVIOUS
  <2>1. y + 2 <= C /\ y + 2 \in Nat
    BY <1>1, <1>2
  <2>2. (y + 2) * R <= C * R
    BY <1>1, <2>1
  <2>3. (y + 2) * R = (y + 1) * R + R
    BY <1>1, <1>2
  <2> QED BY <1>1, <2>2, <2>3
<1>6. ~ (y + 1 < C) => (y + 1) * R = R * C
  BY <1>1, <1>2
<1>7. Cells = 0 .. R * C - 1 /\ Cell(x, y) = x + y * R /\ Cell(x, y + 1) = x + (y + 1) * R
  BY DEF Cells, Cell, R, C
<1>8. Cell(x, y) \in Cells /\ Cell(x, y) + R = Cell(x, y + 1)
  BY <1>1, <1>2, <1>3, <1>4, <1>7
<1>9. Cell(x, y) + R \in Cells <=> y + 1 < C
  <2>1. CASE y + 1 < C
    BY <1>1, <1>2, <1>3, <1>4, <1>5, <1>7, <1>8, <2>1
  <2>2. CASE ~ (y + 1 < C)
    BY <1>1, <1>2, <1>3, <1>4, <1>6, <1>7, <1>8, <2>2
  <2> QED BY <2>1, <2>2
<1> QED BY <1>8, <1>9 DEF R, C

LEMMA CellsApart ==
    ASSUME NEW x \in 0 .. CONSOLE_ROW - 1, NEW y \in 0 .. CONSOLE_COLUMN - 1,
           NEW u \in 0 .. CONSOLE_ROW - 1, NEW v \in 0 .. CONSOLE_COLUMN - 1,
           Cell(x, y) = Cell(u, v)
    PROVE  x = u /\ y = v
<1> DEFINE R == CONSOLE_ROW
<1>1. R \in Nat \ {0} /\ CONSOLE_COLUMN \in Nat
  BY ConsoleAssumption
<1> HIDE DEF R
<1>2. x \in 0 .. R - 1 /\ u \in 0 .. R - 1 /\ y \in Nat /\ v \in Nat
  BY <1>1 DEF R
<1>3. x + y * R = u + v * R
  BY DEF Cell, R
<1>4. (y - v) * R = u - x
  <2>1. (y - v) * R = y * R - v * R
    BY <1>1, <1>2
  <2>2. y * R \in Int /\ v * R \in Int
    BY <1>1, <1>2
  <2> QED BY <1>1, <1>2, <1>3, <2>1, <2>2
<1>5. CASE y - v >= 1
  <2>1. (y - v) * R >= R
    BY <1>1, <1>2, <1>5
  <2> QED BY <1>1, <1>2, <1>4, <2>1
<1>6. CASE y - v <= -1
  <2>1. (y - v) * R <= -R
    BY <1>1, <1>2, <1>6
  <2> QED BY <1>1, <1>2, <1>4, <2>1
<1>7. CASE y = v
  BY <1>1, <1>2, <1>3, <1>7
<1> QED BY <1>2, <1>5, <1>6, <1>7

(* A line break moves everything up once the screen is full.               *)
LEMMA ShowsNewLine ==
    ASSUME NEW cells \in Screens, NEW lines \in Texts, Shows(cells, lines)
    PROVE  LET more == Append(lines, <<>>)
               next == IF Len(lines) >= CONSOLE_COLUMN THEN console_scroll_up(cells) ELSE cells
           IN  more \in Texts /\ next \in Screens /\ Shows(next, more)
<1> DEFINE more == Append(lines, <<>>)
           next == IF Len(lines) >= CONSOLE_COLUMN THEN console_scroll_up(cells) ELSE cells
           n    == Len(lines)
<1>1. CONSOLE_ROW \in Nat \ {0} /\ CONSOLE_COLUMN \in Nat \ {0}
  BY ConsoleAssumption
<1>2. lines \in Seq(Row) /\ n \in Nat \ {0}
  BY DEF Texts
<1>3. <<>> \in Row /\ Len(<<>>) = 0 /\ DOMAIN <<>> = {}
  BY DEF Row
<1>4. /\ more \in Seq(Row) /\ Len(more) = n + 1 /\ more[n + 1] = <<>>
      /\ DOMAIN more = 1 .. n + 1 /\ DOMAIN lines = 1 .. n
      /\ \A i \in 1 .. n : more[i] = lines[i]
  BY <1>2, <1>3
<1>5. more \in Texts
  <2> HIDE DEF more
  <2>1. ASSUME NEW i \in 1 .. n + 1 PROVE Len(more[i]) <= CONSOLE_ROW
    <3>1. CASE i = n + 1
      BY <1>1, <1>3, <1>4, <3>1
    <3>2. CASE i \in 1 .. n
      <4>1. Len(lines[i]) <= CONSOLE_ROW
        BY <3>2 DEF Texts
      <4> QED BY <1>4, <3>2, <4>1
    <3> QED BY <1>2, <3>1, <3>2
  <2>2. Len(more) > 0
    BY <1>2, <1>4
  <2> QED BY <1>4, <2>1, <2>2 DEF Texts
<1>6. console_scroll_up(cells) \in Screens
  BY DEF console_scroll_up, Screens
<1> HIDE DEF more, n
<1>7. /\ Above(lines) = IF n > CONSOLE_COLUMN THEN n - CONSOLE_COLUMN ELSE 0
      /\ Above(more) = IF n + 1 > CONSOLE_COLUMN THEN (n + 1) - CONSOLE_COLUMN ELSE 0
  BY <1>4 DEF Above, n
<1>9. ASSUME NEW x \in 0 .. CONSOLE_ROW - 1, NEW y \in 0 .. CONSOLE_COLUMN - 1
      PROVE  next[Cell(x, y)] = Shown(more, x, y)
  <2>1. Cell(x, y) \in Cells
    BY CellPlaces
  <2>2. CASE n >= CONSOLE_COLUMN
    <3>1. Above(more) = Above(lines) + 1 /\ Above(lines) = n - CONSOLE_COLUMN
      BY <1>1, <1>2, <1>7, <2>2
    <3>2. next[Cell(x, y)] = IF y + 1 < CONSOLE_COLUMN THEN cells[Cell(x, y + 1)] ELSE Blank
      BY <2>1, <2>2, CellPlaces DEF console_scroll_up, n
    <3>3. CASE y + 1 < CONSOLE_COLUMN
      <4>1. cells[Cell(x, y + 1)] = Shown(lines, x, y + 1)
        BY <1>1, <3>3 DEF Shows
      <4>2. /\ Above(lines) + (y + 1) + 1 = Above(more) + y + 1
            /\ Above(more) + y + 1 \in 1 .. n
        BY <1>1, <1>2, <2>2, <3>1, <3>3
      <4>3. Shown(lines, x, y + 1) = Shown(more, x, y)
        BY <1>2, <1>4, <4>2 DEF Shown
      <4> QED BY <3>2, <3>3, <4>1, <4>3
    <3>4. CASE ~ (y + 1 < CONSOLE_COLUMN)
      <4>1. Above(more) + y + 1 = n + 1
        BY <1>1, <1>2, <3>1, <3>4
      <4>2. Shown(more, x, y) = Blank
        BY <1>3, <1>4, <4>1 DEF Shown
      <4> QED BY <3>2, <3>4, <4>2
    <3> QED BY <3>3, <3>4
  <2>3. CASE ~ (n >= CONSOLE_COLUMN)
    <3>1. Above(more) = 0 /\ Above(lines) = 0
      BY <1>1, <1>2, <1>7, <2>3
    <3>2. next[Cell(x, y)] = Shown(lines, x, y)
      BY <2>3 DEF Shows, n
    <3>3. CASE y + 1 \in 1 .. n
      BY <1>2, <1>4, <3>1, <3>2, <3>3 DEF Shown
    <3>4. CASE y + 1 \notin 1 .. n
      <4>1. Shown(lines, x, y) = Blank
        BY <1>4, <3>1, <3>4 DEF Shown
      <4>2. y + 1 \in DOMAIN more => more[y + 1] = <<>>
        BY <1>2, <1>4, <3>4
      <4>3. Shown(more, x, y) = Blank
        BY <1>3, <3>1, <4>2 DEF Shown
      <4> QED BY <3>2, <4>1, <4>3
    <3> QED BY <3>3, <3>4
  <2> QED BY <2>2, <2>3
<1> QED BY <1>5, <1>6, <1>9 DEF Shows, more, n

(* The last line is on the screen.                                         *)
LEMMA LastRowShown ==
    ASSUME NEW lines \in Texts
    PROVE  /\ LastRow(lines) \in 0 .. CONSOLE_COLUMN - 1
           /\ LastRow(lines) = CONSOLE_COLUMN - 1 <=> Len(lines) >= CONSOLE_COLUMN
           /\ Above(lines) \in Nat /\ Above(lines) + LastRow(lines) + 1 = Len(lines)
<1> DEFINE n == Len(lines)
<1>1. CONSOLE_COLUMN \in Nat \ {0} /\ n \in Nat \ {0}
  BY ConsoleAssumption DEF Texts
<1>2. Above(lines) = (IF n > CONSOLE_COLUMN THEN n - CONSOLE_COLUMN ELSE 0)
      /\ LastRow(lines) = n - Above(lines) - 1
  BY DEF Above, LastRow
<1> HIDE DEF n
<1>3. /\ LastRow(lines) \in 0 .. CONSOLE_COLUMN - 1
      /\ LastRow(lines) = CONSOLE_COLUMN - 1 <=> n >= CONSOLE_COLUMN
      /\ Above(lines) \in Nat /\ Above(lines) + LastRow(lines) + 1 = n
  BY <1>1, <1>2
<1> QED BY <1>3 DEF n

(* A character behind the last line appears where that line is shown.      *)
LEMMA ShowsChar ==
    ASSUME NEW cells \in Screens, NEW lines \in Texts, Shows(cells, lines), NEW chr \in Chars,
           Len(Last(lines)) < CONSOLE_ROW
    PROVE  LET more == [lines EXCEPT ![Len(lines)] = Append(@, chr)]
               next == [cells EXCEPT ![Cell(Len(Last(lines)), LastRow(lines))] = chr]
           IN  /\ more \in Texts /\ next \in Screens /\ Shows(next, more)
               /\ Len(more) = Len(lines) /\ Len(Last(more)) = Len(Last(lines)) + 1
<1> DEFINE n    == Len(lines)
           last == Last(lines)
           x0   == Len(last)
           y0   == LastRow(lines)
           more == [lines EXCEPT ![n] = Append(@, chr)]
           next == [cells EXCEPT ![Cell(x0, y0)] = chr]
<1>1. CONSOLE_ROW \in Nat \ {0} /\ CONSOLE_COLUMN \in Nat \ {0}
  BY ConsoleAssumption
<1>2. lines \in Seq(Row) /\ n \in Nat \ {0} /\ DOMAIN lines = 1 .. n /\ last = lines[n]
  BY DEF Texts, Last
<1>3. last \in Seq(Chars) /\ x0 \in 0 .. CONSOLE_ROW - 1 /\ DOMAIN last = 1 .. x0
  <2>1. last \in Row
    BY <1>2
  <2>2. last \in Seq(Chars)
    BY <2>1 DEF Row
  <2> HIDE DEF last
  <2> QED BY <1>1, <2>2 DEF last
<1>4. /\ y0 \in 0 .. CONSOLE_COLUMN - 1
      /\ Above(lines) \in Nat /\ Above(lines) + y0 + 1 = n
  BY LastRowShown
<1> DEFINE grown == Append(last, chr)
<1> HIDE DEF last
<1>5. /\ grown \in Seq(Chars) /\ Len(grown) = x0 + 1 /\ grown[x0 + 1] = chr
      /\ DOMAIN grown = 1 .. x0 + 1
      /\ \A i \in 1 .. x0 : grown[i] = last[i]
  BY <1>3
<1>6. more = [lines EXCEPT ![n] = grown]
  BY <1>2
<1> HIDE DEF grown, more
<1>7. /\ more \in Seq(Row) /\ Len(more) = n /\ DOMAIN more = 1 .. n /\ more[n] = grown
      /\ \A i \in 1 .. n : i # n => more[i] = lines[i]
  <2>1. grown \in Row
    BY <1>5 DEF Row
  <2> QED BY <1>2, <1>6, <2>1
<1> HIDE DEF more, n
<1>8. more \in Texts
  <2>1. ASSUME NEW i \in 1 .. n PROVE Len(more[i]) <= CONSOLE_ROW
    <3>1. CASE i = n
      BY <1>1, <1>3, <1>5, <1>7, <3>1
    <3>2. CASE i # n
      <4>1. Len(lines[i]) <= CONSOLE_ROW
        BY DEF Texts, n
      <4> QED BY <1>7, <3>2, <4>1
    <3> QED BY <3>1, <3>2
  <2>2. Len(more) > 0
    BY <1>2, <1>7
  <2> QED BY <1>7, <2>1, <2>2 DEF Texts
<1>9. Cell(x0, y0) \in Cells
  BY <1>3, <1>4, CellPlaces
<1>10. next \in Screens
  BY <1>9 DEF Screens
<1>11. Above(more) = Above(lines)
  BY <1>7 DEF Above, n
<1>12. ASSUME NEW x \in 0 .. CONSOLE_ROW - 1, NEW y \in 0 .. CONSOLE_COLUMN - 1
       PROVE  next[Cell(x, y)] = Shown(more, x, y)
  <2> DEFINE a == Above(lines)
  <2>1. a \in Nat
    BY <1>4
  <2>2. cells[Cell(x, y)] = Shown(lines, x, y) /\ Cell(x, y) \in Cells
    BY CellPlaces DEF Shows
  <2>3. CASE x = x0 /\ y = y0
    <3>1. Shown(more, x, y) = chr
      BY <1>1, <1>2, <1>3, <1>4, <1>5, <1>7, <1>11, <2>3 DEF Shown
    <3>2. next[Cell(x, y)] = chr
      BY <1>9, <2>3 DEF Screens
    <3> QED BY <3>1, <3>2
  <2>4. CASE ~ (x = x0 /\ y = y0)
    <3>1. Cell(x, y) # Cell(x0, y0)
      BY <1>3, <1>4, <2>4, CellsApart
    <3>2. next[Cell(x, y)] = Shown(lines, x, y)
      BY <2>2, <3>1 DEF Screens
    <3>3. CASE y # y0
      <4>1. a + y + 1 # n
        BY <1>1, <1>4, <3>3
      <4>2. a + y + 1 \in DOMAIN more <=> a + y + 1 \in DOMAIN lines
        BY <1>2, <1>7
      <4>3. a + y + 1 \in DOMAIN more => more[a + y + 1] = lines[a + y + 1]
        BY <1>7, <4>1
      <4>4. Shown(more, x, y) = Shown(lines, x, y)
        BY <1>11, <4>2, <4>3 DEF Shown
      <4> QED BY <3>2, <4>4
    <3>4. CASE y = y0
      <4>1. x # x0 /\ a + y + 1 = n /\ n \in DOMAIN more /\ n \in DOMAIN lines
        BY <1>1, <1>2, <1>4, <1>7, <2>4, <3>4
      <4>2. x + 1 \in DOMAIN grown <=> x + 1 \in DOMAIN last
        <5>1. x0 \in Nat /\ x \in Nat /\ x # x0
          <6>1. x # x0
            BY <4>1
          <6>2. x0 \in 0 .. CONSOLE_ROW - 1
            BY <1>3
          <6> HIDE DEF x0
          <6> QED BY <1>1, <6>1, <6>2
        <5>2. x + 1 \in 1 .. x0 + 1 <=> x + 1 \in 1 .. x0
          <6> HIDE DEF x0
          <6> QED BY <5>1
        <5> QED BY <1>3, <1>5, <5>2
      <4>3. x + 1 \in DOMAIN last => grown[x + 1] = last[x + 1]
        BY <1>3, <1>5
      <4>4. Shown(lines, x, y) = IF x + 1 \in DOMAIN last THEN last[x + 1] ELSE Blank
        BY <1>2, <4>1 DEF Shown
      <4>5. Shown(more, x, y) = IF x + 1 \in DOMAIN grown THEN grown[x + 1] ELSE Blank
        BY <1>7, <1>11, <4>1 DEF Shown
      <4> QED BY <3>2, <4>2, <4>3, <4>4, <4>5
    <3> QED BY <3>3, <3>4
  <2> QED BY <2>3, <2>4
<1>13. Last(more) = grown
  BY <1>7 DEF Last
<1> QED BY <1>5, <1>7, <1>8, <1>10, <1>12, <1>13 DEF Shows, more, n, last

(* The line behind the last one is a line further down or, on a full       *)
(* screen, where the last one was.                                         *)
LEMMA NextRow ==
    ASSUME NEW lines \in Texts, NEW more \in Texts, Len(more) = Len(lines) + 1
    PROVE  LastRow(more) = IF Len(lines) >= CONSOLE_COLUMN THEN LastRow(lines)
                                                          ELSE LastRow(lines) + 1
<1> DEFINE n == Len(lines)
<1>1. CONSOLE_COLUMN \in Nat \ {0} /\ n \in Nat \ {0}
  BY ConsoleAssumption DEF Texts
<1>2. /\ LastRow(lines) = n - (IF n > CONSOLE_COLUMN THEN n - CONSOLE_COLUMN ELSE 0) - 1
      /\ LastRow(more) = (n + 1) - (IF n + 1 > CONSOLE_COLUMN THEN (n + 1) - CONSOLE_COLUMN
                                                             ELSE 0) - 1
  BY DEF Above, LastRow
<1> HIDE DEF n
<1>3. LastRow(more) = IF n >= CONSOLE_COLUMN THEN LastRow(lines) ELSE LastRow(lines) + 1
  BY <1>1, <1>2
<1> QED BY <1>3 DEF n

(* What the console shows, with the position and the cursor behind it.     *)
ConsoleInv ==
    /\ text \in Seq(Chars)
    /\ Lines \in Texts
    /\ screen \in Screens
    /\ Shows(screen, Lines)
    /\ console_x_pos = Len(Last(Lines))
    /\ console_y_pos = LastRow(Lines)
    /\ cursor = Cell(console_x_pos, console_y_pos)

LEMMA NewLineShown ==
    ASSUME ConsoleInv, console_put_char(NewLine) PROVE ConsoleInv'
<1> DEFINE more == Append(Lines, <<>>)
           next == IF Len(Lines) >= CONSOLE_COLUMN THEN console_scroll_up(screen) ELSE screen
<1>1. /\ PutNewLine /\ text' = Append(text, NewLine)
      /\ cursor' = Cell(console_x_pos', console_y_pos')
  BY DEF console_put_char
<1>2. NewLine \in Chars
  BY DEF Chars
<1>3. Lines' = more
  BY <1>1, <1>2, LinesOfMore DEF ConsoleInv, Lines, Continued
<1>4. more \in Texts /\ next \in Screens /\ Shows(next, more)
  BY ShowsNewLine DEF ConsoleInv
<1>5. Len(more) = Len(Lines) + 1 /\ Len(Last(more)) = 0
  BY DEF ConsoleInv, Texts, Last
<1>6. LastRow(more) = IF Len(Lines) >= CONSOLE_COLUMN THEN LastRow(Lines) ELSE LastRow(Lines) + 1
  BY <1>4, <1>5, NextRow DEF ConsoleInv
<1>7. console_y_pos = CONSOLE_COLUMN - 1 <=> Len(Lines) >= CONSOLE_COLUMN
  BY LastRowShown DEF ConsoleInv
<1>8. console_x_pos' = 0 /\ screen' = next /\ console_y_pos' = LastRow(more)
  BY <1>1, <1>6, <1>7 DEF PutNewLine, ConsoleInv
<1>9. text' \in Seq(Chars)
  BY <1>1, <1>2 DEF ConsoleInv
<1> HIDE DEF more, next
<1> QED BY <1>1, <1>3, <1>4, <1>5, <1>8, <1>9 DEF ConsoleInv, Shows

(* A glyph goes to the end of the last line, or of a new one if that is    *)
(* full.                                                                   *)
LEMMA GlyphShown ==
    ASSUME ConsoleInv, NEW chr \in Chars, chr # NewLine, console_put_char(chr)
    PROVE  ConsoleInv'
<1>1. /\ PutGlyph(chr) /\ text' = Append(text, chr)
      /\ cursor' = Cell(console_x_pos', console_y_pos')
  BY DEF console_put_char
<1>2. text' \in Seq(Chars)
  BY <1>1 DEF ConsoleInv
<1>3. Lines' = IF Len(Last(Lines)) = CONSOLE_ROW THEN Append(Lines, <<chr>>)
               ELSE [Lines EXCEPT ![Len(Lines)] = Append(@, chr)]
  BY <1>1, LinesOfMore DEF ConsoleInv, Lines, Continued
<1>4. CONSOLE_ROW \in Nat \ {0} /\ CONSOLE_COLUMN \in Nat \ {0}
  BY ConsoleAssumption
<1>5. /\ LastRow(Lines) \in 0 .. CONSOLE_COLUMN - 1
      /\ LastRow(Lines) = CONSOLE_COLUMN - 1 <=> Len(Lines) >= CONSOLE_COLUMN
  BY LastRowShown DEF ConsoleInv
  (* The rest of the proof, for the lines and the screen as they are when  *)
  (* the character is put.                                                 *)
<1>6. ASSUME NEW cells \in Screens, NEW lines \in Texts, Shows(cells, lines),
             Len(Last(lines)) < CONSOLE_ROW,
             Lines' = [lines EXCEPT ![Len(lines)] = Append(@, chr)],
             screen' = [cells EXCEPT ![Cell(Len(Last(lines)), LastRow(lines))] = chr],
             console_x_pos' = Len(Last(lines)) + 1, console_y_pos' = LastRow(lines)
      PROVE  ConsoleInv'
  <2>1. /\ Lines' \in Texts /\ screen' \in Screens /\ Shows(screen', Lines')
        /\ Len(Lines') = Len(lines) /\ Len(Last(Lines')) = Len(Last(lines)) + 1
    BY <1>6, ShowsChar
  <2>2. LastRow(Lines') = LastRow(lines)
    BY <2>1 DEF LastRow, Above
  <2>3. Shows(screen, Lines)'
    BY <2>1 DEF Shows
  <2> QED BY <1>1, <1>2, <1>6, <2>1, <2>2, <2>3 DEF ConsoleInv, LastRow, Above, Last
<1>7. CASE Wraps
  <2> DEFINE mid  == Append(Lines, <<>>)
             next == IF Len(Lines) >= CONSOLE_COLUMN THEN console_scroll_up(screen) ELSE screen
  <2>1. mid \in Texts /\ next \in Screens /\ Shows(next, mid)
    BY ShowsNewLine DEF ConsoleInv
  <2>2. /\ Lines \in Seq(Row) /\ Len(Lines) \in Nat /\ <<>> \in Row /\ <<chr>> \in Row
    BY DEF ConsoleInv, Texts, Row
  <2>3. Len(mid) = Len(Lines) + 1 /\ Last(mid) = <<>> /\ mid[Len(Lines) + 1] = <<>>
    BY <2>2 DEF Last
  <2>4. LastRow(mid) = IF Len(Lines) >= CONSOLE_COLUMN THEN LastRow(Lines) ELSE LastRow(Lines) + 1
    BY <2>1, <2>3, NextRow DEF ConsoleInv
  <2>5. Lines' = [mid EXCEPT ![Len(mid)] = Append(@, chr)]
    <3>1. Lines' = Append(Lines, <<chr>>)
      BY <1>3, <1>7 DEF Wraps, ConsoleInv
    <3>2. Append(<<>>, chr) = <<chr>>
      OBVIOUS
    <3>3. [mid EXCEPT ![Len(Lines) + 1] = <<chr>>] = Append(Lines, <<chr>>)
      <4> DEFINE n == Len(Lines)
                 a == [mid EXCEPT ![n + 1] = <<chr>>]
                 b == Append(Lines, <<chr>>)
      <4>1. /\ mid \in Seq(Row) /\ Len(mid) = n + 1 /\ n \in Nat
            /\ \A i \in 1 .. n : mid[i] = Lines[i]
        BY <2>2
      <4>2. /\ b \in Seq(Row) /\ Len(b) = n + 1 /\ b[n + 1] = <<chr>>
            /\ \A i \in 1 .. n : b[i] = Lines[i]
        BY <2>2
      <4> HIDE DEF mid, n
      <4>3. /\ a \in Seq(Row) /\ Len(a) = n + 1 /\ a[n + 1] = <<chr>>
            /\ \A i \in 1 .. n : a[i] = mid[i]
        BY <2>2, <4>1
      <4> HIDE DEF a, b
      <4>4. \A i \in 1 .. n + 1 : a[i] = b[i]
        BY <4>1, <4>2, <4>3
      <4>5. a = b
        BY <4>2, <4>3, <4>4
      <4> QED BY <4>5 DEF a, b, n
    <3>4. mid[Len(mid)] = <<>>
      BY <2>3
    <3> HIDE DEF mid
    <3> QED BY <2>3, <3>1, <3>2, <3>3, <3>4
  <2>6. /\ screen' = [next EXCEPT ![Cell(0, LastRow(mid))] = chr]
        /\ console_x_pos' = 0 + 1 /\ console_y_pos' = LastRow(mid)
    <3>1. console_y_pos = LastRow(Lines)
      BY DEF ConsoleInv
    <3>2. CASE console_y_pos + 1 = CONSOLE_COLUMN
      <4>1. Len(Lines) >= CONSOLE_COLUMN
        BY <1>4, <1>5, <3>1, <3>2
      <4>2. LastRow(mid) = console_y_pos /\ next = console_scroll_up(screen)
        BY <2>4, <3>1, <4>1
      <4>3. (console_y_pos + 1) - 1 = console_y_pos
        BY <1>4, <1>5, <3>1
      <4> HIDE DEF next, mid
      <4> QED BY <1>1, <1>7, <3>2, <4>2, <4>3 DEF PutGlyph
    <3>3. CASE console_y_pos + 1 # CONSOLE_COLUMN
      <4>1. ~ (Len(Lines) >= CONSOLE_COLUMN)
        BY <1>4, <1>5, <3>1, <3>3
      <4>2. LastRow(mid) = console_y_pos + 1 /\ next = screen
        BY <2>4, <3>1, <4>1
      <4> HIDE DEF next, mid
      <4> QED BY <1>1, <1>7, <3>3, <4>2 DEF PutGlyph
    <3> QED BY <3>2, <3>3
  <2>7. Len(Last(mid)) = 0
    BY <2>3
  <2> HIDE DEF mid, next
  <2>8. /\ Len(Last(mid)) < CONSOLE_ROW /\ console_x_pos' = Len(Last(mid)) + 1
        /\ screen' = [next EXCEPT ![Cell(Len(Last(mid)), LastRow(mid))] = chr]
    BY <1>4, <2>6, <2>7
  <2> QED BY <1>6, <2>1, <2>5, <2>6, <2>8
<1>8. CASE ~ Wraps
  <2>1. Len(Last(Lines)) < CONSOLE_ROW /\ Len(Last(Lines)) # CONSOLE_ROW
    <3>1. /\ Lines \in Seq(Row) /\ Len(Lines) \in Nat \ {0}
          /\ \A i \in 1 .. Len(Lines) : Len(Lines[i]) <= CONSOLE_ROW
      BY DEF ConsoleInv, Texts
    <3>2. Lines[Len(Lines)] \in Row /\ Len(Lines[Len(Lines)]) <= CONSOLE_ROW
      BY <3>1
    <3>3. Len(Lines[Len(Lines)]) \in Nat
      BY <3>2 DEF Row
    <3>4. Len(Lines[Len(Lines)]) # CONSOLE_ROW
      BY <1>8 DEF Wraps, ConsoleInv, Last
    <3> QED BY <1>4, <3>2, <3>3, <3>4 DEF Last
  <2>2. Lines' = [Lines EXCEPT ![Len(Lines)] = Append(@, chr)]
    BY <1>3, <2>1
  <2>3. console_y_pos # CONSOLE_COLUMN
    BY <1>4, <1>5 DEF ConsoleInv
  <2>4. /\ screen' = [screen EXCEPT ![Cell(console_x_pos, console_y_pos)] = chr]
        /\ console_x_pos' = console_x_pos + 1 /\ console_y_pos' = console_y_pos
    BY <1>1, <1>8, <2>3 DEF PutGlyph
  <2> QED BY <1>6, <2>1, <2>2, <2>4 DEF ConsoleInv
<1> QED BY <1>7, <1>8

LEMMA ConsoleStays == ASSUME ConsoleInv, UNCHANGED console_vars PROVE ConsoleInv'
BY DEF ConsoleInv, console_vars, Lines, Shows

LEMMA PutCharShown ==
    ASSUME ConsoleInv, NEW chr \in Chars, console_put_char(chr) PROVE ConsoleInv'
BY NewLineShown, GlyphShown

LEMMA PrintKeyShown ==
    ASSUME ConsoleInv, NEW code \in 1 .. \h58, NEW make, PrintKey(code, make)
    PROVE  ConsoleInv'
<1>1. keyboard_scode_no_shift[code] \in Chars /\ keyboard_scode_with_shift[code] \in Chars
  BY DEF Chars
<1>2. CASE make = 1
  BY <1>1, <1>2, PutCharShown DEF PrintKey
<1>3. CASE make # 1
  BY <1>3, ConsoleStays DEF PrintKey
<1> QED BY <1>2, <1>3

LEMMA HandlerShown == ASSUME Shape, ConsoleInv, keyboard_handler PROVE ConsoleInv'
<1> DEFINE byte == Head(queue)
           code == ScanCode(byte)
           make == IF IsBreak(byte) THEN 0 ELSE 1
<1>1. byte \in Sendable
  BY DEF Shape, keyboard_handler
<1>2. code \in Codes \cup {KEYBOARD_KEY_MULTI}
  BY <1>1, ScanCodeType
<1> HIDE DEF byte, code, make
<1>3. \/ UNCHANGED console_vars
      \/ code # KEYBOARD_KEY_MULTI /\ PrintKey(code, make)
  <2>1. CASE SetModifier(code, make) \/ IgnoreKey(code) \/ SetMulti(code)
    BY <2>1 DEF SetModifier, IgnoreKey, SetMulti
  <2>2. CASE code # KEYBOARD_KEY_MULTI /\ (FunctionKey(code, make) \/ PlainKey(code, make))
    BY <2>2 DEF FunctionKey, PlainKey
  <2> QED BY <2>1, <2>2 DEF keyboard_handler, byte, code, make
<1>4. code # KEYBOARD_KEY_MULTI => code \in 1 .. \h58
  BY <1>2, ByteDecoded
<1> QED BY <1>3, <1>4, ConsoleStays, PrintKeyShown

LEMMA NextShown == ASSUME Shape, ConsoleInv, [Next]_vars PROVE ConsoleInv'
<1>1. CASE UNCHANGED vars
  BY <1>1, ConsoleStays DEF vars
<1>2. ASSUME NEW key \in Keys, Press(key) \/ Release(key) PROVE ConsoleInv'
  BY <1>2, ConsoleStays DEF Press, Release, Send
<1>3. CASE keyboard_handler
  BY <1>3, HandlerShown
<1>4. CASE KernelPrints
  <2>1. PICK chr \in {"k", NewLine} : console_put_char(chr)
    BY <1>4 DEF KernelPrints
  <2> QED BY <2>1, PutCharShown DEF Chars
<1> QED BY <1>1, <1>2, <1>3, <1>4 DEF Next

LEMMA InitShown == Init => ConsoleInv
<1> SUFFICES ASSUME Init PROVE ConsoleInv
  OBVIOUS
<1>1. /\ screen = [c \in Cells |-> Blank] /\ console_x_pos = 0 /\ console_y_pos = 0
      /\ cursor = Cell(0, 0) /\ text = <<>>
  BY DEF Init, ConsoleInit, console_clr_screen
<1>2. Lines = << <<>> >>
  BY <1>1, LinesOfNothing DEF Lines
<1>3. CONSOLE_ROW \in Nat \ {0} /\ CONSOLE_COLUMN \in Nat \ {0}
  BY ConsoleAssumption
<1>4. /\ Len(Lines) = 1 /\ Lines[1] = <<>> /\ DOMAIN Lines = {1} /\ Lines \in Seq(Row)
  <2>1. <<>> \in Row
    BY DEF Row
  <2> QED BY <1>2, <2>1
<1>5. Len(<<>>) = 0 /\ DOMAIN <<>> = {}
  OBVIOUS
<1>6. Lines \in Texts
  <2>1. ASSUME NEW i \in 1 .. Len(Lines) PROVE Len(Lines[i]) <= CONSOLE_ROW
    <3>1. Lines[i] = <<>>
      BY <1>4
    <3> QED BY <1>3, <1>5, <3>1
  <2>2. Len(Lines) > 0
    BY <1>4
  <2> QED BY <1>4, <2>1, <2>2 DEF Texts
<1>7. screen \in Screens
  BY <1>1 DEF Screens
<1>8. Above(Lines) = 0 /\ LastRow(Lines) = 0
  <2>1. Len(Lines) = 1
    BY <1>4
  <2>2. Above(Lines) = 0
    BY <1>3, <2>1 DEF Above
  <2> QED BY <2>1, <2>2 DEF LastRow
<1>9. Shows(screen, Lines)
  <2> SUFFICES ASSUME NEW x \in 0 .. CONSOLE_ROW - 1, NEW y \in 0 .. CONSOLE_COLUMN - 1
               PROVE  screen[Cell(x, y)] = Shown(Lines, x, y)
    BY DEF Shows
  <2>1. 0 + y + 1 \in DOMAIN Lines => Lines[0 + y + 1] = <<>>
    BY <1>4
  <2>2. Shown(Lines, x, y) = Blank
    BY <1>5, <1>8, <2>1 DEF Shown
  <2>3. screen[Cell(x, y)] = Blank
    BY <1>1, CellPlaces
  <2> QED BY <2>2, <2>3
<1>10. Last(Lines) = <<>>
  BY <1>4 DEF Last
<1>11. text \in Seq(Chars)
  BY <1>1
<1> QED BY <1>1, <1>5, <1>6, <1>7, <1>8, <1>9, <1>10, <1>11 DEF ConsoleInv

(* Whatever is typed and printed, and however the two alternate, the       *)
(* screen shows the end of it broken into lines, with the position and the *)
(* cursor behind the last character, on a screen of any size.              *)
THEOREM ScreenFollowsText == Spec => []ScreenShowsTail
<1>1. Init => Shape /\ PrefixInv /\ ConsoleInv
  BY InitPrefix, InitShown
<1>2. Shape /\ PrefixInv /\ ConsoleInv /\ [Next]_vars => (Shape /\ PrefixInv /\ ConsoleInv)'
  BY NextPrefix, NextShown
<1>3. ConsoleInv => ScreenShowsTail
  BY DEF ConsoleInv, ScreenShowsTail, Shows, Shown, LastRow, Above
<1> QED BY <1>1, <1>2, <1>3, PTL DEF Spec

=============================================================================
