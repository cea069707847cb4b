------------------------------ MODULE Keyboard ------------------------------
(***************************************************************************)
(* The keyboard driver of drivers/keyboard.c, which prints what is typed   *)
(* on the Console.  The keyboard sends a byte when a key goes down (and    *)
(* again while it is held), the same with bit 7 set when it goes up, and   *)
(* the prefix 0xE0 before either for the keys a PC keyboard added later.   *)
(* Each byte raises an interrupt; keyboard_handler is its handler and runs *)
(* to its end.                                                             *)
(***************************************************************************)
EXTENDS Console, FiniteSets

CONSTANTS
    Keys,               \* the keys of the keyboard: [prefixed, code]
    MaxQueue,           \* bound: bytes the keyboard holds back
    MaxEvents           \* bound: keys that are pressed, repeated or released

KEYBOARD_KEY_BKSP     == \h0E
KEYBOARD_KEY_TAB      == \h0F
KEYBOARD_KEY_KP_ENTER == \h1C
KEYBOARD_KEY_LCTRL    == \h1D
KEYBOARD_KEY_LSHFT    == \h2A
KEYBOARD_KEY_KP_SLASH == \h35
KEYBOARD_KEY_RSHFT    == \h36
KEYBOARD_KEY_LALT     == \h38
KEYBOARD_KEY_CAPS     == \h3A
KEYBOARD_KEY_NUM      == \h45
KEYBOARD_KEY_SCROLL   == \h46
KEYBOARD_KEY_MULTI    == \hE0

ASSUME KeyboardAssumption ==
    /\ Keys \subseteq [prefixed : BOOLEAN, code : 1 .. \h58]
    /\ MaxQueue \in Nat
    /\ MaxEvents \in Nat

VARIABLES
    keyboard_key_multi, \* a prefix was seen
    modifier,           \* keyboard_key_shift, _ctrl, _alt, _num, _caps, _scroll
    queue,              \* the bytes the keyboard has not delivered yet
    down,               \* history: the keys that are held
    events,             \* bound: key events so far
    prefix,             \* history: the byte handled last was a prefix
    detours,            \* history: prefixed bytes of modifier keys handled
    swallowed           \* history: pressed character keys that printed nothing

keyboard_vars == <<keyboard_key_multi, modifier>>
vars == <<console_vars, keyboard_vars, queue, down, events, prefix, detours, swallowed>>

(* Which variable a key sets.                                              *)
ModifierOf ==
    [c \in {KEYBOARD_KEY_LCTRL, KEYBOARD_KEY_LSHFT, KEYBOARD_KEY_RSHFT, KEYBOARD_KEY_LALT,
            KEYBOARD_KEY_CAPS, KEYBOARD_KEY_NUM, KEYBOARD_KEY_SCROLL} |->
        CASE c = KEYBOARD_KEY_LCTRL  -> "ctrl"
          [] c = KEYBOARD_KEY_LALT   -> "alt"
          [] c = KEYBOARD_KEY_CAPS   -> "caps"
          [] c = KEYBOARD_KEY_NUM    -> "num"
          [] c = KEYBOARD_KEY_SCROLL -> "scroll"
          [] OTHER                   -> "shift"]

Modifiers == {ModifierOf[c] : c \in DOMAIN ModifierOf}

(* The two tables, told apart as far as the keys below need it.            *)
keyboard_scode_no_shift ==
    [c \in 1 .. \h58 |-> CASE c = KEYBOARD_KEY_KP_ENTER -> NewLine
                           [] c = KEYBOARD_KEY_KP_SLASH -> "/"
                           [] OTHER                     -> "a"]

keyboard_scode_with_shift ==
    [c \in 1 .. \h58 |-> CASE c = KEYBOARD_KEY_KP_ENTER -> NewLine
                           [] c = KEYBOARD_KEY_KP_SLASH -> "?"
                           [] OTHER                     -> "A"]

keyboard_init == keyboard_key_multi = 0 /\ modifier = [m \in Modifiers |-> 0]

Init ==
    /\ ConsoleInit
    /\ keyboard_init
    /\ queue = <<>>
    /\ down = {}
    /\ events = 0
    /\ prefix = FALSE
    /\ detours = 0
    /\ swallowed = 0

-----------------------------------------------------------------------------
(* The keyboard.                                                           *)

Bytes(key, code) == IF key.prefixed THEN <<KEYBOARD_KEY_MULTI, code>> ELSE <<code>>

Send(bytes) ==
    /\ Len(queue) + Len(bytes) <= MaxQueue
    /\ events < MaxEvents
    /\ queue' = queue \o bytes
    /\ events' = events + 1
    /\ UNCHANGED <<console_vars, keyboard_vars, prefix, detours, swallowed>>

(* A key goes down, or is held and repeats.                                *)
Press(key) == Send(Bytes(key, key.code)) /\ down' = down \cup {key}

Release(key) ==
    key \in down /\ Send(Bytes(key, key.code + \h80)) /\ down' = down \ {key}

-----------------------------------------------------------------------------
(* The handler.                                                            *)

(* Faulty: the bytes of released modifier keys pass for pressed ones.      *)
IsBreakOfCharacter(byte) ==
    byte > \h58 /\ byte # KEYBOARD_KEY_MULTI /\ (byte - \h80) \notin DOMAIN ModifierOf

IsBreak(byte) == byte > \h58 /\ byte # KEYBOARD_KEY_MULTI

ScanCode(byte) == IF byte > \h58 /\ byte # KEYBOARD_KEY_MULTI THEN byte - \h80 ELSE byte

SetModifier(code, make) ==
    /\ code \in DOMAIN ModifierOf
    /\ modifier' = [modifier EXCEPT ![ModifierOf[code]] = make]
    /\ UNCHANGED <<console_vars, keyboard_key_multi>>

(* The keys that are neither a modifier nor ignored from the start.        *)
Reaches(code) == code \notin DOMAIN ModifierOf \cup {KEYBOARD_KEY_TAB, KEYBOARD_KEY_BKSP}

IgnoreKey(code) ==
    /\ code \in {KEYBOARD_KEY_TAB, KEYBOARD_KEY_BKSP}
    /\ UNCHANGED <<console_vars, keyboard_vars>>

SetMulti(code) ==
    /\ code = KEYBOARD_KEY_MULTI
    /\ keyboard_key_multi' = 1
    /\ UNCHANGED <<console_vars, modifier>>

PrintKey(code, make) ==
    IF make = 1
    THEN console_put_char(IF modifier["shift"] = 1 THEN keyboard_scode_with_shift[code]
                                                   ELSE keyboard_scode_no_shift[code])
    ELSE UNCHANGED console_vars

(* Faulty: the prefix counts for all keys that follow.                     *)
MultiStays(code, make) ==
    /\ keyboard_key_multi = 1
    /\ IF code \in {KEYBOARD_KEY_KP_ENTER, KEYBOARD_KEY_KP_SLASH}
       THEN PrintKey(code, make)
       ELSE UNCHANGED console_vars
    /\ UNCHANGED keyboard_vars

(* Faulty: of the prefixed keys only those that are named print nothing.   *)
MultiPrintsOthers(code, make) ==
    /\ keyboard_key_multi = 1
    /\ keyboard_key_multi' = 0
    /\ PrintKey(code, make)
    /\ UNCHANGED modifier

(* After a prefix only the two keypad keys print.                          *)
FunctionKey(code, make) ==
    /\ keyboard_key_multi = 1
    /\ keyboard_key_multi' = 0
    /\ IF code \in {KEYBOARD_KEY_KP_ENTER, KEYBOARD_KEY_KP_SLASH}
       THEN PrintKey(code, make)
       ELSE UNCHANGED console_vars
    /\ UNCHANGED modifier

PlainKey(code, make) ==
    /\ keyboard_key_multi = 0
    /\ PrintKey(code, make)
    /\ UNCHANGED keyboard_vars

(* The right Ctrl and Alt keys are handled before the prefix is looked at, *)
(* so it stays set behind them: the case the code has for them is dead.    *)
keyboard_handler ==
    LET byte == Head(queue)
        code == ScanCode(byte)
        make == IF IsBreak(byte) THEN 0 ELSE 1
    IN  /\ queue # <<>>
        /\ queue' = Tail(queue)
        /\ \/ SetModifier(code, make)
           \/ IgnoreKey(code)
           \/ SetMulti(code)
           \/ /\ Reaches(code)
              /\ code # KEYBOARD_KEY_MULTI
              /\ FunctionKey(code, make) \/ PlainKey(code, make)
        /\ prefix' = (code = KEYBOARD_KEY_MULTI)
        /\ detours' = IF prefix /\ ~ Reaches(code) THEN detours + 1 ELSE detours
        /\ swallowed' = IF /\ ~ prefix /\ Reaches(code) /\ make = 1
                           /\ code # KEYBOARD_KEY_MULTI /\ text' = text
                        THEN swallowed + 1 ELSE swallowed
        /\ UNCHANGED <<down, events>>

(* The kernel prints messages of its own between two interrupts.           *)
KernelPrints ==
    /\ \E chr \in {"k", NewLine} : console_put_char(chr)
    /\ UNCHANGED <<keyboard_vars, queue, down, events, prefix, detours, swallowed>>

Next ==
    \/ \E key \in Keys : Press(key) \/ Release(key)
    \/ keyboard_handler
    \/ KernelPrints

Spec == Init /\ [][Next]_vars

-----------------------------------------------------------------------------
(* No modifier sticks: once all bytes were handled, one that is set has a  *)
(* key that is held.  (The converse is not so: with both Shift keys down,  *)
(* letting go of one clears the variable.)                                 *)
NoStickyModifier ==
    queue = <<>> =>
        \A m \in Modifiers : modifier[m] = 1 =>
            \E key \in down : key.code \in DOMAIN ModifierOf /\ ModifierOf[key.code] = m

(* The prefix that a right Ctrl or Alt key leaves behind swallows at most  *)
(* one character: no more are lost than such keys were pressed or released.*)
SwallowedBounded == swallowed <= detours

(* The cursor keys and other prefixed ones print nothing, whatever came    *)
(* before them; only Enter and the slash of the keypad do.                 *)
PrefixedKeysPrintNothing ==
    [][keyboard_handler /\ prefix /\ text' # text =>
          Head(queue) \in {KEYBOARD_KEY_KP_ENTER, KEYBOARD_KEY_KP_SLASH}]_vars

=============================================================================
