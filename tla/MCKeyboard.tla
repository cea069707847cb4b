----------------------------- MODULE MCKeyboard -----------------------------
(* A screen of two lines of two characters, and the keys A, left Shift,    *)
(* left and right Ctrl, cursor up and the keypad's Enter.                  *)
EXTENDS Keyboard

Key(prefixed, code) == [prefixed |-> prefixed, code |-> code]

SomeKeys == { Key(FALSE, \h1E), Key(FALSE, \h2A), Key(FALSE, \h1D),
              Key(TRUE, \h1D), Key(TRUE, \h48), Key(TRUE, \h1C) }

=============================================================================
