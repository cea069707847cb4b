------------------------------- MODULE Console -------------------------------
(***************************************************************************)
(* The text console of console/console.c: a window of CONSOLE_COLUMN lines *)
(* of CONSOLE_ROW characters in video memory, a position, and the hardware *)
(* cursor.  (The code calls the length of a line ROW and their number      *)
(* COLUMN.)  The colour, the same for every character, is left out.        *)
(*                                                                         *)
(* A call runs as one step.  The code does not protect it: a key that      *)
(* interrupts a call made by the kernel itself leaves registers and        *)
(* position in a state nothing can be said of (see README).                *)
(***************************************************************************)
EXTENDS Integers, SequencesExt

CONSTANTS
    CONSOLE_ROW,        \* characters in a line
    CONSOLE_COLUMN,     \* lines
    MaxText             \* bound: characters written

ASSUME ConsoleAssumption ==
    CONSOLE_ROW \in Nat \ {0} /\ CONSOLE_COLUMN \in Nat \ {0} /\ MaxText \in Nat

VARIABLES
    screen,             \* the character cells, by their number from 0
    console_x_pos,
    console_y_pos,
    cursor,             \* the cell of the hardware cursor
    text                \* history: what was written

console_vars == <<screen, console_x_pos, console_y_pos, cursor, text>>

Blank   == " "
NewLine == "\n"
Cells   == 0 .. CONSOLE_ROW * CONSOLE_COLUMN - 1

Cell(x, y) == x + y * CONSOLE_ROW

(* console_init clears the screen.                                         *)
console_clr_screen ==
    /\ screen = [c \in Cells |-> Blank]
    /\ console_x_pos = 0
    /\ console_y_pos = 0
    /\ cursor = Cell(0, 0)

ConsoleInit == console_clr_screen /\ text = <<>>

(* Faulty: the last line keeps what it showed.                             *)
ScrollKeepsLast(cells) ==
    [c \in Cells |-> IF c + CONSOLE_ROW \in Cells THEN cells[c + CONSOLE_ROW] ELSE cells[c]]

(* Every line moves up, and the last becomes blank.                        *)
console_scroll_up(cells) ==
    [c \in Cells |-> IF c + CONSOLE_ROW \in Cells THEN cells[c + CONSOLE_ROW] ELSE Blank]

PutNewLine ==
    /\ console_x_pos' = 0
    /\ \/ /\ console_y_pos = CONSOLE_COLUMN - 1
          /\ screen' = console_scroll_up(screen)
          /\ UNCHANGED console_y_pos
       \/ /\ console_y_pos # CONSOLE_COLUMN - 1
          /\ console_y_pos' = console_y_pos + 1
          /\ UNCHANGED screen

(* A full line is left only when the next character comes.                 *)
Wraps == console_x_pos = CONSOLE_ROW

PutGlyph(chr) ==
    LET line    == IF Wraps THEN console_y_pos + 1 ELSE console_y_pos
        scrolls == line = CONSOLE_COLUMN
        x       == IF Wraps \/ scrolls THEN 0 ELSE console_x_pos
        y       == IF scrolls THEN line - 1 ELSE line
        cells   == IF scrolls THEN console_scroll_up(screen) ELSE screen
    IN  /\ screen' = [cells EXCEPT ![Cell(x, y)] = chr]
        /\ console_x_pos' = x + 1
        /\ console_y_pos' = y

console_put_char(chr) ==
    /\ Len(text) < MaxText
    /\ IF chr = NewLine THEN PutNewLine ELSE PutGlyph(chr)
    /\ cursor' = Cell(console_x_pos', console_y_pos')
    /\ text' = Append(text, chr)

-----------------------------------------------------------------------------
(* The text as lines of at most CONSOLE_ROW characters.                    *)
Continued(lines, chr) ==
    IF chr = NewLine THEN Append(lines, <<>>)
    ELSE IF Len(Last(lines)) = CONSOLE_ROW THEN Append(lines, <<chr>>)
    ELSE [lines EXCEPT ![Len(lines)] = Append(@, chr)]

LinesOf(chars) ==
    LET upto[n \in 0 .. Len(chars)] ==
            IF n = 0 THEN << <<>> >> ELSE Continued(upto[n - 1], chars[n])
    IN  upto[Len(chars)]

Lines == LinesOf(text)

(* The screen shows the last lines of everything that was written, and the *)
(* position and the cursor are behind the last character.                  *)
ScreenShowsTail ==
    LET above == IF Len(Lines) > CONSOLE_COLUMN THEN Len(Lines) - CONSOLE_COLUMN ELSE 0
        shown(x, y) ==
            IF above + y + 1 \in DOMAIN Lines /\ x + 1 \in DOMAIN Lines[above + y + 1]
            THEN Lines[above + y + 1][x + 1] ELSE Blank
    IN  /\ \A x \in 0 .. CONSOLE_ROW - 1, y \in 0 .. CONSOLE_COLUMN - 1 :
              screen[Cell(x, y)] = shown(x, y)
        /\ console_y_pos = Len(Lines) - above - 1
        /\ console_x_pos = Len(Last(Lines))
        /\ cursor = Cell(console_x_pos, console_y_pos)

=============================================================================
