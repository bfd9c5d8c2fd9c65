------------------------------ MODULE Terminal -------------------------------
(***************************************************************************)
(* The character terminal (drivers/terminal/terminal.c): cells, a cursor,  *)
(* and a glass on which only the cells that changed are drawn.             *)
(*                                                                         *)
(* A character is one of Letters, a blank, or one of the four kinds that   *)
(* write() treats apart.  What draw_cell() paints of a character, and its  *)
(* colours, are left out; the bar under the cursor is not, since only the  *)
(* drawing of its cell takes it away.                                      *)
(***************************************************************************)
EXTENDS Integers, Sequences

CONSTANTS
  Columns, Rows,  \* TERMINAL_COLUMNS and TERMINAL_ROWS
  Letters,        \* the printable characters but for the blank
  OtherScreen     \* what the rest of the interface draws into a cell

Space == "space"
Controls == {"newline", "return", "backspace", "unprintable"}
Characters == Letters \union {Space} \union Controls

ASSUME TerminalAssumption ==
  /\ Columns \in Nat \ {0} /\ Rows \in Nat \ {0}
  /\ Letters \intersect (Controls \union {Space, OtherScreen}) = {}

VARIABLES
  term,   \* the cells and which are dirty, the cursor, and the cell where the
          \* bar was drawn last, if that is known
  glass,  \* what each cell shows
  bars    \* the cells in which a bar is shown

terminalVars == <<term, glass, bars>>

Places == (0 .. Rows - 1) \X (0 .. Columns - 1)
Unknown == <<Rows, Columns>>

\* picopen_terminal_init
Cleared == [cells |-> [p \in Places |-> Space], dirty |-> Places,
            cursor |-> <<0, 0>>, drawn |-> Unknown]

ScrolledUp(t) ==
  [t EXCEPT !.cells = [p \in Places |-> IF p[1] + 1 < Rows
                                        THEN t.cells[<<p[1] + 1, p[2]>>] ELSE Space],
            !.dirty = Places, !.drawn = Unknown]

\* newline
NextLine(t) ==
  IF t.cursor[1] + 1 < Rows THEN [t EXCEPT !.cursor = <<t.cursor[1] + 1, 0>>]
  ELSE ScrolledUp([t EXCEPT !.cursor[2] = 0])

Put(t, place, character) ==
  [t EXCEPT !.cells[place] = character, !.dirty = @ \union {place}]

\* word_length: how many letters there are from index i on
WordLength(text, i) ==
  CHOOSE n \in 0 .. Len(text) + 1 - i :
    /\ \A j \in i .. i + n - 1 : text[j] \in Letters
    /\ i + n <= Len(text) => text[i + n] \notin Letters

\* A word that does not fit into the rest of the row starts a new one.
Wrapped(t, length) ==
  IF t.cursor[2] # 0 /\ length <= Columns /\ length > Columns - t.cursor[2]
  THEN NextLine(t) ELSE t

\* A row that is full is left at once.
Advanced(t) ==
  IF t.cursor[2] + 1 < Columns THEN [t EXCEPT !.cursor[2] = @ + 1] ELSE NextLine(t)

\* What write() does with the character at index i of a text
Taken(t, text, i) ==
  LET c == text[i]
      before == <<t.cursor[1], t.cursor[2] - 1>>
      from == IF c = Space THEN t ELSE Wrapped(t, WordLength(text, i)) IN
  CASE c = "newline"     -> NextLine(t)
    [] c = "return"      -> [t EXCEPT !.cursor[2] = 0]
    [] c = "backspace"   -> IF t.cursor[2] = 0 THEN t
                            ELSE [Put(t, before, Space) EXCEPT !.cursor = before]
    [] c = "unprintable" -> t
    [] OTHER             -> Advanced(Put(from, from.cursor, c))

\* picopen_terminal_write
Written(t, text) ==
  LET after[i \in 0 .. Len(text)] ==
        IF i = 0 THEN t ELSE Taken(after[i - 1], text, i)
  IN after[Len(text)]

\* Mutant: the bar is left where the cursor was.
RedrawnAtCursor(t) == t.dirty

\* The cells that render() draws: the bar is taken away where it no longer is.
Redrawn(t) ==
  t.dirty \union (IF t.drawn \notin {Unknown, t.cursor} THEN {t.drawn} ELSE {})

\* picopen_terminal_render, of the terminal as t
Render(t) ==
  /\ term' = [t EXCEPT !.dirty = {}, !.drawn = t.cursor]
  /\ glass' = [p \in Places |-> IF p \in Redrawn(t) THEN t.cells[p] ELSE glass[p]]
  /\ bars' = (bars \ Redrawn(t)) \union {t.cursor}

\* The row in which the one bar is, up to the bar
LineAtBar ==
  LET bar == CHOOSE p \in Places : bars = {p} IN
  [i \in 1 .. bar[2] |-> glass[<<bar[1], i - 1>>]]
=============================================================================
