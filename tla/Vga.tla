--------------------------------- MODULE Vga ---------------------------------
(***************************************************************************)
(* The terminal of OS/src/drivers/vga.c: the scrollback, the window of it  *)
(* that is on the screen, and the two cursors.                             *)
(*                                                                         *)
(* A terminal is a record, and each function of the driver an operator     *)
(* from terminals to terminals, so that the handlers that call several of  *)
(* them are compositions.  Rows and columns count from 0, as in the code.  *)
(* Colours, the scroll bar and the two overlay rows are left out.          *)
(***************************************************************************)
EXTENDS Integers, SequencesExt

CONSTANTS
  TextWidth,       \* TEXT_WIDTH
  TermHeight,      \* TERM_HEIGHT
  ScrollbackRows   \* SCROLLBACK_ROWS

ASSUME SizesAssumption ==
  /\ TextWidth \in Nat \ {0}
  /\ TermHeight \in Nat \ {0}
  /\ ScrollbackRows \in Nat /\ ScrollbackRows >= TermHeight

Columns == 0..TextWidth - 1
BufRows == 0..ScrollbackRows - 1
ViewRows == 0..TermHeight - 1

LastBufRow == ScrollbackRows - 1
LastViewRow == TermHeight - 1

BlankCell == " "
BlankRow == [col \in Columns |-> BlankCell]

AtMost(n, bound) == IF n < bound THEN n ELSE bound
AtLeastZero(n) == IF n > 0 THEN n ELSE 0

\* Definitions named Bug... are mistakes that the properties must notice, not part of
\* the model.

-----------------------------------------------------------------------------
\* terminal_clear and terminal_clear_text_area
Cleared ==
  [text   |-> [row \in BufRows |-> BlankRow],      \* g_textbuf
   row    |-> 0, col |-> 0,                        \* g_cursor_row, g_cursor_col
   head   |-> 0,                                   \* g_head_row
   top    |-> 0,                                   \* g_view_top
   follow |-> TRUE,                                \* g_follow_tail
   screen |-> [row \in ViewRows |-> BlankRow],     \* VGA_MEMORY
   shown  |-> <<0, 0>>]                            \* the cursor of the hardware

\* sync_hw_cursor: a cursor outside of the window is shown at its border.
ShownCursor(t) ==
  <<AtMost(AtLeastZero(t.row - t.top), LastViewRow), AtMost(t.col, TextWidth - 1)>>

SyncCursor(t) == [t EXCEPT !.shown = ShownCursor(t)]

\* render_text_window
Window(t) ==
  [row \in ViewRows |-> IF t.top + row \in BufRows THEN t.text[t.top + row] ELSE BlankRow]

Render(t) == SyncCursor([t EXCEPT !.screen = Window(t)])

Visible(t, row) == row \in t.top..t.top + LastViewRow

-----------------------------------------------------------------------------
\* Output at the cursor.

Following(t) == IF t.follow THEN [t EXCEPT !.top = AtLeastZero(t.row - LastViewRow)] ELSE t

\* advance_to_next_line in the last row of the scrollback
ScrolledUp(t) ==
  [t EXCEPT !.text = [row \in BufRows |-> IF row < LastBufRow THEN t.text[row + 1] ELSE BlankRow],
            !.col  = 0,
            !.top  = AtLeastZero(t.top - 1)]

\* advance_to_next_line
Advance(t) ==
  Following(IF t.row < LastBufRow
            THEN [t EXCEPT !.row = t.row + 1, !.col = 0, !.text[t.row + 1] = BlankRow]
            ELSE ScrolledUp(t))

\* terminal_newline: the rest of the row is blanked.
Newline(t) ==
  LET ended == [t EXCEPT !.text[t.row] =
                  [col \in Columns |-> IF col < t.col THEN t.text[t.row][col] ELSE BlankCell]]
      next  == Advance(ended)
  IN  Render([next EXCEPT !.head = next.row])

\* terminal_putc, for a character other than a line break.  The column is inside of the
\* row, since whatever reaches its end goes to the next one.
PutVisible(t, ch) ==
  LET put == [t EXCEPT !.text[t.row][t.col] = ch, !.col = t.col + 1]
  IN  IF put.col >= TextWidth THEN Newline(put)
      ELSE Render(Following([put EXCEPT !.head = put.row]))

LineBreak == "\n"
Putc(t, ch) == IF ch = LineBreak THEN Newline(t) ELSE PutVisible(t, ch)

\* terminal_write
Write(t, text) ==
  LET written[n \in 0..Len(text)] == IF n = 0 THEN t ELSE Putc(written[n - 1], text[n])
  IN  written[Len(text)]

-----------------------------------------------------------------------------
\* The window.

\* The first row of the window when it ends with the row being written
TailTop(t) == IF t.head >= TermHeight THEN t.head - TermHeight + 1 ELSE 0

\* terminal_ensure_row_visible
EnsureRowVisible(t, row) ==
  LET r == AtMost(row, LastBufRow)
  IN  IF r < t.top THEN Render([t EXCEPT !.top = r])
      ELSE IF ~Visible(t, r) THEN Render([t EXCEPT !.top = r - LastViewRow])
      ELSE t

ScrollViewUp(t) == Render([t EXCEPT !.top = AtLeastZero(t.top - 1), !.follow = FALSE])

ScrollViewDown(t) ==
  LET top == IF t.top < TailTop(t) THEN t.top + 1 ELSE t.top
  IN  Render([t EXCEPT !.top = top, !.follow = t.follow \/ top = TailTop(t)])

FollowTail(t) == Render([t EXCEPT !.top = TailTop(t), !.follow = TRUE])

-----------------------------------------------------------------------------
\* Output at a place of the window.

\* terminal_get_row
GetRow(t) == AtMost(AtLeastZero(t.row - t.top), LastViewRow)

\* The row of the window is taken for the row of the scrollback.
BugSetCursorPos(t, row, col) ==
  SyncCursor([t EXCEPT !.row = AtMost(row, LastViewRow), !.col = AtMost(col, TextWidth - 1)])

\* terminal_set_cursor_pos
SetCursorPos(t, row, col) ==
  SyncCursor([t EXCEPT !.row = AtMost(t.top + AtMost(row, LastViewRow), LastBufRow),
                       !.col = AtMost(col, TextWidth - 1)])

\* A character is put in the scrollback and comes to the screen when that is drawn again.
BugPutAt(t, row, col, ch) ==
  IF row \in ViewRows /\ col \in Columns /\ t.top + row \in BufRows
  THEN [t EXCEPT !.text[t.top + row][col] = ch]
  ELSE t

\* terminal_putc_at and terminal_putentry_at, in the text area
PutAt(t, row, col, ch) ==
  IF row \in ViewRows /\ col \in Columns /\ t.top + row \in BufRows
  THEN [t EXCEPT !.text[t.top + row][col] = ch, !.screen[row][col] = ch]
  ELSE t

=============================================================================
