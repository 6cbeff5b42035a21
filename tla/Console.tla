------------------------------- MODULE Console -------------------------------
(***************************************************************************)
(* The shell's line editor (read_line, the history and the prompt loop of  *)
(* OS/src/kernel/shell.c) on the terminal of Vga.                          *)
(*                                                                         *)
(* read_line takes the place of its input once, when it starts, and draws  *)
(* the line there after every key, over as many rows as it needs, while    *)
(* the window is scrolled by the user.  An action is one key with all its  *)
(* handler does.  Other tasks draw on the same terminal, an application    *)
(* for the first time whoever has the focus.  kmalloc may fail.            *)
(***************************************************************************)
EXTENDS Vga

CONSTANTS
  Chars,        \* characters that are typed
  Prompts,      \* what the prompt consists of in the working directories
  Outputs,      \* what a command prints
  InitialCap,   \* the buffer of read_line starts with this size, 64 in the code
  HistoryMax,   \* HISTORY_MAX
  HistoryLine,  \* characters that a line of the history holds
  MaxTyped      \* bound on the length of a line that is typed

ASSUME CapAssumption == InitialCap \in Nat /\ InitialCap > 2
ASSUME TextsAssumption ==
  \A text \in Prompts \cup Outputs : text \in Seq({text[i] : i \in DOMAIN text})
ASSUME HistoryAssumption == HistoryMax \in Nat \ {0} /\ HistoryLine \in Nat \ {0}

VARIABLES
  term,
  pc,          \* "prompt", "reading" or "running" a command
  start,       \* start_row and start_col as one number of cells
  line, cur, prevLen,
  room,        \* the size of the buffer
  history, historyIndex,
  focused, event,    \* the shell has the focus, and has an event to consume
  drawnOver          \* history: another task has drawn since a key drew the line

readVars == <<start, line, cur, prevLen, room, historyIndex, drawnOver>>
vars == <<term, pc, readVars, history, focused, event>>

Foreign == "#"       \* what another task draws

Cells == ScrollbackRows * TextWidth
CellOf(row, col) == row * TextWidth + col

\* input_capacity_on_screen
Capacity == Cells - start

\* pos_to_rc
RowOf(pos) == (start + pos) \div TextWidth
ColOf(pos) == (start + pos) % TextWidth

-----------------------------------------------------------------------------
\* What the loop of read_line does after a key.

\* The rows of the line are blanked before it is drawn.
BugInputCell(t, ls, row, col, before) ==
  LET i == CellOf(row, col) - start
  IN  IF Visible(t, row) /\ i \in 0..Len(ls) - 1 THEN ls[i + 1]
      ELSE IF Visible(t, row) /\ row \in RowOf(0)..RowOf(Len(ls)) THEN BlankCell
      ELSE before

\* What redraw_input_region draws in a cell of the buffer, from the text it has
InputCell(t, ls, row, col, before) ==
  LET i == CellOf(row, col) - start
  IN  IF ~Visible(t, row) \/ i \notin 0..(IF prevLen > Len(ls) THEN prevLen ELSE Len(ls)) - 1
      THEN before
      ELSE IF i < Len(ls) THEN ls[i + 1] ELSE BlankCell

\* redraw_input_region
RedrawInput(t, ls) ==
  [t EXCEPT
     !.text   = [row \in BufRows |-> [col \in Columns |-> InputCell(t, ls, row, col, @[row][col])]],
     !.screen = [row \in ViewRows |->
                   [col \in Columns |-> InputCell(t, ls, t.top + row, col, @[row][col])]]]

PlaceCursor(t, pos) ==
  IF Visible(t, RowOf(pos)) THEN SetCursorPos(t, RowOf(pos) - t.top, ColOf(pos)) ELSE t

Show(t, ls, pos) ==
  PlaceCursor(RedrawInput(EnsureRowVisible(t, RowOf(pos)), ls), pos)

\* The loop is at its end: the line is ls with the cursor behind pos characters.
Edited(t, ls, pos) ==
  /\ term' = Show(t, ls, pos)
  /\ line' = ls /\ cur' = pos /\ prevLen' = Len(ls)
  /\ drawnOver' = FALSE

Reading == pc = "reading" /\ focused /\ ~event
Unmoved == UNCHANGED <<pc, start, history, focused, event>>

\* The window stays where the user has scrolled it.
BugTailed == term

\* if (!terminal_is_following_tail()) terminal_follow_tail();
Tailed == IF term.follow THEN term ELSE FollowTail(term)

-----------------------------------------------------------------------------
\* Keys.

PageUp ==
  /\ Reading
  /\ term' = ScrollViewUp(term)
  /\ UNCHANGED <<readVars, pc, history, focused, event>>

PageDown ==
  /\ Reading
  /\ term' = ScrollViewDown(term)
  /\ UNCHANGED <<readVars, pc, history, focused, event>>

\* Left, right, and the keys that only have the line drawn again
Move ==
  /\ Reading
  /\ \E pos \in {AtLeastZero(cur - 1), AtMost(cur + 1, Len(line)), cur} :
       Edited(term, line, pos)
  /\ UNCHANGED <<room, historyIndex>> /\ Unmoved

Delete ==
  /\ Reading
  /\ Edited(Tailed, IF cur < Len(line) THEN RemoveAt(line, cur + 1) ELSE line, cur)
  /\ UNCHANGED <<room, historyIndex>> /\ Unmoved

Backspace ==
  /\ Reading
  /\ IF cur > 0 THEN Edited(Tailed, RemoveAt(line, cur), cur - 1) ELSE Edited(Tailed, line, cur)
  /\ UNCHANGED <<room, historyIndex>> /\ Unmoved

\* The scrollback ends behind this line.
Full == Len(line) + 1 >= Capacity

\* A buffer must hold n characters and two more.
Tight(n) == n + 2 >= room

\* The buffer is doubled, unless kmalloc fails.
TypeChar(ch) ==
  /\ Reading
  /\ Len(line) < MaxTyped
  /\ room' \in IF ~Full /\ Tight(Len(line)) THEN {room, 2 * room} ELSE {room}
  /\ IF Full \/ (Tight(Len(line)) /\ room' = room)
     THEN Edited(Tailed, line, cur)
     ELSE Edited(Tailed, InsertAt(line, cur + 1, ch), cur + 1)
  /\ UNCHANGED historyIndex /\ Unmoved

\* The buffer doubled as often as it takes
RoomFor(n) ==
  LET doubled[k \in 0..n + 2] == IF k = 0 THEN room ELSE 2 * doubled[k - 1]
  IN  doubled[Min({k \in 0..n + 2 : doubled[k] > n + 2})]

\* load_history_entry: an entry is cut to what the screen holds, and the line stays when
\* kmalloc fails.
LoadEntry(entry) ==
  LET n == IF Len(entry) >= Capacity THEN Capacity - 1 ELSE Len(entry)
  IN  \/ Edited(term, SubSeq(entry, 1, n), n) /\ room' = RoomFor(n)
      \/ Tight(n) /\ Edited(term, line, cur) /\ UNCHANGED room

Up ==
  /\ Reading
  /\ IF historyIndex > 0
     THEN historyIndex' = historyIndex - 1 /\ LoadEntry(history[historyIndex])
     ELSE Edited(term, line, cur) /\ UNCHANGED <<historyIndex, room>>
  /\ Unmoved

Down ==
  /\ Reading
  /\ historyIndex' = AtMost(historyIndex + 1, Len(history))
  /\ IF historyIndex' = Len(history)
     THEN Edited(term, <<>>, 0) /\ UNCHANGED room
     ELSE LoadEntry(history[historyIndex' + 1])
  /\ Unmoved

\* history_push: a line is kept once when it is entered repeatedly, cut to what an entry
\* holds, and the oldest entry is given up for it.
Pushed(ls) ==
  LET kept == IF Len(history) = HistoryMax THEN SubSeq(history, 2, HistoryMax) ELSE history
  IN  IF ls = <<>> \/ (history # <<>> /\ Last(history) = ls) THEN history
      ELSE Append(kept, SubSeq(ls, 1, AtMost(Len(ls), HistoryLine)))

NoInput ==
  /\ start' = 0 /\ line' = <<>> /\ cur' = 0 /\ prevLen' = 0 /\ room' = 0
  /\ historyIndex' = 0
  /\ drawnOver' = FALSE

\* The cursor goes behind the line before it is broken.
Enter ==
  /\ Reading
  /\ term' = Newline(PlaceCursor(EnsureRowVisible(Tailed, RowOf(Len(line))), Len(line)))
  /\ history' = Pushed(line)
  /\ pc' = "running"
  /\ NoInput
  /\ UNCHANGED <<focused, event>>

-----------------------------------------------------------------------------
\* The prompt loop of task_shell.

\* prompt
Prompted(t, prompt) ==
  LET written == Write(t, prompt)
  IN  SetCursorPos(written, GetRow(written), written.col)

OutOfMemory == <<"!", LineBreak>>

Prompt ==
  /\ pc = "prompt" /\ focused
  /\ event' = FALSE
  /\ \E prompt \in Prompts :
       LET shown == Prompted(IF event THEN Cleared ELSE term, prompt)
       IN  \/ /\ term' = shown
              /\ pc' = "reading"
              /\ start' = CellOf(shown.row, shown.col)
              /\ line' = <<>> /\ cur' = 0 /\ prevLen' = 0
              /\ room' = InitialCap /\ historyIndex' = Len(history)
              /\ drawnOver' = FALSE
           \/ /\ term' = Write(shown, OutOfMemory)          \* kmalloc fails
              /\ UNCHANGED <<pc, readVars>>
  /\ UNCHANGED <<history, focused>>

\* A command prints, or clears the screen.
Execute ==
  /\ pc = "running"
  /\ pc' = "prompt"
  /\ \/ \E output \in Outputs : term' = Write(term, output)
     \/ term' = Cleared
  /\ UNCHANGED <<readVars, history, focused, event>>

\* read_line sees that it had lost the focus, and gives up the line.
SeeFocus ==
  /\ pc = "reading" /\ focused /\ event
  /\ event' = FALSE
  /\ term' = Cleared
  /\ pc' = "prompt"
  /\ NoInput
  /\ UNCHANGED <<history, focused>>

\* Alt+F1, or a command that gives the focus away
FocusLeaves ==
  /\ focused
  /\ focused' = FALSE
  /\ UNCHANGED <<term, pc, readVars, history, event>>

FocusReturns ==
  /\ ~focused
  /\ focused' = TRUE /\ event' = TRUE
  /\ UNCHANGED <<term, pc, readVars, history>>

\* An application draws its screen, for the first time as soon as it runs.
OthersDraw ==
  /\ \E row \in ViewRows, t \in IF focused THEN {Cleared} ELSE {Cleared, term} :
       term' = SetCursorPos(PutAt(t, row, 0, Foreign), row, 0)
  /\ drawnOver' = (drawnOver \/ Reading)
  /\ UNCHANGED <<start, line, cur, prevLen, room, historyIndex, pc, history, focused, event>>

Key ==
  \/ PageUp \/ PageDown \/ Move \/ Delete \/ Backspace \/ Up \/ Down \/ Enter
  \/ \E ch \in Chars : TypeChar(ch)

Init ==
  /\ term = Cleared
  /\ pc = "prompt"
  /\ start = 0 /\ line = <<>> /\ cur = 0 /\ prevLen = 0 /\ room = 0 /\ historyIndex = 0
  /\ history = <<>>
  /\ focused = TRUE /\ event = FALSE
  /\ drawnOver = FALSE

Next == Key \/ Prompt \/ Execute \/ SeeFocus \/ FocusLeaves \/ FocusReturns \/ OthersDraw

Spec == Init /\ [][Next]_vars

-----------------------------------------------------------------------------
TypeOK ==
  /\ pc \in {"prompt", "reading", "running"}
  /\ term.row \in BufRows /\ term.col \in Columns
  /\ term.head \in BufRows /\ term.top \in BufRows /\ term.follow \in BOOLEAN
  /\ line \in Seq(Chars) /\ cur \in 0..Len(line)
  /\ historyIndex \in 0..Len(history) /\ Len(history) <= HistoryMax
  /\ focused \in BOOLEAN /\ event \in BOOLEAN /\ drawnOver \in BOOLEAN

\* Wherever in the scrollback the prompt ended and whatever the buffer was enlarged to
\* or refused, the line and the character behind it lie in the buffer, the line and the
\* cursor behind it in the scrollback.  While it is edited, the place at which the
\* terminal would go on writing is the cell of the line that the cursor is in, through
\* all that the window and the line are moved (read_line); a key brings it back to there
\* after an application has moved it away.
InputInPlace ==
  /\ TypeOK
  /\ pc = "reading" => Len(line) + 1 < room /\ start + Len(line) < Cells
  /\ Reading /\ ~drawnOver => CellOf(term.row, term.col) = start + cur

\* What is on the screen is the window of the scrollback, after output that scrolls,
\* input that is drawn in place, and keys that move the window (vga.rst: "Writes to
\* normal terminal rows update both the scrollback buffer and visible VGA memory").
ScreenIsWindow == term.screen = Window(term) /\ term.shown = ShownCursor(term)

BeforeInput(row, col) == CellOf(row, col) < start

ShowsLine(t, ls) ==
  \A pos \in 0..Len(ls) - 1 :
    Visible(t, RowOf(pos)) => t.screen[RowOf(pos) - t.top][ColOf(pos)] = ls[pos + 1]

\* What was printed before the line stays in its cells, whatever key draws the line
\* again.  After a key that changes the line by a character the cursor is in the window,
\* and every cell of the line that is in the window shows its character: what was changed
\* while its place was scrolled out is drawn when the window comes back
\* (redraw_input_region).
EditsInPlace ==
  [][/\ Key /\ pc' = "reading" =>
          \A row \in BufRows, col \in Columns :
            BeforeInput(row, col) => term'.text[row][col] = term.text[row][col]
     /\ Delete \/ Backspace \/ (\E ch \in Chars : TypeChar(ch)) =>
          Visible(term', term'.row) /\ ShowsLine(term', line')]_vars

\* What a command prints is in the window when it ends: whatever the user scrolled while
\* the command was typed, the row that was written last is visible
\* (terminal_follow_tail in read_line).
OutputIsSeen ==
  [][pc = "running" /\ pc' = "prompt" => Visible(term', term'.head)]_vars

-----------------------------------------------------------------------------
\* The comment in read_line: "redraw input and place cursor".  Nothing of a longer line
\* is left behind the line.
InputIsDrawn ==
  Reading =>
    \A row \in BufRows, col \in Columns :
      Visible(term, row) /\ CellOf(row, col) >= start + Len(line)
        => term.text[row][col] \in {BlankCell, Foreign}

\* The comment in history_push: "avoid duplicate consecutive entries".
HistoryHasNoRepeats == \A i \in 2..Len(history) : history[i] # history[i - 1]

=============================================================================
