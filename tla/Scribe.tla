------------------------------- MODULE Scribe -------------------------------
(***************************************************************************)
(* The text editor (OS/src/kernel/scribe.c) from opening a file to         *)
(* closing it: the array of lines, the cursor, the part of the text that   *)
(* is on the screen, and the file.                                         *)
(*                                                                         *)
(* An action is what the loop does with one key, up to and with the        *)
(* drawing it does before it asks for the next one.  Lines count from 1,   *)
(* and curCol is the number of characters left of the cursor, as in the    *)
(* code.  kmalloc does not fail (Heap), so the only edit that the code     *)
(* answers with "Out of memory." is a split at SCRIBE_MAX_LINES.           *)
(*                                                                         *)
(* The screen belongs to nobody.  Other tasks draw on the text area at any *)
(* time, whoever has the focus; they may also delete the file, but do not  *)
(* write it.                                                               *)
(***************************************************************************)
EXTENDS Integers, FiniteSets, SequencesExt

CONSTANTS
  Chars,       \* the characters that are typed
  TabWidth,    \* blanks that a tab inserts, 4 in the code
  MaxLines,    \* SCRIBE_MAX_LINES
  TextRows,    \* SCRIBE_TEXT_ROWS
  Files,       \* contents of the file before the editor starts
  Needles,     \* what is searched for
  MaxText      \* bound on the length of the text

ASSUME MaxLinesAssumption == MaxLines \in Nat \ {0}
ASSUME TextRowsAssumption == TextRows \in Nat \ {0}
ASSUME TabWidthAssumption == TabWidth \in Nat

VARIABLES
  lines, curLine, curCol, topLine, modified,
  mode,      \* "write", "command", one of the three prompts, or "closed"
  screen,    \* what each row of the text area shows
  focused,   \* this task has the focus
  event,     \* a focus event is waiting
  file,      \* the contents the file has, or had when it was deleted
  exists     \* the file is still there

vars == <<lines, curLine, curCol, topLine, modified, mode, screen, focused, event,
          file, exists>>

NL == "\n"
CR == "\r"
Blank == " "
Symbols == Chars \cup {Blank, NL, CR}

ASSUME CharsAssumption == NL \notin Chars
ASSUME FilesAssumption == Files \subseteq Seq(Symbols)
ASSUME NeedlesAssumption == Needles \subseteq Seq(Symbols)

Prompts == {"search", "goto", "quit"}

Minimum(m, n) == IF m < n THEN m ELSE n
CurLen == Len(lines[curLine])

-----------------------------------------------------------------------------
\* Definitions named Bug... are mistakes that the properties must notice, not part of
\* the model.

\* Files and lines.

\* Where the lines of a text end; a newline at the end of the text begins no line.
LineEnds(text) ==
  {i \in DOMAIN text : text[i] = NL}
    \cup (IF text = <<>> \/ Last(text) = NL THEN {} ELSE {Len(text) + 1})

LineEnd(text, n) ==
  IF n = 0 THEN 0
  ELSE CHOOSE i \in LineEnds(text) : Cardinality({k \in LineEnds(text) : k <= i}) = n

WithoutCR(line) == IF line # <<>> /\ Last(line) = CR THEN Front(line) ELSE line

LineOf(text, n) == WithoutCR(SubSeq(text, LineEnd(text, n - 1) + 1, LineEnd(text, n) - 1))

\* scribe_load_from_text
Load(text) ==
  IF text = <<>> THEN << <<>> >>
  ELSE [n \in 1..Minimum(Cardinality(LineEnds(text)), MaxLines) |-> LineOf(text, n)]

\* The text that scribe_save writes.
Join(ls) ==
  FlattenSeq([n \in DOMAIN ls |-> IF n < Len(ls) THEN Append(ls[n], NL) ELSE ls[n]])

-----------------------------------------------------------------------------
\* The screen.
NoLine == <<0, <<>>>>         \* a row below the end of the text

\* A row that another task has written, cleared or scrolled: while this task was not up to
\* date with the focus, or when it was
Foreign == <<-1, <<>>>>
Intruded == <<-2, <<>>>>

Rows == 0..TextRows - 1

\* scribe_draw_text_row: the gutter's number and the line
Row(ls, n) == IF n <= Len(ls) THEN <<n, ls[n]>> ELSE NoLine

\* The view follows the cursor only downwards.
BugKeepVisible(top, line) ==
  IF line >= top + TextRows THEN line - (TextRows - 1) ELSE top

\* scribe_keep_cursor_visible
KeepVisible(top, line) ==
  IF line < top THEN line
  ELSE IF line >= top + TextRows THEN line - (TextRows - 1)
  ELSE top

\* The rows of changed lines are drawn, or all when the view has moved.
Draw(ls, top, changed) ==
  [row \in Rows |->
     IF top # topLine \/ top + row \in changed THEN Row(ls, top + row) ELSE screen[row]]

Everything == Nat
From(n) == {i \in Nat : i >= n}

\* The text becomes ls with the cursor at a place, seen from a top line.
View(ls, line, col, top, changed) ==
  /\ lines' = ls
  /\ curLine' = line
  /\ curCol' = col
  /\ topLine' = KeepVisible(top, line)
  /\ screen' = Draw(ls, topLine', changed)

Render(line, col) == View(lines, line, col, topLine, Everything)

-----------------------------------------------------------------------------
\* scribe_open: the loop has drawn the screen before it asks for a key.  As an
\* application of Janus it starts with a focus event.
Init ==
  /\ file \in Files
  /\ exists = TRUE
  /\ lines = Load(file)
  /\ curLine = 1 /\ curCol = 0 /\ topLine = 1
  /\ modified = FALSE
  /\ mode = "write"
  /\ screen = [row \in Rows |-> Row(lines, 1 + row)]
  /\ focused \in BOOLEAN
  /\ event \in BOOLEAN

Surroundings == <<focused, event, file, exists>>

\* The loop takes a key only after the focus event has been seen; a prompt does not ask.
Takes(m) == mode = m /\ focused /\ (m \in Prompts \/ ~event)

Place(line, col) ==
  /\ View(lines, line, col, topLine, {})
  /\ UNCHANGED <<modified, mode, Surroundings>>

Edit(ls, line, col, changed) ==
  /\ Len(Join(ls)) <= MaxText
  /\ View(ls, line, col, topLine, changed)
  /\ modified' = TRUE
  /\ UNCHANGED <<mode, Surroundings>>

\* Arrow keys
Left ==
  /\ Takes("write")
  /\ IF curCol > 0 THEN Place(curLine, curCol - 1)
     ELSE IF curLine > 1 THEN Place(curLine - 1, Len(lines[curLine - 1]))
     ELSE Place(curLine, curCol)

Right ==
  /\ Takes("write")
  /\ IF curCol < CurLen THEN Place(curLine, curCol + 1)
     ELSE IF curLine < Len(lines) THEN Place(curLine + 1, 0)
     ELSE Place(curLine, curCol)

\* The column stays although the line is shorter.
BugInLine(line) == Place(line, curCol)

InLine(line) == Place(line, Minimum(curCol, Len(lines[line])))

Up == Takes("write") /\ InLine(IF curLine > 1 THEN curLine - 1 ELSE curLine)
Down == Takes("write") /\ InLine(IF curLine < Len(lines) THEN curLine + 1 ELSE curLine)

\* The view moves by one line, and back if the cursor is not in it.
Page(top) ==
  /\ View(lines, curLine, curCol, top, Everything)
  /\ UNCHANGED <<modified, mode, Surroundings>>

PageUp == Takes("write") /\ Page(IF topLine > 1 THEN topLine - 1 ELSE topLine)

PageDown ==
  /\ Takes("write")
  /\ Page(IF topLine - 1 + TextRows < Len(lines) THEN topLine + 1 ELSE topLine)

\* scribe_insert_char, for a character or for the blanks of a tab
InsertText(typed) ==
  LET line == lines[curLine]
      new  == SubSeq(line, 1, curCol) \o typed \o SubSeq(line, curCol + 1, Len(line))
  IN  Edit(ReplaceAt(lines, curLine, new), curLine, curCol + Len(typed), {curLine})

Tabbed == [i \in 1..TabWidth |-> Blank]

TypeChar == Takes("write") /\ \E ch \in Chars : InsertText(<<ch>>)
TypeTab == Takes("write") /\ InsertText(Tabbed)

Merged(n) == RemoveAt(ReplaceAt(lines, n, lines[n] \o lines[n + 1]), n + 1)

\* scribe_backspace
Backspace ==
  /\ Takes("write")
  /\ IF curCol > 0
     THEN Edit(ReplaceAt(lines, curLine, RemoveAt(lines[curLine], curCol)),
               curLine, curCol - 1, {curLine})
     ELSE /\ curLine > 1
          /\ Edit(Merged(curLine - 1), curLine - 1, Len(lines[curLine - 1]),
                  From(curLine - 1))

\* The following line is removed but not taken over.
BugDelete ==
  /\ Takes("write")
  /\ IF curCol < CurLen
     THEN Edit(ReplaceAt(lines, curLine, RemoveAt(lines[curLine], curCol + 1)),
               curLine, curCol, {curLine})
     ELSE /\ curLine < Len(lines)
          /\ Edit(RemoveAt(lines, curLine + 1), curLine, curCol, From(curLine))

\* scribe_delete_char
Delete ==
  /\ Takes("write")
  /\ IF curCol < CurLen
     THEN Edit(ReplaceAt(lines, curLine, RemoveAt(lines[curLine], curCol + 1)),
               curLine, curCol, {curLine})
     ELSE /\ curLine < Len(lines)
          /\ Edit(Merged(curLine), curLine, curCol, From(curLine))

LeftPart == SubSeq(lines[curLine], 1, curCol)
RightPart == SubSeq(lines[curLine], curCol + 1, CurLen)

\* scribe_insert_line takes one more line.
RoomForLine == Len(lines) < MaxLines

\* scribe_split_line
Split ==
  /\ Takes("write")
  /\ RoomForLine
  /\ Edit(InsertAt(ReplaceAt(lines, curLine, LeftPart), curLine + 1, RightPart),
          curLine + 1, 0, From(curLine))

\* scribe_split_line when no line can be inserted: the line is cut already, and only
\* the status row is drawn.
SplitFails ==
  /\ Takes("write")
  /\ ~RoomForLine
  /\ View(ReplaceAt(lines, curLine, LeftPart), curLine, curCol, topLine, {})
  /\ UNCHANGED <<modified, mode, Surroundings>>

Escape ==
  /\ Takes("write")
  /\ Render(curLine, curCol)
  /\ mode' = "command"
  /\ UNCHANGED <<modified, Surroundings>>

WriteEdit == TypeChar \/ TypeTab \/ Backspace \/ Delete \/ Split \/ SplitFails
WriteMove == Left \/ Right \/ Up \/ Down \/ PageUp \/ PageDown

-----------------------------------------------------------------------------
\* Command mode.
SwitchMode(from, to) ==
  /\ Takes(from)
  /\ mode' = to
  /\ UNCHANGED <<modified, Surroundings>>

Write == SwitchMode("command", "write") /\ Render(curLine, curCol)

\* A save that fails counts as one.
BugSaved == IF exists THEN file' = Join(lines) /\ modified' = FALSE
            ELSE modified' = FALSE /\ UNCHANGED file

\* scribe_save; vfs_carve fails when the file is gone
Saved == IF exists THEN file' = Join(lines) /\ modified' = FALSE
         ELSE UNCHANGED <<file, modified>>

Save ==
  /\ Takes("command")
  /\ Saved
  /\ Render(curLine, curCol)
  /\ UNCHANGED <<mode, focused, event, exists>>

Close == mode' = "closed" /\ UNCHANGED <<lines, curLine, curCol, topLine, screen>>

\* x
SaveAndQuit ==
  /\ Takes("command")
  /\ Saved
  /\ IF exists THEN Close ELSE Render(curLine, curCol) /\ UNCHANGED mode
  /\ UNCHANGED <<focused, event, exists>>

\* q; a prompt leaves the text area as it is
Quit ==
  /\ Takes("command")
  /\ IF modified
     THEN mode' = "quit" /\ UNCHANGED <<lines, curLine, curCol, topLine, screen>>
     ELSE Close
  /\ UNCHANGED <<modified, Surroundings>>

QuitAnswered ==
  /\ Takes("quit")
  /\ Close \/ (mode' = "command" /\ Render(curLine, curCol))
  /\ UNCHANGED <<modified, Surroundings>>

OpenPrompt(prompt) ==
  /\ SwitchMode("command", prompt)
  /\ UNCHANGED <<lines, curLine, curCol, topLine, screen>>

\* kstrstr: the number of characters before a needle in a line
Found(line, needle) ==
  {col \in 0..Len(line) - Len(needle) : SubSeq(line, col + 1, col + Len(needle)) = needle}

HasNeedle(needle) == {n \in DOMAIN lines : Found(lines[n], needle) # {}}

\* From the cursor's line down, then from the top.
NextMatch(needle) ==
  LET below == {n \in HasNeedle(needle) : n >= curLine}
  IN  Min(IF below # {} THEN below ELSE HasNeedle(needle))

\* scribe_search
Search(needle) ==
  /\ SwitchMode("search", "command")
  /\ IF HasNeedle(needle) # {}
     THEN LET n == NextMatch(needle) IN Render(n, Min(Found(lines[n], needle)))
     ELSE Render(curLine, curCol)

\* The column stays although the line is shorter.
BugGoto(number) ==
  /\ SwitchMode("goto", "command")
  /\ Render(Minimum(number, Len(lines)), curCol)

\* scribe_goto with a number
Goto(number) ==
  /\ SwitchMode("goto", "command")
  /\ LET line == Minimum(number, Len(lines))
     IN  Render(line, Minimum(curCol, Len(lines[line])))

\* Nothing typed, Esc, zero or no number
PromptCancelled ==
  \E prompt \in {"search", "goto"} :
    SwitchMode(prompt, "command") /\ Render(curLine, curCol)

CommandKey ==
  \/ Write \/ Save \/ SaveAndQuit \/ Quit
  \/ OpenPrompt("search") \/ OpenPrompt("goto")

PromptKey ==
  \/ QuitAnswered \/ PromptCancelled
  \/ \E needle \in Needles : Search(needle)
  \/ \E number \in 1..MaxLines + 1 : Goto(number)

-----------------------------------------------------------------------------
\* Around the editor.
Buffer == <<lines, curLine, curCol, topLine, modified, mode>>

\* This task has the focus and has seen it: it will not draw again by itself.
UpToDate == focused /\ ~event

\* Others print without asking who has the focus: the shell running a script, a golem, an
\* application that draws for the first time.  All rows are touched: one that is not shows
\* what it would without this step, as no key looks at the screen.
OthersDraw ==
  /\ mode # "closed"
  /\ screen' = [row \in Rows |-> IF UpToDate THEN Intruded ELSE Foreign]
  /\ UNCHANGED <<Buffer, focused, event, file, exists>>

\* Alt+F1, or a command of a script
FocusLeaves ==
  /\ mode # "closed" /\ focused
  /\ focused' = FALSE
  /\ UNCHANGED <<Buffer, screen, event, file, exists>>

FocusReturns ==
  /\ mode # "closed" /\ ~focused
  /\ focused' = TRUE
  /\ event' = TRUE
  /\ UNCHANGED <<Buffer, screen, file, exists>>

\* The focus event is seen but only the cursor's row is drawn.
BugSeeFocus ==
  /\ mode \in {"write", "command"} /\ focused /\ event
  /\ event' = FALSE
  /\ View(lines, curLine, curCol, topLine, {curLine})
  /\ UNCHANGED <<modified, mode, focused, file, exists>>

\* The loop consumes the focus event and draws everything.
SeeFocus ==
  /\ mode \in {"write", "command"} /\ focused /\ event
  /\ event' = FALSE
  /\ Render(curLine, curCol)
  /\ UNCHANGED <<modified, mode, focused, file, exists>>

\* burn, by the shell
FileDeleted ==
  /\ mode # "closed" /\ exists
  /\ exists' = FALSE
  /\ UNCHANGED <<Buffer, screen, focused, event, file>>

Around == OthersDraw \/ FocusLeaves \/ FocusReturns \/ SeeFocus \/ FileDeleted

Next == WriteEdit \/ WriteMove \/ Escape \/ CommandKey \/ PromptKey \/ Around

Spec == Init /\ [][Next]_vars

-----------------------------------------------------------------------------
(* Properties *)

\* The buffer holds between one and MaxLines lines, none with a line break in it.
TypeOK ==
  /\ lines \in Seq(Seq(Symbols \ {NL})) /\ Len(lines) \in 1..MaxLines
  /\ curLine \in Nat /\ curCol \in Nat /\ topLine \in Nat \ {0}
  /\ modified \in BOOLEAN /\ focused \in BOOLEAN /\ event \in BOOLEAN
  /\ exists \in BOOLEAN
  /\ mode \in {"write", "command", "closed"} \cup Prompts
  /\ DOMAIN screen = Rows

\* The cursor is on a line of the text and at most behind its last character, whatever
\* merges, splits, searches and jumps came before: every edit indexes lines[cur_line]
\* and copies from cur_col without a check (scribe_insert_char, scribe_split_line).
CursorInText ==
  /\ TypeOK
  /\ curLine \in DOMAIN lines
  /\ curCol <= CurLen

\* scribe_place_cursor would otherwise put the cursor on a row of another line.
CursorVisible == topLine <= curLine /\ curLine < topLine + TextRows

\* The line with the cursor is always in view, and no row ever shows what the editor drew
\* of an older text or for another row: each handler draws only the rows it thinks have
\* changed (scribe_render_current_line, scribe_render_from_line), and that must be enough
\* after every edit, in any mixture of own rows and rows of others.  Once the focus has
\* been seen, what others drew before is gone.
ScreenShowsText ==
  /\ CursorVisible
  /\ mode # "closed" =>
       \A row \in Rows :
         \/ screen[row] \in {Row(lines, topLine + row), Intruded}
         \/ screen[row] = Foreign /\ ~UpToDate

\* An editor with the focus has its screen to itself.
ScreenIsOwn ==
  (mode # "closed" /\ UpToDate)
    => \A row \in Rows : screen[row] = Row(lines, topLine + row)

WithoutCRs(ls) == [n \in DOMAIN ls |-> WithoutCR(ls[n])]

\* A text without the mark of a modification is the file's: opening the file again would
\* show the same lines.  q drops it without a question.  Only an empty line at the end,
\* and a carriage return at the end of a line (it came with the file, before the one that
\* scribe_load_from_text took away), do not survive a save and the next loading.
CleanTextIsInFile ==
  /\ file \in Seq(Symbols)
  /\ ~modified =>
       \/ lines = Load(file)
       \/ WithoutCRs(lines) \in {Load(file), Append(Load(file), <<>>)}

\* The characters of the text before the cursor.
Point == Len(Join(Append(SubSeq(lines, 1, curLine - 1), SubSeq(lines[curLine], 1, curCol))))

D == INSTANCE Document WITH
       text <- Join(lines), point <- Point, stored <- file,
       Typed <- {<<c>> : c \in Chars \cup {NL}} \cup {Tabbed}

\* Seen as one text with a point, each key inserts or erases just what it should, where
\* the point is, and everything else leaves the text alone; only a save changes the
\* file, and to just this text.
ImplementsDocument == D!Spec

\* Saving a text that nobody has changed leaves the lines of the file.
SavingKeepsLines ==
  [][(~modified /\ file' # file)
       => Cardinality(LineEnds(file')) = Cardinality(LineEnds(file))]_vars

\* Lines that were saved come back as they were.
SavedLinesReturn == ~modified => lines \in {Load(file), Append(Load(file), <<>>)}
=============================================================================
