-------------------------------- MODULE Sigil --------------------------------
(***************************************************************************)
(* The rune editor of OS/src/kernel/sigildraw.c and the viewer of          *)
(* OS/src/kernel/glyph.c, on the bitmaps of Rune and what                  *)
(* OS/src/ui/glyphforge.c draws of them.                                   *)
(*                                                                         *)
(* An action is one turn of the editor's loop.  Other tasks - the shell    *)
(* running a script, golems, applications - change the file and draw on    *)
(* the screen at any time, whoever has the focus.  Of the screen the       *)
(* places of the bitmap are kept; that it is wide and high enough for them *)
(* is assumed, since the editor makes runes of 8 by 8.                     *)
(***************************************************************************)
EXTENDS Rune

CONSTANTS
  DefaultW, DefaultH,   \* SIGILDRAW_DEFAULT_W, SIGILDRAW_DEFAULT_H
  Contents              \* what others leave in the file

ASSUME DefaultAssumption == DefaultW \in Nat \ {0} /\ DefaultH \in Nat \ {0}
ASSUME ContentsAssumption ==
  /\ Contents \subseteq [there : BOOLEAN, rune : BOOLEAN, w : Nat, h : Nat, bytes : Seq(Nat)]
  /\ \A contents \in Contents : contents.rune => contents.there

VARIABLES
  mode,        \* "closed", "edit" or "view"
  bmp, x, y,   \* ed.bmp, ed.cur_x, ed.cur_y
  colour,      \* ed.cur_color
  modified,    \* ed.modified
  file,        \* what the file system has under ed.filename
  changed,     \* others have changed it since it was loaded or saved; not in the code
  screen,      \* what is drawn at the places of the bitmap
  focused, event

fileVars == <<file, changed>>
vars == <<mode, bmp, x, y, colour, modified, fileVars, screen, focused, event>>

New == Created(DefaultW, DefaultH)

Cursor == -1                                      \* 'X'
NoRune == [place \in {} |-> Black]                \* nothing is drawn of a bitmap

\* A place that another task has written, cleared or scrolled: while this task was not up
\* to date with the focus, or when it was
Foreign == -2
Intruded == -3

\* glyphforge_draw_at, glyphforge_draw_cursor_at and sigildraw_render
DrawAt(b) == Picture(b)
Draw(b, cx, cy) == [DrawAt(b) EXCEPT ![<<cx, cy>>] = Cursor]
Render == screen' = Draw(bmp', x', y')

-----------------------------------------------------------------------------
\* A rune that cannot be read, for whatever reason, is opened as a new one.  An application
\* opens, and a script views, without asking for the focus.
Open ==
  /\ mode = "closed"
  /\ \/ IsRune(file) /\ bmp' = Loaded(file) /\ modified' = FALSE
     \/ bmp' = New /\ modified' = TRUE
  /\ mode' = "edit" /\ x' = 0 /\ y' = 0 /\ colour' = White
  /\ changed' = FALSE
  /\ Render
  /\ UNCHANGED <<file, focused, event>>

\* This task has the focus and has seen it.
UpToDate == focused /\ ~event

\* The loop after a key: everything is drawn again.
Taking == mode = "edit" /\ UpToDate
Turn == Render /\ UNCHANGED <<mode, focused, event>>

Move ==
  /\ Taking
  /\ \/ x' = (IF x > 0 THEN x - 1 ELSE x) /\ UNCHANGED y
     \/ x' = (IF x + 1 < bmp.w THEN x + 1 ELSE x) /\ UNCHANGED y
     \/ y' = (IF y > 0 THEN y - 1 ELSE y) /\ UNCHANGED x
     \/ y' = (IF y + 1 < bmp.h THEN y + 1 ELSE y) /\ UNCHANGED x
  /\ UNCHANGED <<bmp, colour, modified, fileVars>>
  /\ Turn

ChooseColour ==
  /\ Taking
  /\ colour' \in Colours
  /\ UNCHANGED <<bmp, x, y, modified, fileVars>>
  /\ Turn

Paint ==
  /\ Taking
  /\ IF Inside(bmp, x, y)
     THEN bmp' = Painted(bmp, x, y, colour) /\ modified' = TRUE
     ELSE UNCHANGED <<bmp, modified>>
  /\ UNCHANGED <<x, y, colour, fileVars>>
  /\ Turn

\* An empty picture is nothing to be saved.
BugClear ==
  /\ Taking
  /\ bmp' = Blackened(bmp)
  /\ UNCHANGED <<x, y, colour, modified, fileVars>>
  /\ Turn

Clear ==
  /\ Taking
  /\ bmp' = Blackened(bmp) /\ modified' = TRUE
  /\ UNCHANGED <<x, y, colour, fileVars>>
  /\ Turn

SaveWorks == file' = Saved(bmp) /\ changed' = FALSE

\* There is no memory, the file cannot be made, or it can be made but not written.
SaveFails ==
  /\ file' \in {file, IF file.there THEN file ELSE Fabbed}
  /\ UNCHANGED changed

Write ==
  /\ Taking
  /\ \/ SaveWorks /\ modified' = FALSE
     \/ SaveFails /\ UNCHANGED modified
  /\ UNCHANGED <<bmp, x, y, colour>>
  /\ Turn

\* The screen is cleared and the bitmap freed; nothing is left of the editor's variables.
Close ==
  /\ mode' = "closed" /\ screen' = NoRune
  /\ bmp' = New /\ x' = 0 /\ y' = 0 /\ colour' = White /\ modified' = FALSE
  /\ UNCHANGED <<focused, event>>

WriteAndQuit ==
  /\ Taking
  /\ \/ SaveWorks /\ Close
     \/ SaveFails /\ UNCHANGED <<bmp, x, y, colour, modified>> /\ Turn

Quit == Taking /\ Close /\ UNCHANGED fileVars

-----------------------------------------------------------------------------
\* glyph_view, in the task of the shell
View ==
  /\ mode = "closed"
  /\ IsRune(file)
  /\ mode' = "view" /\ bmp' = Loaded(file)
  /\ screen' = DrawAt(bmp')
  /\ UNCHANGED <<x, y, colour, modified, fileVars, focused, event>>

\* Any key ends the view; the focus event is left to the shell.
ViewEnds ==
  /\ mode = "view" /\ focused
  /\ Close
  /\ UNCHANGED fileVars

-----------------------------------------------------------------------------
\* The shell and other applications.

\* Output, and the first drawing of an application, ask for no focus.  All places are
\* touched: one that is not shows what it would without this step, as each drawing of the
\* editor is of all places and none looks at the screen.
OthersDraw ==
  /\ mode # "closed"
  /\ screen' = [place \in DOMAIN screen |-> IF UpToDate THEN Intruded ELSE Foreign]
  /\ UNCHANGED <<mode, bmp, x, y, colour, modified, fileVars, focused, event>>

FocusLeaves ==
  /\ focused
  /\ focused' = FALSE
  /\ UNCHANGED <<mode, bmp, x, y, colour, modified, fileVars, screen, event>>

FocusReturns ==
  /\ ~focused
  /\ focused' = TRUE /\ event' = TRUE
  /\ UNCHANGED <<mode, bmp, x, y, colour, modified, fileVars, screen>>

\* The event is taken, but nothing drawn.
BugSeeFocus ==
  /\ focused /\ event /\ mode # "view"
  /\ event' = FALSE
  /\ UNCHANGED <<mode, bmp, x, y, colour, modified, fileVars, focused, screen>>

\* The editor draws its canvas again; after it has closed, the shell its own screen.
SeeFocus ==
  /\ focused /\ event /\ mode # "view"
  /\ event' = FALSE
  /\ UNCHANGED <<mode, bmp, x, y, colour, modified, fileVars, focused>>
  /\ IF mode = "edit" THEN Render ELSE UNCHANGED screen

OthersWrite ==
  /\ file' \in Contents /\ changed' = TRUE
  /\ UNCHANGED <<mode, bmp, x, y, colour, modified, screen, focused, event>>

Init ==
  /\ mode = "closed" /\ bmp = New /\ x = 0 /\ y = 0 /\ colour = White
  /\ modified = FALSE
  /\ file \in Contents /\ changed = FALSE
  /\ screen = NoRune
  /\ focused = TRUE /\ event = FALSE

Next ==
  \/ Open \/ Move \/ ChooseColour \/ Paint \/ Clear \/ Write \/ WriteAndQuit \/ Quit
  \/ View \/ ViewEnds
  \/ OthersDraw \/ FocusLeaves \/ FocusReturns \/ SeeFocus \/ OthersWrite

Spec == Init /\ [][Next]_vars

-----------------------------------------------------------------------------
\* The cursor is in the picture, and each place of the screen shows the pixel that
\* rune_set_pixel puts there, or the cursor, or what others have drawn over it: reading by
\* rows and columns and writing by an index agree (rune_get_pixel, glyphforge_draw_at).
\* Once the focus has been seen, what others drew before is gone.
ScreenShowsRune ==
  mode = "edit" =>
    /\ Inside(bmp, x, y)
    /\ \A px \in 0..bmp.w - 1, py \in 0..bmp.h - 1 :
         LET shown == screen[<<px, py>>]
         IN  \/ shown = IF <<px, py>> = <<x, y>> THEN Cursor ELSE bmp.pixels[Pixel(bmp, px, py)]
             \/ shown = Intruded
             \/ shown = Foreign /\ ~UpToDate

\* A picture that is not marked as modified is the one in the file, unless others have
\* written to it: quitting, which asks nothing, loses nothing then; whatever failed to be
\* saved stays marked (sigildraw_save, rune_save).
CleanRuneIsInFile ==
  mode = "edit" /\ ~modified /\ ~changed => IsRune(file) /\ Loaded(file) = bmp

PictureIn(contents) == IF IsRune(contents) THEN Picture(Loaded(contents)) ELSE NoRune

C == INSTANCE Canvas WITH
  NoPicture  <- NoRune,
  NewPicture <- Picture(New),
  Others     <- {PictureIn(contents) : contents \in Contents \cup {Fabbed}},
  open       <- mode = "edit",
  picture    <- IF mode = "view" THEN Picture(New) ELSE Picture(bmp),
  point      <- <<x, y>>,
  stored     <- PictureIn(file)

\* The array of pixels behaves as a picture, and comes back from the file as it was
\* stored (sigildraw_open, rune_set_pixel, rune_save, rune_load).
ImplementsCanvas == C!Spec

-----------------------------------------------------------------------------
\* sigildraw_open takes whatever it cannot read for a "New 8x8 rune.".
OnlyReadRunesAreReplaced ==
  [][Taking /\ file.there /\ file' # file => IsRune(file)]_vars

\* "glyph: press any key to return"
ViewShowsRune ==
  mode = "view" /\ focused =>
    \A place \in DOMAIN screen : screen[place] \in {Picture(bmp)[place], Intruded}

=============================================================================
