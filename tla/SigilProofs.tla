---------------------------- MODULE SigilProofs ----------------------------
(***************************************************************************)
(* Proofs about the rune editor, for every number of colours, every size   *)
(* of a new rune and all contents of the file.                             *)
(*                                                                         *)
(* Everything rests on the place of a pixel in its array: no two places    *)
(* share one (PixelsApart) and none is outside (PixelInArray).             *)
(***************************************************************************)
EXTENDS Sigil, SequenceTheorems, TLAPS

Bitmaps == [w : Nat \ {0}, h : Nat \ {0}, pixels : Seq(Colours)]
Files ==
  {f \in [there : BOOLEAN, rune : BOOLEAN, w : Nat, h : Nat, bytes : Seq(Nat)] : f.rune => f.there}

IsBitmap(b) == b \in Bitmaps /\ Len(b.pixels) = b.w * b.h
Places(b) == (0..b.w - 1) \X (0..b.h - 1)

TypeOK ==
  /\ mode \in {"closed", "edit", "view"}
  /\ IsBitmap(bmp) /\ x \in Nat /\ y \in Nat /\ colour \in Colours
  /\ modified \in BOOLEAN /\ file \in Files /\ changed \in BOOLEAN
  /\ focused \in BOOLEAN /\ event \in BOOLEAN

CursorInRune == x < bmp.w /\ y < bmp.h

\* Nothing is left of an editor that has closed.
NothingLeft ==
  /\ mode # "edit" => x = 0 /\ y = 0
  /\ mode = "closed" => bmp = New

\* What may be seen of others
Marks == {Intruded} \cup (IF UpToDate THEN {} ELSE {Foreign})

ScreenIsDrawn ==
  mode = "edit" =>
    /\ DOMAIN screen = Places(bmp)
    /\ \A place \in Places(bmp) : screen[place] \in {Draw(bmp, x, y)[place]} \cup Marks

Inv == TypeOK /\ CursorInRune /\ NothingLeft /\ ScreenIsDrawn /\ CleanRuneIsInFile

-----------------------------------------------------------------------------
\* Pixels.

LEMMA Multiples ==
  ASSUME NEW a \in Nat, NEW b \in Nat, NEW w \in Nat, a < b
  PROVE  a * w + w <= b * w
<1>1. PICK d \in Nat : b = a + 1 + d
  <2>1. b - a - 1 \in Nat
    OBVIOUS
  <2> QED BY <2>1
<1>2. d * w \in Nat
  OBVIOUS
<1>3. b * w = a * w + w + d * w
  BY <1>1
<1> QED BY <1>2, <1>3

LEMMA PixelInArray ==
  ASSUME NEW w \in Nat, NEW h \in Nat, NEW px \in 0..w - 1, NEW py \in 0..h - 1
  PROVE  py * w + px + 1 \in 1..w * h
<1>1. py * w + w <= h * w
  BY Multiples
<1>2. py * w \in Nat /\ h * w = w * h
  OBVIOUS
<1> QED BY <1>1, <1>2

LEMMA PixelsApart ==
  ASSUME NEW w \in Nat, NEW px \in 0..w - 1, NEW qx \in 0..w - 1,
         NEW py \in Nat, NEW qy \in Nat, py * w + px + 1 = qy * w + qx + 1
  PROVE  px = qx /\ py = qy
<1>1. py * w \in Nat /\ qy * w \in Nat
  OBVIOUS
<1>2. ~(py < qy)
  BY <1>1, Multiples
<1>3. ~(qy < py)
  BY <1>1, Multiples
<1> QED BY <1>1, <1>2, <1>3

-----------------------------------------------------------------------------
\* Bitmaps and files.

LEMMA ColoursAreBytes == Black \in Colours /\ White \in Colours /\ Colours \subseteq Nat
BY ColourCountAssumption DEF Colours, Black, White

LEMMA ColoursOfAreColours ==
  ASSUME NEW bytes \in Seq(Nat)
  PROVE  ColoursOf(bytes) \in Seq(Colours) /\ Len(ColoursOf(bytes)) = Len(bytes)
<1>1. \A i \in 1..Len(bytes) : ColourOf(bytes[i]) \in Colours
  BY ColoursAreBytes DEF ColourOf
<1>2. ColoursOf(bytes) = [i \in 1..Len(bytes) |-> ColourOf(bytes[i])]
  BY DEF ColoursOf
<1> QED BY <1>1, <1>2

LEMMA CreatedIsBitmap ==
  ASSUME NEW w \in Nat \ {0}, NEW h \in Nat \ {0}
  PROVE  IsBitmap(Created(w, h))
<1>1. w * h \in Nat
  OBVIOUS
<1>2. [i \in 1..w * h |-> Black] \in Seq(Colours) /\ Len([i \in 1..w * h |-> Black]) = w * h
  BY <1>1, ColoursAreBytes
<1> QED BY <1>2 DEF Created, IsBitmap, Bitmaps

LEMMA NewIsBitmap == IsBitmap(New)
BY CreatedIsBitmap, DefaultAssumption DEF New

LEMMA LoadedIsBitmap ==
  ASSUME NEW f \in Files, IsRune(f)
  PROVE  IsBitmap(Loaded(f))
<1>1. ColoursOf(f.bytes) \in Seq(Colours) /\ Len(ColoursOf(f.bytes)) = f.w * f.h
  BY ColoursOfAreColours DEF IsRune, Files
<1> QED BY <1>1 DEF IsRune, Loaded, IsBitmap, Bitmaps, Files

LEMMA BlackenedIsBitmap ==
  ASSUME NEW b, IsBitmap(b)
  PROVE  IsBitmap(Blackened(b)) /\ Blackened(b).w = b.w /\ Blackened(b).h = b.h
<1> DEFINE black == [i \in DOMAIN b.pixels |-> Black]
<1>1. black \in Seq(Colours) /\ Len(black) = Len(b.pixels)
  BY ColoursAreBytes DEF IsBitmap, Bitmaps
<1>2. Blackened(b) = [b EXCEPT !.pixels = black]
  BY DEF Blackened
<1> HIDE DEF black
<1> QED BY <1>1, <1>2 DEF IsBitmap, Bitmaps

LEMMA PaintedIsBitmap ==
  ASSUME NEW b, IsBitmap(b), NEW px \in 0..b.w - 1, NEW py \in 0..b.h - 1, NEW c \in Colours
  PROVE  IsBitmap(Painted(b, px, py, c)) /\ Painted(b, px, py, c).w = b.w
                                         /\ Painted(b, px, py, c).h = b.h
<1> DEFINE painted == [b.pixels EXCEPT ![Pixel(b, px, py)] = c]
<1>1. painted \in Seq(Colours) /\ Len(painted) = Len(b.pixels)
  <2>1. b.pixels \in Seq(Colours)
    BY DEF IsBitmap, Bitmaps
  <2>2. Pixel(b, px, py) \in 1..Len(b.pixels)
    BY PixelInArray DEF IsBitmap, Bitmaps, Pixel
  <2> QED BY <2>1, <2>2, ExceptSeq
<1>2. Painted(b, px, py, c) = [b EXCEPT !.pixels = painted]
  BY DEF Painted, IsBitmap, Bitmaps
<1> HIDE DEF painted
<1> QED BY <1>1, <1>2 DEF IsBitmap, Bitmaps

\* What is saved is loaded again as it was.
LEMMA SavedIsLoaded ==
  ASSUME NEW b, IsBitmap(b)
  PROVE  Saved(b) \in Files /\ IsRune(Saved(b)) /\ Loaded(Saved(b)) = b
<1> USE DEF IsBitmap, Bitmaps
<1>1. \A byte \in Colours : ColourOf(byte) = byte
  BY DEF ColourOf
<1>2. ColoursOf(b.pixels) = b.pixels
  <2>1. \A i \in 1..Len(b.pixels) : ColourOf(b.pixels[i]) = b.pixels[i]
    BY <1>1
  <2>2. ColoursOf(b.pixels) = [i \in 1..Len(b.pixels) |-> b.pixels[i]]
    BY <2>1 DEF ColoursOf
  <2> QED BY <2>2
<1>3. b.pixels \in Seq(Nat)
  BY ColoursAreBytes, SeqMonotonic
<1>4. Saved(b) = RuneFile(b.w, b.h, b.pixels)
  BY <1>2 DEF Saved
<1>5. Loaded(Saved(b)) = [w |-> b.w, h |-> b.h, pixels |-> b.pixels]
  BY <1>2, <1>4 DEF Loaded, RuneFile
<1>6. b = [w |-> b.w, h |-> b.h, pixels |-> b.pixels]
  OBVIOUS
<1> QED BY <1>3, <1>4, <1>5, <1>6 DEF Files, IsRune, RuneFile

LEMMA PictureOfPlaces ==
  ASSUME NEW b
  PROVE  /\ DOMAIN Picture(b) = Places(b)
         /\ \A place \in Places(b) : Picture(b)[place] = b.pixels[place[2] * b.w + place[1] + 1]
BY DEF Picture, Places

LEMMA PictureIsSome ==
  ASSUME NEW b, IsBitmap(b)
  PROVE  <<0, 0>> \in DOMAIN Picture(b) /\ Picture(b) # NoRune
<1>1. <<0, 0>> \in Places(b)
  BY DEF IsBitmap, Bitmaps, Places
<1>2. DOMAIN NoRune = {}
  BY DEF NoRune
<1> QED BY <1>1, <1>2, PictureOfPlaces

\* Painting a pixel paints the place and no other.
LEMMA PaintedPicture ==
  ASSUME NEW b, IsBitmap(b), NEW px \in 0..b.w - 1, NEW py \in 0..b.h - 1, NEW c
  PROVE  Picture(Painted(b, px, py, c)) = [Picture(b) EXCEPT ![<<px, py>>] = c]
<1> DEFINE p == Painted(b, px, py, c)
<1>1. p.w = b.w /\ p.h = b.h /\ p.pixels = [b.pixels EXCEPT ![Pixel(b, px, py)] = c]
  BY DEF Painted, IsBitmap, Bitmaps
<1>2. Picture(p) = [place \in Places(b) |-> p.pixels[place[2] * b.w + place[1] + 1]]
  BY <1>1 DEF Picture, Places
<1>3. ASSUME NEW qx \in 0..b.w - 1, NEW qy \in 0..b.h - 1
      PROVE  p.pixels[qy * b.w + qx + 1]
               = IF <<qx, qy>> = <<px, py>> THEN c ELSE b.pixels[qy * b.w + qx + 1]
  <2>1. b.w \in Nat /\ b.h \in Nat /\ DOMAIN b.pixels = 1..b.w * b.h
    BY DEF IsBitmap, Bitmaps
  <2>2. qy * b.w + qx + 1 \in DOMAIN b.pixels
    BY <2>1, PixelInArray
  <2>3. qy * b.w + qx + 1 = py * b.w + px + 1 => qx = px /\ qy = py
    <3>1. qy \in Nat /\ py \in Nat
      OBVIOUS
    <3> DEFINE w == b.w
    <3>2. w \in Nat /\ px \in 0..w - 1 /\ qx \in 0..w - 1
      BY <2>1
    <3> HIDE DEF w
    <3>3. qy * w + qx + 1 = py * w + px + 1 => qx = px /\ qy = py
      BY <3>1, <3>2, PixelsApart
    <3> QED BY <3>3 DEF w
  <2> QED BY <1>1, <2>2, <2>3 DEF Pixel
<1> HIDE DEF p
<1>4. ASSUME NEW place \in Places(b)
      PROVE  p.pixels[place[2] * b.w + place[1] + 1]
               = IF place = <<px, py>> THEN c ELSE b.pixels[place[2] * b.w + place[1] + 1]
  <2>1. PICK qx \in 0..b.w - 1, qy \in 0..b.h - 1 : place = <<qx, qy>>
    BY DEF Places
  <2>2. place[1] = qx /\ place[2] = qy
    BY <2>1
  <2> QED BY <1>3, <2>1, <2>2
<1>5. [Picture(b) EXCEPT ![<<px, py>>] = c]
        = [place \in Places(b) |-> IF place = <<px, py>> THEN c ELSE Picture(b)[place]]
  BY PictureOfPlaces
<1>6. \A place \in Places(b) : Picture(b)[place] = b.pixels[place[2] * b.w + place[1] + 1]
  BY PictureOfPlaces
<1> QED BY <1>2, <1>4, <1>5, <1>6 DEF p

LEMMA BlackenedPicture ==
  ASSUME NEW b, IsBitmap(b)
  PROVE  Picture(Blackened(b)) = [place \in DOMAIN Picture(b) |-> Black]
<1> DEFINE p == Blackened(b)
<1>1. p.w = b.w /\ p.h = b.h /\ p.pixels = [i \in 1..b.w * b.h |-> Black]
  BY DEF Blackened, IsBitmap, Bitmaps
<1>2. Picture(p) = [place \in Places(b) |-> p.pixels[place[2] * b.w + place[1] + 1]]
  BY <1>1 DEF Picture, Places
<1> HIDE DEF p
<1>3. \A qx \in 0..b.w - 1, qy \in 0..b.h - 1 : p.pixels[qy * b.w + qx + 1] = Black
  BY <1>1, PixelInArray DEF IsBitmap, Bitmaps
<1>4. \A place \in Places(b) : p.pixels[place[2] * b.w + place[1] + 1] = Black
  BY <1>3 DEF Places
<1> QED BY <1>2, <1>4, PictureOfPlaces DEF p

-----------------------------------------------------------------------------
\* The invariant.

LEMMA RenderDraws == Render => ScreenIsDrawn'
BY PictureOfPlaces DEF Render, Draw, DrawAt, ScreenIsDrawn, Places

LEMMA InitInv == Init => Inv
<1> SUFFICES ASSUME Init PROVE Inv
  OBVIOUS
<1> USE DEF Init
<1>1. TypeOK
  BY NewIsBitmap, ColoursAreBytes, ContentsAssumption DEF TypeOK, Files
<1>2. CursorInRune
  BY NewIsBitmap DEF CursorInRune, IsBitmap, Bitmaps
<1> QED BY <1>1, <1>2 DEF Inv, NothingLeft, ScreenIsDrawn, Taking, CleanRuneIsInFile

\* What a turn of the editor's loop leaves to be shown: everything but the screen, which
\* the turn draws.
LEMMA TurnInv ==
  ASSUME Inv, Taking, Turn,
         IsBitmap(bmp'), x' \in Nat, y' \in Nat, CursorInRune', colour' \in Colours,
         modified' \in BOOLEAN, file' \in Files, changed' \in BOOLEAN, CleanRuneIsInFile'
  PROVE  Inv'
<1>1. TypeOK'
  BY DEF Inv, TypeOK, Turn
<1>2. NothingLeft'
  BY DEF Taking, Turn, NothingLeft
<1>3. ScreenIsDrawn'
  BY RenderDraws DEF Turn
<1> QED BY <1>1, <1>2, <1>3 DEF Inv

\* While neither the rune nor its file changes, the rune stays clean.
LEMMA StaysClean ==
  ASSUME Inv, UNCHANGED <<mode, bmp, modified, fileVars>>
  PROVE  CleanRuneIsInFile'
BY DEF Inv, CleanRuneIsInFile, fileVars

LEMMA MoveInv == Inv /\ Move => Inv'
<1> SUFFICES ASSUME Inv, Move PROVE Inv'
  OBVIOUS
<1>1. CleanRuneIsInFile'
  BY StaysClean DEF Move, Turn
<1>2. x' \in Nat /\ y' \in Nat /\ CursorInRune'
  BY DEF Inv, TypeOK, CursorInRune, Move, IsBitmap, Bitmaps
<1> QED BY <1>1, <1>2, TurnInv DEF Inv, TypeOK, Move, fileVars

LEMMA ChooseColourInv == Inv /\ ChooseColour => Inv'
<1> SUFFICES ASSUME Inv, ChooseColour PROVE Inv'
  OBVIOUS
<1>1. CleanRuneIsInFile'
  BY StaysClean DEF ChooseColour, Turn
<1> QED BY <1>1, TurnInv DEF Inv, TypeOK, CursorInRune, ChooseColour, fileVars

LEMMA PaintInv == Inv /\ Paint => Inv'
<1> SUFFICES ASSUME Inv, Paint PROVE Inv'
  OBVIOUS
<1>1. /\ Inside(bmp, x, y) /\ x \in 0..bmp.w - 1 /\ y \in 0..bmp.h - 1
      /\ IsBitmap(bmp) /\ colour \in Colours
  BY DEF Inv, TypeOK, CursorInRune, Inside, IsBitmap, Bitmaps
<1>2. bmp' = Painted(bmp, x, y, colour) /\ modified'
  BY <1>1 DEF Paint
<1>3. IsBitmap(bmp') /\ bmp'.w = bmp.w /\ bmp'.h = bmp.h
  BY <1>1, <1>2, PaintedIsBitmap
<1>4. CleanRuneIsInFile'
  BY <1>2 DEF CleanRuneIsInFile
<1> QED BY <1>2, <1>3, <1>4, TurnInv DEF Inv, TypeOK, CursorInRune, Paint, fileVars

LEMMA ClearInv == Inv /\ Clear => Inv'
<1> SUFFICES ASSUME Inv, Clear PROVE Inv'
  OBVIOUS
<1>1. IsBitmap(bmp') /\ bmp'.w = bmp.w /\ bmp'.h = bmp.h
  BY BlackenedIsBitmap DEF Inv, TypeOK, Clear
<1>2. CleanRuneIsInFile'
  BY DEF Clear, CleanRuneIsInFile
<1> QED BY <1>1, <1>2, TurnInv DEF Inv, TypeOK, CursorInRune, Clear, fileVars

LEMMA FabbedIsFile == Fabbed \in Files /\ ~IsRune(Fabbed)
<1>1. <<>> \in Seq(Nat)
  OBVIOUS
<1> QED BY <1>1 DEF Fabbed, Files, IsRune

\* A save writes the rune, or leaves the file or makes an empty one where there was none.
LEMMA SavingTypes ==
  ASSUME Inv, SaveWorks \/ SaveFails
  PROVE  file' \in Files /\ changed' \in BOOLEAN
BY SavedIsLoaded, FabbedIsFile DEF Inv, TypeOK, SaveWorks, SaveFails

\* A failed save touches no file that is there, and what is clean is there.
LEMMA FailedSaveStaysClean ==
  ASSUME Inv, mode = "edit", SaveFails, UNCHANGED <<bmp, modified>>
  PROVE  CleanRuneIsInFile'
<1> SUFFICES ASSUME ~modified', ~changed' PROVE IsRune(file') /\ Loaded(file') = bmp'
  BY DEF CleanRuneIsInFile
<1>1. IsRune(file) /\ Loaded(file) = bmp /\ file \in Files
  BY DEF Inv, TypeOK, CleanRuneIsInFile, SaveFails
<1>2. file' = file
  BY <1>1 DEF IsRune, Files, SaveFails
<1> QED BY <1>1, <1>2

LEMMA WriteInv == Inv /\ Write => Inv'
<1> SUFFICES ASSUME Inv, Write PROVE Inv'
  OBVIOUS
<1>1. UNCHANGED <<mode, bmp, x, y, colour>> /\ Taking /\ Turn
  BY DEF Write, Turn
<1>2. file' \in Files /\ changed' \in BOOLEAN
  BY SavingTypes DEF Write
<1>3. CASE SaveWorks /\ modified' = FALSE
  <2>1. CleanRuneIsInFile'
    BY <1>1, <1>3, SavedIsLoaded DEF Inv, TypeOK, SaveWorks, CleanRuneIsInFile
  <2> QED BY <1>1, <1>2, <1>3, <2>1, TurnInv DEF Inv, TypeOK, CursorInRune
<1>4. CASE SaveFails /\ UNCHANGED modified
  <2>1. CleanRuneIsInFile'
    BY <1>1, <1>4, FailedSaveStaysClean DEF Taking
  <2> QED BY <1>1, <1>2, <1>4, <2>1, TurnInv DEF Inv, TypeOK, CursorInRune
<1> QED BY <1>3, <1>4 DEF Write

LEMMA CloseInv ==
  ASSUME Inv, Close, file' \in Files, changed' \in BOOLEAN
  PROVE  Inv'
<1>1. TypeOK'
  BY NewIsBitmap, ColoursAreBytes DEF Inv, TypeOK, Close
<1>2. CursorInRune'
  BY NewIsBitmap DEF Close, CursorInRune, IsBitmap, Bitmaps
<1> QED BY <1>1, <1>2
        DEF Inv, Close, NothingLeft, ScreenIsDrawn, Taking, CleanRuneIsInFile, New, Created

LEMMA QuitInv == Inv /\ (Quit \/ ViewEnds) => Inv'
BY CloseInv DEF Inv, TypeOK, Quit, ViewEnds, fileVars

LEMMA WriteAndQuitInv == Inv /\ WriteAndQuit => Inv'
<1> SUFFICES ASSUME Inv, WriteAndQuit PROVE Inv'
  OBVIOUS
<1>1. file' \in Files /\ changed' \in BOOLEAN
  BY SavingTypes DEF WriteAndQuit
<1>2. CASE SaveWorks /\ Close
  BY <1>1, <1>2, CloseInv
<1>3. CASE SaveFails /\ UNCHANGED <<bmp, x, y, colour, modified>> /\ Turn
  <2>1. CleanRuneIsInFile'
    BY <1>3, FailedSaveStaysClean DEF WriteAndQuit, Taking
  <2> QED BY <1>1, <1>3, <2>1, TurnInv DEF Inv, TypeOK, CursorInRune, WriteAndQuit
<1> QED BY <1>2, <1>3 DEF WriteAndQuit

LEMMA OpenInv == Inv /\ Open => Inv'
<1> SUFFICES ASSUME Inv, Open PROVE Inv'
  OBVIOUS
<1>1. IsBitmap(bmp')
  BY LoadedIsBitmap, NewIsBitmap DEF Inv, TypeOK, Open
<1>2. TypeOK'
  BY <1>1, ColoursAreBytes DEF Inv, TypeOK, Open
<1>3. CursorInRune'
  BY <1>1 DEF Open, CursorInRune, IsBitmap, Bitmaps
<1>4. NothingLeft' /\ ScreenIsDrawn'
  BY RenderDraws DEF Open, NothingLeft
<1>5. CleanRuneIsInFile'
  BY DEF Open, CleanRuneIsInFile
<1> QED BY <1>2, <1>3, <1>4, <1>5 DEF Inv

LEMMA ViewInv == Inv /\ View => Inv'
<1> SUFFICES ASSUME Inv, View PROVE Inv'
  OBVIOUS
<1>1. IsBitmap(bmp')
  BY LoadedIsBitmap DEF Inv, TypeOK, View
<1>2. x' = 0 /\ y' = 0
  BY DEF Inv, NothingLeft, View
<1>3. TypeOK' /\ CursorInRune'
  BY <1>1, <1>2 DEF Inv, TypeOK, CursorInRune, View, fileVars, IsBitmap, Bitmaps
<1>4. NothingLeft' /\ ScreenIsDrawn' /\ CleanRuneIsInFile'
  BY <1>2 DEF View, NothingLeft, ScreenIsDrawn, Taking, CleanRuneIsInFile
<1> QED BY <1>3, <1>4 DEF Inv

\* Whoever has the focus, nothing of the editor changes but what is seen of it.
LEMMA OthersInv ==
  Inv /\ (OthersDraw \/ FocusLeaves \/ FocusReturns \/ SeeFocus \/ OthersWrite) => Inv'
<1> SUFFICES ASSUME Inv, OthersDraw \/ FocusLeaves \/ FocusReturns \/ SeeFocus \/ OthersWrite
             PROVE  Inv'
  OBVIOUS
<1>1. UNCHANGED <<mode, bmp, x, y, colour, modified>>
  BY DEF OthersDraw, FocusLeaves, FocusReturns, SeeFocus, OthersWrite
<1>2. TypeOK'
  BY <1>1, ContentsAssumption
     DEF Inv, TypeOK, OthersDraw, FocusLeaves, FocusReturns, SeeFocus, OthersWrite, fileVars, Files
<1>3. CursorInRune' /\ NothingLeft'
  BY <1>1 DEF Inv, CursorInRune, NothingLeft
<1>4. ScreenIsDrawn'
  <2>1. CASE OthersDraw
    <3>1. DOMAIN screen' = DOMAIN screen
      BY <2>1 DEF OthersDraw
    <3>2. \A place \in DOMAIN screen : screen'[place] \in {screen[place]} \cup Marks
      BY <2>1 DEF OthersDraw, Marks
    <3>3. Marks' = Marks
      BY <2>1 DEF OthersDraw, Marks, UpToDate, Foreign, Intruded
    <3>4. Draw(bmp, x, y)' = Draw(bmp, x, y) /\ Places(bmp)' = Places(bmp)
      BY <1>1
    <3> QED BY <1>1, <3>1, <3>2, <3>3, <3>4 DEF Inv, ScreenIsDrawn
  <2>2. CASE FocusLeaves \/ FocusReturns \/ OthersWrite
    <3>1. UNCHANGED screen /\ Marks \subseteq Marks'
      BY <2>2 DEF FocusLeaves, FocusReturns, OthersWrite, Marks, UpToDate, Foreign, Intruded
    <3>2. Draw(bmp, x, y)' = Draw(bmp, x, y) /\ Places(bmp)' = Places(bmp)
      BY <1>1
    <3> QED BY <1>1, <3>1, <3>2 DEF Inv, ScreenIsDrawn
  <2>3. CASE SeeFocus
    BY <1>1, <2>3, RenderDraws DEF SeeFocus, ScreenIsDrawn
  <2> QED BY <2>1, <2>2, <2>3
<1>5. CleanRuneIsInFile'
  BY <1>1
     DEF Inv, CleanRuneIsInFile, OthersDraw, FocusLeaves, FocusReturns, SeeFocus, OthersWrite,
         fileVars
<1> QED BY <1>2, <1>3, <1>4, <1>5 DEF Inv

LEMMA NextInv == Inv /\ [Next]_vars => Inv'
<1> SUFFICES ASSUME Inv, [Next]_vars PROVE Inv'
  OBVIOUS
<1>1. CASE UNCHANGED vars
  <2>1. UNCHANGED <<mode, bmp, x, y, screen>> /\ Marks' = Marks
    BY <1>1 DEF vars, Marks, UpToDate, Foreign, Intruded
  <2>2. ScreenIsDrawn'
    BY <2>1 DEF Inv, ScreenIsDrawn
  <2> QED BY <1>1, <2>2
          DEF Inv, TypeOK, CursorInRune, NothingLeft, CleanRuneIsInFile, vars, fileVars
<1> QED BY <1>1, OpenInv, MoveInv, ChooseColourInv, PaintInv, ClearInv, WriteInv,
           WriteAndQuitInv, QuitInv, ViewInv, OthersInv DEF Next

LEMMA InvHolds == Spec => []Inv
BY InitInv, NextInv, PTL DEF Spec

-----------------------------------------------------------------------------
\* The properties.

\* A picture that is not marked as modified is in the file, unless others have written to
\* it, whatever was painted, saved or failed to be saved before.
THEOREM CleanRuneKept == Spec => []CleanRuneIsInFile
BY InvHolds, PTL DEF Inv

LEMMA InvShowsRune == Inv => ScreenShowsRune
<1> SUFFICES ASSUME Inv, mode = "edit" PROVE ScreenShowsRune
  BY DEF ScreenShowsRune
<1>1. Inside(bmp, x, y)
  BY DEF Inv, CursorInRune, Inside
<1>2. ASSUME NEW px \in 0..bmp.w - 1, NEW py \in 0..bmp.h - 1
      PROVE  LET shown == screen[<<px, py>>]
             IN  \/ shown = IF <<px, py>> = <<x, y>> THEN Cursor
                            ELSE bmp.pixels[Pixel(bmp, px, py)]
                 \/ shown = Intruded
                 \/ shown = Foreign /\ ~UpToDate
  <2> DEFINE place == <<px, py>>
  <2>1. place \in Places(bmp) /\ place[1] = px /\ place[2] = py
    BY DEF Places
  <2>2. screen[place] \in {Draw(bmp, x, y)[place]} \cup Marks
    BY <2>1 DEF Inv, ScreenIsDrawn
  <2>3. Draw(bmp, x, y)[place] = IF place = <<x, y>> THEN Cursor ELSE Picture(bmp)[place]
    BY <2>1, PictureOfPlaces DEF Draw, DrawAt
  <2>4. Picture(bmp)[place] = bmp.pixels[Pixel(bmp, px, py)]
    BY <2>1, PictureOfPlaces DEF Pixel
  <2> QED BY <2>2, <2>3, <2>4 DEF Marks
<1> QED BY <1>1, <1>2 DEF ScreenShowsRune

\* Whoever draws on the screen in between: in the editor the cursor is in the picture and
\* each place shows the pixel rune_set_pixel put there, the cursor, or what others drew;
\* once the focus was seen, only what others have drawn since.  Nothing of the kind is
\* claimed of the viewer (ViewShowsRune).
THEOREM ScreenKept == Spec => []ScreenShowsRune
BY InvHolds, InvShowsRune, PTL

-----------------------------------------------------------------------------
\* The refinement.

LEMMA InitCanvas == Init => C!Init
<1> SUFFICES ASSUME Init PROVE C!Init
  OBVIOUS
<1> QED BY DEF Init, C!Init, C!Origin

LEMMA OpenCanvas == Inv /\ Open => C!Open
<1> SUFFICES ASSUME Inv, Open PROVE C!Open
  OBVIOUS
<1>1. mode = "closed" /\ mode' = "edit" /\ x' = 0 /\ y' = 0 /\ UNCHANGED file
  BY DEF Open
<1>2. IsBitmap(bmp')
  BY LoadedIsBitmap, NewIsBitmap DEF Inv, TypeOK, Open
<1>3. Picture(bmp') \in {PictureIn(file), Picture(New)} \ {NoRune}
  BY <1>2, PictureIsSome DEF Open, PictureIn
<1> QED BY <1>1, <1>3 DEF C!Open, C!Origin

LEMMA MoveCanvas == Inv /\ Move => C!Move \/ UNCHANGED C!vars
<1> SUFFICES ASSUME Inv, Move PROVE C!Move \/ UNCHANGED C!vars
  OBVIOUS
<1>1. mode = "edit" /\ UNCHANGED <<mode, bmp, file>>
  BY DEF Move, Taking, Turn, fileVars
<1>2. CASE x' = x /\ y' = y
  BY <1>1, <1>2 DEF C!vars
<1>3. CASE ~(x' = x /\ y' = y)
  <2>1. /\ x \in Nat /\ y \in Nat /\ x < bmp.w /\ y < bmp.h
        /\ bmp.w \in Nat /\ bmp.h \in Nat
    BY DEF Inv, TypeOK, CursorInRune, IsBitmap, Bitmaps
  <2>2. /\ x' \in 0..bmp.w - 1 /\ y' \in 0..bmp.h - 1
        /\ \/ x' = x /\ y' - y \in {-1, 1}
           \/ y' = y /\ x' - x \in {-1, 1}
    BY <1>3, <2>1 DEF Move
  <2>3. <<x', y'>> \in DOMAIN Picture(bmp)
    BY <2>2, PictureOfPlaces DEF Places
  <2>4. C!Near(<<x', y'>>, <<x, y>>)
    BY <2>2 DEF C!Near
  <2> QED BY <1>1, <2>3, <2>4 DEF C!Move
<1> QED BY <1>2, <1>3

LEMMA PaintCanvas == Inv /\ Paint => C!Paint
<1> SUFFICES ASSUME Inv, Paint PROVE C!Paint
  OBVIOUS
<1>1. mode = "edit" /\ UNCHANGED <<mode, x, y, file>>
  BY DEF Paint, Taking, Turn, fileVars
<1>2. /\ Inside(bmp, x, y) /\ x \in 0..bmp.w - 1 /\ y \in 0..bmp.h - 1
      /\ IsBitmap(bmp) /\ colour \in Colours
  BY DEF Inv, TypeOK, CursorInRune, Inside, IsBitmap, Bitmaps
<1>3. Picture(bmp') = [Picture(bmp) EXCEPT ![<<x, y>>] = colour]
  BY <1>2, PaintedPicture DEF Paint
<1> QED BY <1>1, <1>2, <1>3 DEF C!Paint

LEMMA ClearCanvas == Inv /\ Clear => C!Clear
<1> SUFFICES ASSUME Inv, Clear PROVE C!Clear
  OBVIOUS
<1>1. mode = "edit" /\ UNCHANGED <<mode, x, y, file>>
  BY DEF Clear, Taking, Turn, fileVars
<1>2. Picture(bmp') = [place \in DOMAIN Picture(bmp) |-> Black]
  BY BlackenedPicture DEF Inv, TypeOK, Clear
<1> QED BY <1>1, <1>2 DEF C!Clear

\* What a save stores is the picture.
LEMMA StoredPicture ==
  ASSUME Inv, SaveWorks
  PROVE  PictureIn(file') = Picture(bmp)
BY SavedIsLoaded DEF Inv, TypeOK, SaveWorks, PictureIn

\* A save that fails stores nothing, or is taken for what others do.
LEMMA FailedSaveCanvas ==
  ASSUME SaveFails, UNCHANGED <<mode, bmp, x, y>>
  PROVE  C!OthersStore \/ UNCHANGED C!vars
<1>1. CASE file' = file
  BY <1>1 DEF C!vars
<1>2. CASE file' = Fabbed
  BY <1>2 DEF C!OthersStore
<1> QED BY <1>1, <1>2 DEF SaveFails

LEMMA WriteCanvas == Inv /\ Write => C!Store \/ C!OthersStore \/ UNCHANGED C!vars
<1> SUFFICES ASSUME Inv, Write PROVE C!Store \/ C!OthersStore \/ UNCHANGED C!vars
  OBVIOUS
<1>1. mode = "edit" /\ UNCHANGED <<mode, bmp, x, y>>
  BY DEF Write, Taking, Turn
<1>2. CASE SaveWorks
  BY <1>1, <1>2, StoredPicture DEF C!Store
<1>3. CASE SaveFails
  BY <1>1, <1>3, FailedSaveCanvas
<1> QED BY <1>2, <1>3 DEF Write

LEMMA WriteAndQuitCanvas == Inv /\ WriteAndQuit => C!Close \/ C!OthersStore \/ UNCHANGED C!vars
<1> SUFFICES ASSUME Inv, WriteAndQuit PROVE C!Close \/ C!OthersStore \/ UNCHANGED C!vars
  OBVIOUS
<1>1. mode = "edit"
  BY DEF WriteAndQuit, Taking
<1>2. CASE SaveWorks /\ Close
  BY <1>1, <1>2, StoredPicture DEF Close, C!Close, C!Origin
<1>3. CASE SaveFails /\ UNCHANGED <<bmp, x, y, colour, modified>> /\ Turn
  BY <1>3, FailedSaveCanvas DEF Turn
<1> QED BY <1>2, <1>3 DEF WriteAndQuit

LEMMA QuitCanvas == Quit => C!Close
BY DEF Quit, Taking, Close, fileVars, C!Close, C!Origin

LEMMA ViewCanvas == Inv /\ (View \/ ViewEnds) => UNCHANGED C!vars
<1> SUFFICES ASSUME Inv, View \/ ViewEnds PROVE UNCHANGED C!vars
  OBVIOUS
<1>1. CASE View
  BY <1>1 DEF Inv, NothingLeft, View, fileVars, C!vars
<1>2. CASE ViewEnds
  BY <1>2 DEF Inv, NothingLeft, ViewEnds, Close, fileVars, C!vars
<1> QED BY <1>1, <1>2

LEMMA OthersCanvas == OthersWrite => C!OthersStore
BY DEF OthersWrite, C!OthersStore

LEMMA QuietCanvas ==
  ChooseColour \/ OthersDraw \/ FocusLeaves \/ FocusReturns \/ SeeFocus \/ UNCHANGED vars
    => UNCHANGED C!vars
BY DEF ChooseColour, Turn, OthersDraw, FocusLeaves, FocusReturns, SeeFocus, vars, fileVars, C!vars

LEMMA NextCanvas == Inv /\ [Next]_vars => [C!Next]_C!vars
BY OpenCanvas, MoveCanvas, PaintCanvas, ClearCanvas, WriteCanvas, WriteAndQuitCanvas,
   QuitCanvas, ViewCanvas, OthersCanvas, QuietCanvas DEF Next, C!Next

\* The editor is a canvas: the array of pixels behaves as a picture of places, whatever its
\* sizes, and what is opened is what was stored.
THEOREM SigilImplementsCanvas == Spec => ImplementsCanvas
BY InvHolds, InitCanvas, NextCanvas, PTL DEF Spec, C!Spec, ImplementsCanvas

=============================================================================
