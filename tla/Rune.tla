-------------------------------- MODULE Rune --------------------------------
(***************************************************************************)
(* The bitmaps of OS/src/ui/rune.c and the files that hold them.           *)
(*                                                                         *)
(* A bitmap is a record with its pixels row by row, as in the code.  Of a  *)
(* file only what rune_load looks at is kept: whether the header is that   *)
(* of a rune, the two sizes in it, and the bytes behind it.                *)
(***************************************************************************)
EXTENDS Integers, SequencesExt

CONSTANT ColourCount    \* RUNE_COLOR_COUNT

ASSUME ColourCountAssumption == ColourCount \in Nat /\ ColourCount > 1

Black == 0
White == 1
Colours == 0..ColourCount - 1

\* Definitions named Bug... are mistakes that the properties must notice, not part of
\* the model.

\* rune_create, whose pixels are black
Created(w, h) == [w |-> w, h |-> h, pixels |-> [i \in 1..w * h |-> Black]]

\* rune_clear
Blackened(bmp) == [bmp EXCEPT !.pixels = [i \in DOMAIN bmp.pixels |-> Black]]

\* Rows are taken to be as long as columns.
BugPixel(bmp, x, y) == y * bmp.h + x + 1

\* y * width + x; sequences begin with 1
Pixel(bmp, x, y) == y * bmp.w + x + 1

Inside(bmp, x, y) == x < bmp.w /\ y < bmp.h

\* rune_set_pixel, when it answers 1
Painted(bmp, x, y, colour) == [bmp EXCEPT !.pixels[Pixel(bmp, x, y)] = colour]

\* The pixels are read column by column.
BugPicture(bmp) ==
  [place \in (0..bmp.w - 1) \X (0..bmp.h - 1) |-> bmp.pixels[place[1] * bmp.h + place[2] + 1]]

\* rune_get_pixel, for each place
Picture(bmp) ==
  [place \in (0..bmp.w - 1) \X (0..bmp.h - 1) |-> bmp.pixels[place[2] * bmp.w + place[1] + 1]]

-----------------------------------------------------------------------------
\* Files.

Absent == [there |-> FALSE, rune |-> FALSE, w |-> 0, h |-> 0, bytes |-> <<>>]
Fabbed == [there |-> TRUE, rune |-> FALSE, w |-> 0, h |-> 0, bytes |-> <<>>]   \* vfs_fab
RuneFile(w, h, bytes) == [there |-> TRUE, rune |-> TRUE, w |-> w, h |-> h, bytes |-> bytes]

\* What rune_load accepts
IsRune(file) == file.rune /\ file.w > 0 /\ file.h > 0 /\ Len(file.bytes) = file.w * file.h

\* A byte that is no colour is black, when it is loaded and when it is saved.
ColourOf(byte) == IF byte \in Colours THEN byte ELSE Black
ColoursOf(bytes) == [i \in DOMAIN bytes |-> ColourOf(bytes[i])]

\* rune_load
Loaded(file) == [w |-> file.w, h |-> file.h, pixels |-> ColoursOf(file.bytes)]

\* rune_save
Saved(bmp) == RuneFile(bmp.w, bmp.h, ColoursOf(bmp.pixels))

=============================================================================
