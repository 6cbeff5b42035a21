------------------------------ MODULE Document ------------------------------
(***************************************************************************)
(* What a text editor promises: one text, a point in it where keys act,    *)
(* and a stored copy that changes only by storing the text.                *)
(* Nothing here knows of lines, of a screen or of modes; the editor of     *)
(* Scribe implements this.                                                 *)
(***************************************************************************)
EXTENDS Integers, SequencesExt

CONSTANTS
  Symbols,   \* what a text is made of
  Typed      \* what one key inserts

VARIABLES text, point, stored

vars == <<text, point, stored>>

Init ==
  /\ text \in Seq(Symbols)
  /\ point = 0
  /\ stored \in Seq(Symbols)

Insert(typed) ==
  /\ text' = SubSeq(text, 1, point) \o typed \o SubSeq(text, point + 1, Len(text))
  /\ point' = point + Len(typed)
  /\ UNCHANGED stored

EraseBefore ==
  /\ point > 0
  /\ text' = RemoveAt(text, point)
  /\ point' = point - 1
  /\ UNCHANGED stored

EraseAfter ==
  /\ point < Len(text)
  /\ text' = RemoveAt(text, point + 1)
  /\ UNCHANGED <<point, stored>>

Move ==
  /\ point' \in 0..Len(text)
  /\ UNCHANGED <<text, stored>>

Store ==
  /\ stored' = text
  /\ UNCHANGED <<text, point>>

Next == Move \/ Store \/ EraseBefore \/ EraseAfter \/ \E typed \in Typed : Insert(typed)

Spec == Init /\ [][Next]_vars
=============================================================================
