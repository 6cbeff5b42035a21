------------------------------- MODULE Canvas -------------------------------
(***************************************************************************)
(* What a rune editor promises: a picture of coloured places with a point  *)
(* that moves from place to place, opened from a file and stored in it.    *)
(***************************************************************************)
EXTENDS Integers

CONSTANTS
  Colours, Black,
  NoPicture,
  NewPicture,       \* what is opened where there is no picture
  Others            \* what others leave in the file

VARIABLES open, picture, point, stored

vars == <<open, picture, point, stored>>

Origin == <<0, 0>>

Init == ~open /\ picture = NewPicture /\ point = Origin /\ stored \in Others

\* A picture that cannot be read is taken for none.
Open ==
  /\ ~open /\ open'
  /\ picture' \in {stored, NewPicture} \ {NoPicture} /\ point' = Origin
  /\ UNCHANGED stored

Paint ==
  /\ open
  /\ \E colour \in Colours : picture' = [picture EXCEPT ![point] = colour]
  /\ UNCHANGED <<open, point, stored>>

Clear ==
  /\ open
  /\ picture' = [place \in DOMAIN picture |-> Black]
  /\ UNCHANGED <<open, point, stored>>

Near(p, q) == \/ p[1] = q[1] /\ p[2] - q[2] \in {-1, 1}
              \/ p[2] = q[2] /\ p[1] - q[1] \in {-1, 1}

Move ==
  /\ open
  /\ point' \in {place \in DOMAIN picture : Near(place, point)}
  /\ UNCHANGED <<open, picture, stored>>

Store == open /\ stored' = picture /\ UNCHANGED <<picture, point, open>>

Close ==
  /\ open /\ ~open'
  /\ stored' \in {stored, picture}
  /\ picture' = NewPicture /\ point' = Origin

OthersStore == stored' \in Others /\ UNCHANGED <<open, picture, point>>

Next == Open \/ Paint \/ Clear \/ Move \/ Store \/ Close \/ OthersStore

Spec == Init /\ [][Next]_vars

=============================================================================
