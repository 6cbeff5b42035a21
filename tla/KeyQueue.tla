------------------------------ MODULE KeyQueue ------------------------------
(***************************************************************************)
(* What a keyboard promises: what is typed arrives, once and in order, and *)
(* means what the modifiers that are down when it is typed make of it.     *)
(***************************************************************************)
EXTENDS Sequences

CONSTANTS
  Modifiers,
  Meanings,     \* of a key, for each set of modifiers
  Nothing       \* the meaning of what is no key event

VARIABLES down, typed, got

vars == <<down, typed, got>>

Init == down = {} /\ typed = <<>> /\ got = Nothing

Modify == down' \in SUBSET Modifiers /\ UNCHANGED <<typed, got>>

Type ==
  /\ typed' \in {Append(typed, event) : event \in {meaning[down] : meaning \in Meanings} \ {Nothing}}
  /\ UNCHANGED <<down, got>>

Arrive ==
  /\ typed # <<>>
  /\ got' = Head(typed) /\ typed' = Tail(typed)
  /\ UNCHANGED down

Next == Modify \/ Type \/ Arrive

Spec == Init /\ [][Next]_vars

=============================================================================
