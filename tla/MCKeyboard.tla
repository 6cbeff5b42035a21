----------------------------- MODULE MCKeyboard -----------------------------
EXTENDS Keyboard

Char(code, plain, shifted) ==
  [ext |-> FALSE, code |-> code, modifies |-> None,
   meaning |-> [down \in SUBSET {"shift", "alt"} |-> IF "shift" \in down THEN shifted ELSE plain]]
Function(code, plain, alted) ==
  [ext |-> FALSE, code |-> code, modifies |-> None,
   meaning |-> [down \in SUBSET {"shift", "alt"} |-> IF "alt" \in down THEN alted ELSE plain]]
Same(ext, code, event) ==
  [ext |-> ext, code |-> code, modifies |-> None,
   meaning |-> [down \in SUBSET {"shift", "alt"} |-> event]]
Modifier(code, what) ==
  [ext |-> FALSE, code |-> code, modifies |-> what,
   meaning |-> [down \in SUBSET {"shift", "alt"} |-> None]]

\* Both Shifts and the left Alt; the keypad's and the extended Up, with one code; and
\* the extended Ctrl, which is no event.
MCKeys == {Modifier(42, "shift"), Modifier(54, "shift"), Modifier(56, "alt"),
           Char(30, "a", "A"), Function(59, "KEY_F1", "KEY_ALT_F1"),
           Same(TRUE, 72, "KEY_UP"), Same(FALSE, 72, None), Same(TRUE, 29, None)}
=============================================================================
