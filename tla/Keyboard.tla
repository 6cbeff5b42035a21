------------------------------ MODULE Keyboard ------------------------------
(***************************************************************************)
(* The keyboard driver of OS/src/drivers/keyboard.c: keyboard_try_get_key  *)
(* takes one byte from the controller and makes a key event of it, or      *)
(* remembers what it says of the keys that follow.                         *)
(*                                                                         *)
(* The keyboard itself is external: its keys send a byte when they go down *)
(* and when they go up, the extended ones after a prefix.  Around an       *)
(* extended key the keyboard puts extended shifts, as Shift and Num Lock   *)
(* are at the time: any of them may be put here.  A character is a string, *)
(* and a key event the name of its type or its character.                  *)
(***************************************************************************)
EXTENDS Integers, SequencesExt

CONSTANTS
  Keys,           \* records: ext, code, modifies (a modifier or None), meaning
  ShiftsAtOnce,   \* how many shift keys are down at a time
  MaxHeld, PortMax        \* bounds: keys down at a time, bytes not yet taken

ASSUME BoundAssumption == ShiftsAtOnce \in Nat /\ MaxHeld \in Nat /\ PortMax \in Nat

None == ""

VARIABLES
  held,           \* the keys that are down
  port,           \* the bytes the controller has for the driver
  shiftDown, altDown, e0,
  got             \* the event of the last call that returned 1

driverVars == <<shiftDown, altDown, e0>>
vars == <<held, port, driverVars, got>>

\* scancode_to_ascii and scancode_to_ascii_shift, from code 1 on
ScancodeToAscii ==
  << "esc", "1", "2", "3", "4", "5", "6", "7", "8", "9", "0", "-", "=", "bs",
     "\t", "q", "w", "e", "r", "t", "y", "u", "i", "o", "p", "[", "]", "\n", None,
     "a", "s", "d", "f", "g", "h", "j", "k", "l", ";", "'", "grave", None, "\\",
     "z", "x", "c", "v", "b", "n", "m", ",", ".", "/", None, "*", None, " " >>

ScancodeToAsciiShift ==
  << "esc", "!", "@", "#", "$", "%", "^", "&", "*", "(", ")", "_", "+", "bs",
     "\t", "Q", "W", "E", "R", "T", "Y", "U", "I", "O", "P", "{", "}", "\n", None,
     "A", "S", "D", "F", "G", "H", "J", "K", "L", ":", "\"", "~", None, "|",
     "Z", "X", "C", "V", "B", "N", "M", "<", ">", "?", None, "*", None, " " >>

Ascii(code, shift) ==
  LET table == IF shift THEN ScancodeToAsciiShift ELSE ScancodeToAscii
  IN  IF code \in DOMAIN table THEN table[code] ELSE None

ExtendedKey(code) ==
  CASE code = 72 -> "KEY_UP"   [] code = 80 -> "KEY_DOWN"
    [] code = 73 -> "KEY_PAGEUP" [] code = 81 -> "KEY_PAGEDOWN"
    [] code = 75 -> "KEY_LEFT" [] code = 77 -> "KEY_RIGHT"
    [] code = 83 -> "KEY_DELETE" [] OTHER -> None

FunctionCodes == 59..62
FunctionKey(code, alt) ==
  CASE code = 59 -> IF alt THEN "KEY_ALT_F1" ELSE "KEY_F1"
    [] code = 60 -> IF alt THEN "KEY_ALT_F2" ELSE "KEY_F2"
    [] code = 61 -> IF alt THEN "KEY_ALT_F3" ELSE "KEY_F3"
    [] code = 62 -> IF alt THEN "KEY_ALT_F4" ELSE "KEY_F4"

\* Of an event with a character, the character
CharKey(c) ==
  CASE c = "esc" -> "KEY_ESC" [] c = "\n" -> "KEY_ENTER" [] c = "bs" -> "KEY_BACKSPACE"
    [] OTHER -> c

KeyEvent(driver, code) ==
  IF driver.e0 THEN ExtendedKey(code)
  ELSE IF code \in FunctionCodes THEN FunctionKey(code, driver.alt)
  ELSE CharKey(Ascii(code, driver.shift))

-----------------------------------------------------------------------------
\* The driver.

Prefix == 224
ReleaseBit == 128

\* Extended shifts are taken for the keys.
BugIsShift(driver, code) == code \in {42, 54}

IsShift(driver, code) == ~driver.e0 /\ code \in {42, 54}
IsAlt(driver, code) == ~driver.e0 /\ code = 56

Drivers == [shift : BOOLEAN, alt : BOOLEAN, e0 : BOOLEAN]

\* What a byte makes of the driver's state
After ==
  [driver \in Drivers, sc \in 0..255 |->
     LET released == sc >= ReleaseBit
         code     == sc % ReleaseBit
     IN  CASE sc = Prefix -> [driver EXCEPT !.e0 = TRUE]
           [] sc # Prefix /\ IsShift(driver, code) -> [driver EXCEPT !.shift = ~released]
           [] sc # Prefix /\ IsAlt(driver, code) -> [driver EXCEPT !.alt = ~released]
           [] OTHER -> [driver EXCEPT !.e0 = FALSE]]

\* The event that a byte is, if it is one
Event ==
  [driver \in Drivers, sc \in 0..255 |->
     IF sc >= ReleaseBit \/ IsShift(driver, sc) \/ IsAlt(driver, sc) THEN None
     ELSE KeyEvent(driver, sc)]

Driver == [shift |-> shiftDown, alt |-> altDown, e0 |-> e0]

\* keyboard_try_get_key, with a byte in the controller
Poll ==
  /\ port # <<>>
  /\ LET driver == After[Driver, Head(port)]
     IN  shiftDown' = driver.shift /\ altDown' = driver.alt /\ e0' = driver.e0
  /\ LET event == Event[Driver, Head(port)]
     IN  got' = IF event = None THEN got ELSE event
  /\ port' = Tail(port)
  /\ UNCHANGED held

-----------------------------------------------------------------------------
\* The keyboard.

Bytes(key, released) ==
  (IF key.ext THEN <<Prefix>> ELSE <<>>)
    \o <<IF released THEN key.code + ReleaseBit ELSE key.code>>

\* E0 2A, E0 36, E0 AA, E0 B6
ExtendedShifts == {<<>>} \cup {<<Prefix, byte>> : byte \in {42, 54, 170, 182}}

Shifts == {key \in Keys : key.modifies = "shift"}

Send(bytes) == Len(port) + Len(bytes) <= PortMax /\ port' = port \o bytes

Press ==
  \E key \in Keys \ held :
    /\ Cardinality(held) < MaxHeld
    /\ key \in Shifts => Cardinality(held \cap Shifts) < ShiftsAtOnce
    /\ \E before \in ExtendedShifts :
         /\ ~key.ext => before = <<>>
         /\ Send(before \o Bytes(key, FALSE))
    /\ held' = held \cup {key}
    /\ UNCHANGED <<driverVars, got>>

\* A key that stays down is sent again.
Repeat ==
  \E key \in held :
    /\ Send(Bytes(key, FALSE))
    /\ UNCHANGED <<held, driverVars, got>>

Release ==
  \E key \in held :
    /\ \E after \in ExtendedShifts :
         /\ ~key.ext => after = <<>>
         /\ Send(Bytes(key, TRUE) \o after)
    /\ held' = held \ {key}
    /\ UNCHANGED <<driverVars, got>>

Init ==
  /\ held = {} /\ port = <<>>
  /\ shiftDown = FALSE /\ altDown = FALSE /\ e0 = FALSE
  /\ got = None

Next == Poll \/ Press \/ Repeat \/ Release

Spec == Init /\ [][Next]_vars

-----------------------------------------------------------------------------
\* The events that are in the bytes of the controller
Pending ==
  LET driver[n \in 0..Len(port)] == IF n = 0 THEN Driver ELSE After[driver[n - 1], port[n]]
  IN  SelectSeq([n \in DOMAIN port |-> Event[driver[n - 1], port[n]]],
                LAMBDA event : event # None)

Q == INSTANCE KeyQueue WITH
  Modifiers <- {key.modifies : key \in Keys} \ {None},
  Meanings  <- {key.meaning : key \in Keys},
  Nothing   <- None,
  down      <- {key.modifies : key \in held} \ {None},
  typed     <- Pending

\* "Converts raw keyboard scancodes into higher-level key events": however late the
\* bytes are taken, each key is the event that the modifiers made of it when it was
\* pressed, and a prefix or an extended shift leaves nothing behind
\* (keyboard_try_get_key).
KeysArriveAsTyped == Q!Spec

=============================================================================
