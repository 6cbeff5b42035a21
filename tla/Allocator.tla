----------------------------- MODULE Allocator -----------------------------
(***************************************************************************)
(* What kmalloc and kfree promise their callers: an extent that is handed  *)
(* out overlaps no other one until it is freed.  Heap implements this.     *)
(***************************************************************************)
EXTENDS Integers

CONSTANTS
  Requests,    \* sizes a caller may ask for, in bytes
  Addresses    \* where an extent may start

VARIABLE held   \* for each pointer handed out, the bytes asked for

\* Addresses count units of 16 bytes; a caller may use the units it asked for.
Units(bytes) == (bytes + 15) \div 16

Apart(p, m, q, n) == p + Units(m) <= q \/ q + Units(n) <= p

Init == held = [p \in {} |-> 0]

Malloc(p, bytes) ==
  /\ \A q \in DOMAIN held : Apart(p, bytes, q, held[q])
  /\ held' = [q \in DOMAIN held \cup {p} |-> IF q = p THEN bytes ELSE held[q]]

Free(p) == held' = [q \in DOMAIN held \ {p} |-> held[q]]

Next ==
  \/ \E p \in Addresses, bytes \in Requests : Malloc(p, bytes)
  \/ \E p \in DOMAIN held : Free(p)

Spec == Init /\ [][Next]_held

=============================================================================
