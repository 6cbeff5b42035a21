----------------------------- MODULE Namespace -----------------------------
(***************************************************************************)
(* What a file system promises to the one who uses paths: each path names  *)
(* at most one entry, every entry lies in a directory, and an operation    *)
(* changes the entries it is about and no other.  The tree of VfsTree      *)
(* implements this.                                                        *)
(*                                                                         *)
(* The entries are a function from the paths in use to what is there; each *)
(* operation is a relation between what was there and what is there now.   *)
(***************************************************************************)
EXTENDS Integers, SequencesExt

CONSTANTS
  FirstEntries,   \* the entries of a new file system
  FirstPlace      \* its working directory

VARIABLES
  entries,   \* what is at each path that is in use
  place      \* the path of the working directory

vars == <<entries, place>>

Below(was, p) == {q \in DOMAIN was : IsPrefix(p, q)}
IsLeaf(was, p) == Below(was, p) = {p}
InDirectory(was, p) == Front(p) \in DOMAIN was /\ was[Front(p)].type = "dir"

\* A new entry, with nothing in it
Created(was, now) ==
  \E p \in DOMAIN now \ DOMAIN was :
    /\ InDirectory(was, p)
    /\ now = [q \in DOMAIN was \cup {p} |-> IF q = p THEN now[p] ELSE was[q]]

\* The contents of one file
Changed(was, now) ==
  /\ DOMAIN now = DOMAIN was
  /\ \E p \in DOMAIN was :
       /\ was[p].type = "file" /\ now[p].type = "file"
       /\ \A q \in DOMAIN was \ {p} : now[q] = was[q]

Deleted(was, now) ==
  \E p \in DOMAIN was \ DOMAIN now :
    IsLeaf(was, p) /\ now = [q \in DOMAIN was \ {p} |-> was[q]]

\* Everything at and below p goes to q and below; a leaf that is at q is replaced.
MovedTo(was, now, p, q) ==
  LET stays == DOMAIN was \ (Below(was, p) \cup {q})
      to(r) == q \o SubSeq(r, Len(p) + 1, Len(r))
  IN  /\ ~IsPrefix(p, q) /\ ~IsPrefix(p, place)
      /\ InDirectory(was, q)
      /\ q \in DOMAIN was => IsLeaf(was, q)
      /\ now = [r \in stays \cup {to(s) : s \in Below(was, p)} |->
                  IF r \in stays THEN was[r]
                  ELSE was[CHOOSE s \in Below(was, p) : to(s) = r]]

Moved(was, now) ==
  \E p \in DOMAIN was \ DOMAIN now, q \in DOMAIN now : MovedTo(was, now, p, q)

Init == entries = FirstEntries /\ place = FirstPlace

Renew == entries' = FirstEntries /\ place' = FirstPlace

Operate ==
  /\ \E was \in {entries}, now \in {entries'} :
       Created(was, now) \/ Changed(was, now) \/ Deleted(was, now) \/ Moved(was, now)
  /\ UNCHANGED place

ChangePlace ==
  /\ place' \in {p \in DOMAIN entries : entries[p].type = "dir"}
  /\ UNCHANGED entries

Next == ChangePlace \/ Operate \/ Renew

Spec == Init /\ [][Next]_vars
=============================================================================
