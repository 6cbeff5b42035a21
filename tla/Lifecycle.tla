----------------------------- MODULE Lifecycle -----------------------------
(***************************************************************************)
(* What the task subsystem promises about the life of a process, without a *)
(* scheduler, a reaper loop or a wait loop: a slot is free, live or        *)
(* exited; a detached process is reclaimed by the system after it exits,   *)
(* at most one process is joined, and joining hands its exit code over     *)
(* once.  Tasks implements this specification.                             *)
(***************************************************************************)
CONSTANTS
  Slots,   \* where a process can live
  Codes,   \* exit codes
  None     \* no slot

VARIABLES
  phase,    \* "free", "live" or "exited", for each slot
  code,     \* the code an exited process left
  joined,   \* the process somebody waits for, None otherwise
  answer    \* the code of the last process joined

vars == <<phase, code, joined, answer>>

Init ==
  /\ phase = [s \in Slots |-> "free"]
  /\ code = [s \in Slots |-> 0]
  /\ joined = None
  /\ answer = 0

\* A process nobody waits for is started.
Detach(s) ==
  /\ phase[s] = "free"
  /\ joined = None
  /\ phase' = [phase EXCEPT ![s] = "live"]
  /\ UNCHANGED <<code, joined, answer>>

\* A process is started and waited for from the first moment on.
Join(s) ==
  /\ phase[s] = "free"
  /\ joined = None
  /\ phase' = [phase EXCEPT ![s] = "live"]
  /\ joined' = s
  /\ UNCHANGED <<code, answer>>

\* A process exits, or is killed; only a process nobody waits for is killed
\* once more after that.
Exit(s, c) ==
  /\ \/ phase[s] = "live"
     \/ phase[s] = "exited" /\ joined = None
  /\ phase' = [phase EXCEPT ![s] = "exited"]
  /\ code' = [code EXCEPT ![s] = c]
  /\ UNCHANGED <<joined, answer>>

\* The system reclaims a process nobody waits for.
Reclaim(s) ==
  /\ phase[s] = "exited"
  /\ joined # s
  /\ phase' = [phase EXCEPT ![s] = "free"]
  /\ code' = [code EXCEPT ![s] = 0]
  /\ UNCHANGED <<joined, answer>>

\* The waiting process gets the code, and the slot is free again.
Collect(s) ==
  /\ joined = s
  /\ phase[s] = "exited"
  /\ answer' = code[s]
  /\ phase' = [phase EXCEPT ![s] = "free"]
  /\ code' = [code EXCEPT ![s] = 0]
  /\ joined' = None

Next ==
  \E s \in Slots :
    \/ Detach(s)
    \/ Join(s)
    \/ \E c \in Codes : Exit(s, c)
    \/ Reclaim(s)
    \/ Collect(s)

Spec == Init /\ [][Next]_vars

\* An exited process does not stay: it is reclaimed, or collected.
Fairness == \A s \in Slots : WF_vars(Reclaim(s)) /\ WF_vars(Collect(s))

FairSpec == Spec /\ Fairness

=============================================================================
