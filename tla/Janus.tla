------------------------------- MODULE Janus -------------------------------
(***************************************************************************)
(* Janus, the session manager of IsnaOS (OS/src/kernel/janus.c): which     *)
(* tasks can have the keyboard, which one has it, and which still have to  *)
(* redraw because the focus has moved.  These are the operations; Kernel   *)
(* says who calls them.                                                    *)
(*                                                                         *)
(* The focus generation is kept as what the code compares it for: the set  *)
(* of tasks whose g_seen_focus_generation differs from                     *)
(* g_focus_generation.  Counting it up makes every task differ.            *)
(***************************************************************************)
EXTENDS Tasks

VARIABLES
  kind,      \* g_janus[id].kind; "none" where the entry is not active
  focused,   \* g_focused_task
  unseen     \* tasks that have not seen the current focus generation

janusVars == <<kind, focused, unseen>>

Kinds == {"none", "shell", "app", "system"}

JanusInit ==
  /\ kind = [i \in Ids |-> "none"]
  /\ focused = -1
  /\ unseen = Ids

\* The focus is given to a task, counting the generation up if it moves.
MoveFocus(from, to) ==
  /\ focused' = to
  /\ unseen' = IF from = to THEN unseen ELSE Ids

\* janus_focus_next, called with the given focus and registrations: the next
\* present task that is not a system task, in the scheduler's cyclic order.  The
\* code starts from the current task when nobody has the focus.
FocusNext(from, kinds) ==
  LET start == IF from >= 0 THEN from ELSE current
      others == {i \in Ids : kinds[i] \notin {"none", "system"} /\ Present(i)}
  IN  IF others = {}
        THEN focused' = from /\ UNCHANGED unseen
        ELSE \E next \in others :
               /\ \A i \in others : Steps(start, next) <= Steps(start, i)
               /\ MoveFocus(from, next)

JanusFocusNext ==
  /\ FocusNext(focused, kind)
  /\ UNCHANGED kind

\* janus_register_current; the first focus is given out without counting the
\* generation up, so unseen is the caller's.
JanusRegisterCurrent(k) ==
  /\ kind' = [kind EXCEPT ![current] = k]
  /\ focused' = IF focused < 0 /\ k # "system" THEN current ELSE focused

\* The focus is taken from the task and given to nobody.
BugFocusToNobody(id) ==
  /\ kind' = [kind EXCEPT ![id] = "none"]
  /\ focused' = IF focused = id THEN -1 ELSE focused
  /\ UNCHANGED unseen

\* The focus moves on whoever had it.
BugForgetAlways(id) ==
  /\ kind' = [kind EXCEPT ![id] = "none"]
  /\ FocusNext(-1, [kind EXCEPT ![id] = "none"])

\* janus_forget_task
JanusForgetTask(id) ==
  /\ kind' = [kind EXCEPT ![id] = "none"]
  /\ IF focused = id
       THEN FocusNext(-1, [kind EXCEPT ![id] = "none"])
       ELSE UNCHANGED <<focused, unseen>>

\* janus_focus_task; a zombie that Janus still lists can get the focus.
CanFocus(id) == id \in Ids /\ kind[id] \notin {"none", "system"}

JanusFocusTask(id) ==
  /\ IF CanFocus(id) THEN MoveFocus(focused, id) ELSE UNCHANGED <<focused, unseen>>
  /\ UNCHANGED kind

\* janus_spawn_scribe and janus_spawn_sigildraw, once task_create has returned
\* id: the entry, the focus, and one more generation.
JanusSpawned(id) ==
  /\ kind' = [kind EXCEPT ![id] = "app"]
  /\ focused' = id
  /\ unseen' = Ids

\* janus_current_has_focus
HasFocus == current = focused

\* janus_consume_focus_event returns 1, and what it records then.
FocusEvent == HasFocus /\ current \in unseen

\* The event is reported but not recorded as seen.
BugNotSeen == UNCHANGED janusVars

SeeFocus ==
  /\ unseen' = unseen \ {current}
  /\ UNCHANGED <<kind, focused>>

=============================================================================
