------------------------------- MODULE Kernel -------------------------------
(***************************************************************************)
(* The kernel's tasks at work: the task table and the scheduler (Tasks),   *)
(* the session manager (Janus) and the loops that use them - the shell     *)
(* with its commands and scripts (shell.c), the applications scribe and    *)
(* sigildraw (janus.c, scribe.c, sigildraw.c), the golems (glm.c), the     *)
(* heartbeats (overlays.c) and the wraith.                                 *)
(*                                                                         *)
(* A key is read by polling the keyboard controller.  A poll finds         *)
(* nothing, Alt+F1, or another key; what the other key is, is left open.   *)
(* As in Tasks, Bug... definitions are mistakes the properties must notice.*)
(***************************************************************************)
EXTENDS Janus

CONSTANT ScriptMax   \* commands of the longest script that is cast

ASSUME ScriptMaxAssumption == ScriptMax \in Nat \ {0}

VARIABLES
  pc,       \* where a task's own loop is
  todo,     \* commands the shell has still to execute before its next prompt
  buffers,  \* tasks that have an editor open: its lines or pixels are on the heap
  images,   \* slots whose golem has a runtime and an image on the heap
  got       \* the task that was handed a key in the last step, or -1

loopVars == <<pc, todo, buffers, images>>
vars == <<taskVars, janusVars, loopVars, got>>

PCs == {"none", "run", "start", "idle", "line", "exec", "edit", "ask"}

Init ==
  /\ TaskInit
  /\ JanusInit
  /\ pc = [i \in Ids |-> "none"]
  /\ todo = 0
  /\ buffers = {}
  /\ images = {}
  /\ got = -1

\* The current task is at one of the given places of its loop.
At(places) == current # -1 /\ pc[current] \in places

GoTo(place) == pc' = [pc EXCEPT ![current] = place]

NoKey == got' = -1
TakeKey == got' = current

-----------------------------------------------------------------------------
(***************************************************************************)
(* Boot and the wraith.  cleanup_task_slot forgets the task in Janus and   *)
(* calls the task's cleanup function, which only golems have.              *)
(***************************************************************************)
KernelBoot ==
  /\ Boot
  /\ pc' = [pc EXCEPT ![Wraith] = "run", ![Shell] = "start"]
  /\ NoKey
  /\ UNCHANGED <<janusVars, todo, buffers, images>>

\* The task's cleanup function is not called.
BugNoCleanup(id) ==
  /\ JanusForgetTask(id)
  /\ pc' = [pc EXCEPT ![id] = "none"]
  /\ UNCHANGED <<todo, buffers, images>>

Forget(id) ==
  /\ JanusForgetTask(id)
  /\ pc' = [pc EXCEPT ![id] = "none"]
  /\ images' = images \ {id}
  /\ UNCHANGED <<todo, buffers>>

WraithStep ==
  /\ WraithScan \/ WraithDelay
  /\ IF scan < MAX_TASKS /\ WraithReaps(scan)
       THEN Forget(scan) ELSE UNCHANGED <<janusVars, loopVars>>
  /\ NoKey

-----------------------------------------------------------------------------
(***************************************************************************)
(* janus_try_get_key, as the loops of the shell and the editors call it.   *)
(***************************************************************************)

\* Nothing for the caller and nothing in the keyboard: it yields and tries again.
PollEmpty ==
  /\ At({"line", "edit", "ask"})
  /\ pc[current] # "ask" => ~FocusEvent
  /\ Yield
  /\ NoKey
  /\ UNCHANGED <<janusVars, loopVars>>

\* A focused caller takes Alt+F1: the focus moves on, the caller gets no key and
\* yields.
PollAltF1 ==
  /\ At({"line", "edit", "ask"})
  /\ pc[current] # "ask" => ~FocusEvent
  /\ HasFocus
  /\ JanusFocusNext
  /\ Yield
  /\ NoKey
  /\ UNCHANGED loopVars

\* A focused caller at one of the given places takes another key.
PollKey(places) ==
  /\ At(places)
  /\ pc[current] # "ask" => ~FocusEvent
  /\ HasFocus
  /\ TakeKey

-----------------------------------------------------------------------------
(***************************************************************************)
(* The editors scribe_open and sigildraw_open, run by the shell's own      *)
(* commands or by an application task.  "ask" stands for the prompts       *)
(* inside them and for the shell's y/n questions: these poll the keyboard  *)
(* without asking for focus events.                                        *)
(***************************************************************************)

\* janus_task_scribe, janus_task_sigildraw up to the editor's loop.
AppStart ==
  /\ At({"start"})
  /\ Running({"app"})
  /\ GoTo("edit")
  /\ buffers' = buffers \cup {current}
  /\ NoKey
  /\ UNCHANGED <<taskVars, janusVars, todo, images>>

\* The open fails: the application closes at once.
AppStartFails ==
  /\ At({"start"})
  /\ Running({"app"})
  /\ TaskExitCode(0)
  /\ JanusForgetTask(current)
  /\ GoTo("run")
  /\ NoKey
  /\ UNCHANGED <<todo, buffers, images>>

\* A focus event: the editor draws itself again.
EditRedraw ==
  /\ At({"edit"})
  /\ FocusEvent
  /\ SeeFocus
  /\ NoKey
  /\ UNCHANGED <<taskVars, loopVars>>

\* A key that edits, or one that opens a prompt inside the editor.
EditKey ==
  /\ PollKey({"edit"})
  /\ \/ UNCHANGED pc
     \/ GoTo("ask")
  /\ UNCHANGED <<taskVars, janusVars, todo, buffers, images>>

\* A key to a prompt: it goes on asking, or the answer leads back to where the
\* prompt was opened - the editor, or for the shell's own questions the command.
AskKey ==
  /\ PollKey({"ask"})
  /\ \/ UNCHANGED pc
     \/ current \in buffers /\ GoTo("edit")
     \/ current \notin buffers /\ GoTo("exec")
  /\ UNCHANGED <<taskVars, janusVars, todo, buffers, images>>

\* The key that closes the editor - save and quit, or y to the quit prompt.  In the
\* shell the command is over; an application leaves Janus and exits.
QuitKey ==
  /\ PollKey({"edit", "ask"})
  /\ current \in buffers
  /\ buffers' = buffers \ {current}
  /\ IF current = Shell
       THEN GoTo("exec") /\ UNCHANGED <<taskVars, janusVars>>
       ELSE GoTo("run") /\ TaskExitCode(0) /\ JanusForgetTask(current)
  /\ UNCHANGED <<todo, images>>

-----------------------------------------------------------------------------
(***************************************************************************)
(* The shell.                                                              *)
(***************************************************************************)
ShellAt(place) == At({place}) /\ ShellFree

\* task_shell up to its loop: register, and see the focus that comes with it.
ShellStart ==
  /\ ShellAt("start")
  /\ JanusRegisterCurrent("shell")
  /\ unseen' = IF focused' = current THEN unseen \ {current} ELSE unseen
  /\ GoTo("idle")
  /\ NoKey
  /\ UNCHANGED <<taskVars, todo, buffers, images>>

\* The shell waits for the focus without yielding.
BugIdleSpins ==
  /\ ShellAt("idle")
  /\ ~HasFocus
  /\ NoKey
  /\ UNCHANGED <<taskVars, janusVars, loopVars>>

\* The top of the shell's loop without the focus.
ShellIdle ==
  /\ ShellAt("idle")
  /\ ~HasFocus
  /\ Yield
  /\ NoKey
  /\ UNCHANGED <<janusVars, loopVars>>

\* With the focus: a pending focus event clears the screen, then the prompt.
ShellPrompt ==
  /\ ShellAt("idle")
  /\ HasFocus
  /\ unseen' = unseen \ {current}
  /\ GoTo("line")
  /\ NoKey
  /\ UNCHANGED <<taskVars, kind, focused, todo, buffers, images>>

\* read_line gives up its line on a focus event; the shell yields and starts over.
LineAbandoned ==
  /\ ShellAt("line")
  /\ FocusEvent
  /\ SeeFocus
  /\ GoTo("idle")
  /\ Yield
  /\ NoKey
  /\ UNCHANGED <<todo, buffers, images>>

LineKey ==
  /\ PollKey({"line"})
  /\ UNCHANGED <<taskVars, janusVars, loopVars>>

\* Enter: one command, or the commands of the script that is cast.
LineEnter ==
  /\ PollKey({"line"})
  /\ \E n \in 1 .. ScriptMax : todo' = n
  /\ GoTo("exec")
  /\ UNCHANGED <<taskVars, janusVars, buffers, images>>

\* The last command is done: the shell yields before its next prompt.
CommandsDone ==
  /\ ShellAt("exec")
  /\ todo = 0
  /\ GoTo("idle")
  /\ Yield
  /\ NoKey
  /\ UNCHANGED <<janusVars, todo, buffers, images>>

\* shell_execute_command takes up the next command.
Command ==
  /\ ShellAt("exec")
  /\ todo > 0
  /\ todo' = todo - 1
  /\ NoKey

\* help, ps, the filesystem commands, and any command that is refused.
CmdOther ==
  /\ Command
  /\ UNCHANGED <<taskVars, janusVars, pc, buffers, images>>

CmdSpawnHeartbeat(id) ==
  /\ Command
  /\ Spawn(id, "heartbeat")
  /\ pc' = [pc EXCEPT ![id] = "run"]
  /\ UNCHANGED <<janusVars, buffers, images>>

CmdJanusSpawn(id) ==
  /\ Command
  /\ Spawn(id, "app")
  /\ JanusSpawned(id)
  /\ pc' = [pc EXCEPT ![id] = "start"]
  /\ UNCHANGED <<buffers, images>>

CmdSummon(id) ==
  /\ Command
  /\ Summon(id)
  /\ pc' = [pc EXCEPT ![id] = "run"]
  /\ images' = images \cup {id}
  /\ UNCHANGED <<janusVars, buffers>>

CmdKill(id) ==
  /\ Command
  /\ TaskKill(id)
  /\ UNCHANGED <<janusVars, pc, buffers, images>>

CmdJanusNext ==
  /\ Command
  /\ JanusFocusNext
  /\ UNCHANGED <<taskVars, pc, buffers, images>>

CmdJanusFocus(id) ==
  /\ Command
  /\ JanusFocusTask(id)
  /\ UNCHANGED <<taskVars, pc, buffers, images>>

CmdYield ==
  /\ Command
  /\ Yield
  /\ UNCHANGED <<janusVars, pc, buffers, images>>

\* burn, formatfs, warp with a conflict: a y/n question.
CmdAsk ==
  /\ Command
  /\ GoTo("ask")
  /\ UNCHANGED <<taskVars, janusVars, buffers, images>>

\* scribe, sigildraw: the editor runs in the shell's task.
CmdEdit ==
  /\ Command
  /\ GoTo("edit")
  /\ buffers' = buffers \cup {current}
  /\ UNCHANGED <<taskVars, janusVars, images>>

\* A round of task_wait, behind summon and strace.
ShellWait ==
  /\ TaskWait
  /\ IF waiting' = -1 /\ ~WaitedGone
       THEN Forget(waiting) ELSE UNCHANGED <<janusVars, loopVars>>
  /\ NoKey

ShellCommand ==
  \/ CmdOther
  \/ CmdJanusNext
  \/ CmdYield
  \/ CmdAsk
  \/ CmdEdit
  \/ \E id \in Ids : \/ CmdSpawnHeartbeat(id)
                     \/ CmdJanusSpawn(id)
                     \/ CmdSummon(id)
                     \/ CmdKill(id)
                     \/ CmdJanusFocus(id)

-----------------------------------------------------------------------------
(***************************************************************************)
(* Golems and heartbeats.                                                  *)
(***************************************************************************)

\* glm_api_yield, the empty polls of glm_api_getch, and the heartbeats' loop.
OtherYield ==
  /\ At({"run"})
  /\ Running({"golem", "heartbeat"})
  /\ Yield
  /\ NoKey
  /\ UNCHANGED <<janusVars, loopVars>>

\* glm_api_getch takes a key straight from the keyboard.
GolemGetch ==
  /\ At({"run"})
  /\ Running({"golem"})
  /\ TakeKey
  /\ UNCHANGED <<taskVars, janusVars, loopVars>>

\* glm_api_exit, or the golem's entry returns.
GolemExit ==
  /\ At({"run"})
  /\ Running({"golem"})
  /\ \E code \in Codes : TaskExitCode(code)
  /\ NoKey
  /\ UNCHANGED <<janusVars, loopVars>>

-----------------------------------------------------------------------------
Next ==
  \/ KernelBoot \/ WraithStep
  \/ PollEmpty \/ PollAltF1
  \/ AppStart \/ AppStartFails \/ EditRedraw \/ EditKey \/ AskKey \/ QuitKey
  \/ ShellStart \/ ShellIdle \/ ShellPrompt \/ LineAbandoned \/ LineKey \/ LineEnter
  \/ CommandsDone \/ ShellCommand \/ ShellWait
  \/ OtherYield \/ GolemGetch \/ GolemExit

Spec == Init /\ [][Next]_vars

(***************************************************************************)
(* Fairness: the processor runs on, every task reaches its next yield, and *)
(* a task that polls the keyboard outruns whoever types, so that a poll    *)
(* comes back empty sooner or later.                                       *)
(***************************************************************************)
FairSpec == Spec /\ WF_vars(Next) /\ WF_vars(PollEmpty)

-----------------------------------------------------------------------------
(***************************************************************************)
(* Properties.                                                             *)
(***************************************************************************)
TypeOK ==
  /\ TaskTypeOK
  /\ kind \in [Ids -> Kinds]
  /\ focused \in Ids \cup {-1}
  /\ unseen \subseteq Ids
  /\ pc \in [Ids -> PCs]
  /\ todo \in 0 .. ScriptMax
  /\ buffers \subseteq Ids
  /\ images \subseteq Ids
  /\ got \in Ids \cup {-1}

ShellUp == kind[Shell] # "none"

\* The keyboard always belongs to somebody who can use it: once the shell is up,
\* the focus is on a registered task that still has its slot, whatever was closed,
\* killed or reaped.
FocusOnPresentTask ==
  ShellUp => /\ focused # -1
             /\ kind[focused] \in {"shell", "app"}
             /\ Present(focused)

\* A slot's Janus entry is never inherited: an entry is active only for the shell
\* and for the application that runs in that very slot, so a heartbeat or a golem
\* that reuses a slot cannot be given the focus.
EntriesMatchTasks ==
  \A i \in Ids :
    /\ kind[i] = "shell" => i = Shell
    /\ kind[i] = "app" => tasks[i].name = "app"

JanusMatchesTable == TypeOK /\ FocusOnPresentTask /\ EntriesMatchTasks

\* Golem images are freed exactly with their tasks.
ImagesMatchGolems ==
  \A i \in Ids : i \in images <=> tasks[i].name = "golem"

\* The focus leaves a task only when it gives it away itself (Alt+F1, its end), when a
\* command of the shell moves it, or when the task is dead and reaped: whoever else ends
\* or is collected takes it from nobody (janus_forget_task).  And the task it goes to
\* has a redraw pending, even if it has drawn in an earlier turn.
FocusIsHandedOver ==
  [][focused # -1 /\ focused' # focused =>
       /\ current = focused \/ ShellAt("exec") \/ Zombie(focused)
       /\ focused' \in unseen']_vars

\* Focus-based input routing, as README.md promises it: a key is never taken away from
\* a focused application by another task.  glm_api_getch does.
KeysGoToFocusedApp ==
  [][got' # -1 /\ kind[focused] = "app" => got' = focused]_vars

\* When the focus comes back to the shell, it redraws before it acts on a key.
ShellRedrawsFirst ==
  [][got' = Shell => Shell \notin unseen]_vars

\* The memory of a terminated task is reclaimed: editor contents are on the heap
\* only while the task that allocated them is in the table.
BuffersReclaimed ==
  \A i \in buffers : Present(i)

\* Focus does not stay with a task that was killed or has exited.
FocusLeavesZombie ==
  \A i \in Ids : (focused = i /\ Zombie(i)) ~> ~(focused = i /\ Zombie(i))

\* A task that is given the focus and keeps it sees the focus event, unless a
\* prompt of its own is open or it is gone.
FocusIsSeen ==
  \A i \in Ids : (focused = i /\ i \in unseen /\ pc[i] \in {"edit", "idle", "line"})
                   ~> (focused # i \/ i \notin unseen \/ Zombie(i) \/ pc[i] = "ask")

=============================================================================
