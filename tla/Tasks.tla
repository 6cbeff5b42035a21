------------------------------- MODULE Tasks -------------------------------
(***************************************************************************)
(* The task table and the cooperative scheduler of IsnaOS                  *)
(* (OS/src/kernel/task.c, sched.c, and the part of main.c that starts      *)
(* them).                                                                  *)
(*                                                                         *)
(* Interrupts stay disabled while tasks run, so the code between two calls *)
(* of yield() is atomic.  Every action below is a piece of such code run   *)
(* by the current task; an action that ends in a yield contains the whole  *)
(* of schedule().  Who may call what is the program's own division:  only  *)
(* the shell creates, kills and waits, only applications and golems exit,  *)
(* only the wraith reaps.                                                  *)
(***************************************************************************)
EXTENDS Integers, FiniteSets

CONSTANTS
  MAX_TASKS,     \* slots of g_tasks (64 in task.h)
  DelayYields,   \* yields of one task_delay(200000) (13 in the build)
  ExitCodes      \* what a golem may hand to exit()

ASSUME MaxTasksAssumption == MAX_TASKS \in Nat /\ MAX_TASKS >= 3
ASSUME DelayYieldsAssumption == DelayYields \in Nat \ {0}
ASSUME ExitCodesAssumption == ExitCodes \subseteq Int

VARIABLES
  tasks,      \* g_tasks: a record for each slot, NoTask where the slot is 0
  current,    \* g_current, -1 before the first schedule()
  waiting,    \* the child task_wait() is looping for, -1 outside of it
  exit_code,  \* *out_exit_code of the last task_wait() that returned 1
  scan,       \* the wraith's loop index; MAX_TASKS while it is in task_delay
  delay       \* yields done of the wraith's current task_delay

taskVars == <<tasks, current, waiting, exit_code, scan, delay>>

-----------------------------------------------------------------------------
Ids == 0 .. MAX_TASKS - 1

Wraith == 0   \* the slots kmain's two task_create calls get
Shell  == 1
Workers == Ids \ {Wraith, Shell}

TASK_EXIT_KILLED == -1
Codes == ExitCodes \cup {0, TASK_EXIT_KILLED}

States == {"dead", "ready", "running", "zombie"}
Protected == {"wraith", "shell"}
AppNames == {"app", "heartbeat"}     \* created by task_create: TASK_FLAG_AUTOREAP
Names == Protected \cup AppNames \cup {"golem"}

TaskRecords == [state : States, name : Names \cup {""}, parent_id : Ids \cup {-1},
                exit_code : Codes, autoreap : BOOLEAN]

NoTask == [state |-> "dead", name |-> "", parent_id |-> -1,
           exit_code |-> 0, autoreap |-> FALSE]

Present(i) == tasks[i].state # "dead"
Zombie(i)  == tasks[i].state = "zombie"

-----------------------------------------------------------------------------
(***************************************************************************)
(* Operations on the table.  A definition named Bug... is not part of the  *)
(* model: it is a plausible mistake in the definition that follows it,     *)
(* kept to show that the properties below would notice it.                 *)
(***************************************************************************)
NewTask(name, parent, autoreap) ==
  [state |-> "ready", name |-> name, parent_id |-> parent,
   exit_code |-> 0, autoreap |-> autoreap]

\* A slot is given out again as soon as its task is a zombie.
BugAllocZombieSlot(id) ==
  /\ tasks[id].state \in {"dead", "zombie"}
  /\ \A j \in Ids : j < id => tasks[j].state \notin {"dead", "zombie"}

\* alloc_slot: the first slot that holds no task.
IsAllocSlot(id) ==
  ~Present(id) /\ \A j \in Ids : j < id => Present(j)

\* task_create_ex: kmalloc does not fail here (the heap has no upper end), so
\* the call fails only when alloc_slot finds no slot, and changes nothing then.
TaskCreate(id, name, autoreap) ==
  /\ IsAllocSlot(id)
  /\ tasks' = [tasks EXCEPT ![id] = NewTask(name, current, autoreap)]

\* cleanup_task_slot: the stack, the control block and the userdata are freed
\* with the slot.
CleanupTaskSlot(id) == tasks' = [tasks EXCEPT ![id] = NoTask]

\* The search starts one slot too late and reaches p's neighbour last.
BugSkipNeighbour(p, i) ==
  LET step == IF i > p THEN i - p ELSE i - p + MAX_TASKS
  IN  IF step = 1 THEN MAX_TASKS ELSE step - 1

\* Distance from slot p to slot i in the order the scheduler searches:
\* the step for which (p + step) % MAX_TASKS = i.
Steps(p, i) == IF i > p THEN i - p ELSE i - p + MAX_TASKS

ReadyIn(table) == {i \in Ids : table[i].state = "ready"}

\* The state of the task that yields is left as it is.
BugNotPutBack(table) == table

\* The running task goes back to ready; a task that just became a zombie does not.
PutBack(table) ==
  IF current # -1 /\ table[current].state = "running"
    THEN [table EXCEPT ![current].state = "ready"] ELSE table

IsNextReady(table, next) ==
  /\ next \in ReadyIn(table)
  /\ \A j \in ReadyIn(table) : Steps(current, next) <= Steps(current, j)

\* schedule(), called with the given table: the search, the state changes and
\* the switch.  With no task ready the caller keeps running.
Schedule(table) ==
  LET back == PutBack(table)
  IN  IF ReadyIn(back) = {}
        THEN /\ tasks' = [back EXCEPT ![current].state = "running"]
             /\ UNCHANGED current
        ELSE \E next \in ReadyIn(back) :
               /\ IsNextReady(back, next)
               /\ tasks' = [back EXCEPT ![next].state = "running"]
               /\ current' = next

-----------------------------------------------------------------------------
TaskInit ==
  /\ tasks = [i \in Ids |-> NoTask]
  /\ current = -1
  /\ waiting = -1
  /\ exit_code = 0
  /\ scan = 0
  /\ delay = 0

\* kmain after task_init: two task_create calls, then schedule() out of the
\* boot context, which nothing ever resumes.
Boot ==
  /\ current = -1
  /\ Schedule([tasks EXCEPT ![Wraith] = NewTask("wraith", -1, TRUE),
                            ![Shell]  = NewTask("shell", -1, TRUE)])
  /\ UNCHANGED <<waiting, exit_code, scan, delay>>

Running(names) == current # -1 /\ tasks[current].name \in names

\* The shell between two commands' effects, not inside task_wait.
ShellFree == Running({"shell"}) /\ waiting = -1

\* spawn hb0, spawn hb1, janus scribe, janus sigil.
Spawn(id, name) ==
  /\ ShellFree
  /\ TaskCreate(id, name, TRUE)
  /\ UNCHANGED <<current, waiting, exit_code, scan, delay>>

\* summon, strace: glm_spawn_ex creates the golem without AUTOREAP and the
\* shell enters task_wait for it with no yield in between.  The entry checks
\* of task_wait are those its loop repeats.
Summon(id) ==
  /\ ShellFree
  /\ TaskCreate(id, "golem", FALSE)
  /\ waiting' = id
  /\ UNCHANGED <<current, exit_code, scan, delay>>

\* The names of the kernel's own tasks are not checked.
BugKillAnybody(id) ==
  /\ ShellFree
  /\ Present(id)
  /\ id # current
  /\ tasks' = [tasks EXCEPT ![id].exit_code = TASK_EXIT_KILLED,
                            ![id].state = "zombie"]
  /\ UNCHANGED <<current, waiting, exit_code, scan, delay>>

\* task_kill, called by the shell's kill command.  A zombie may be killed again.
TaskKill(id) ==
  /\ ShellFree
  /\ Present(id)
  /\ id # current
  /\ tasks[id].name \notin Protected
  /\ tasks' = [tasks EXCEPT ![id].exit_code = TASK_EXIT_KILLED,
                            ![id].state = "zombie"]
  /\ UNCHANGED <<current, waiting, exit_code, scan, delay>>

\* A yield() of the shell, an application, a heartbeat or a golem.
Yield ==
  /\ ShellFree \/ Running(AppNames \cup {"golem"})
  /\ Schedule(tasks)
  /\ UNCHANGED <<waiting, exit_code, scan, delay>>

\* task_exit_code up to its first yield: the later ones are never reached,
\* because the scheduler does not pick a zombie.
TaskExitCode(code) ==
  /\ \/ Running({"app"}) /\ code = 0
     \/ Running({"golem"}) /\ code \in ExitCodes \cup {0, -1}
  /\ Schedule([tasks EXCEPT ![current].exit_code = code,
                            ![current].state = "zombie"])
  /\ UNCHANGED <<waiting, exit_code, scan, delay>>

\* One round of the loop of task_wait.
WaitedGone == ~Present(waiting) \/ tasks[waiting].parent_id # current

TaskWaitFails ==
  /\ WaitedGone
  /\ waiting' = -1
  /\ UNCHANGED <<tasks, current, exit_code>>

TaskWaitCollects ==
  /\ ~WaitedGone
  /\ Zombie(waiting)
  /\ exit_code' = tasks[waiting].exit_code
  /\ CleanupTaskSlot(waiting)
  /\ waiting' = -1
  /\ UNCHANGED current

TaskWaitYields ==
  /\ ~WaitedGone
  /\ ~Zombie(waiting)
  /\ Schedule(tasks)
  /\ UNCHANGED <<waiting, exit_code>>

TaskWait ==
  /\ Running({"shell"})
  /\ waiting # -1
  /\ IF WaitedGone THEN TaskWaitFails ELSE TaskWaitCollects \/ TaskWaitYields
  /\ UNCHANGED <<scan, delay>>

\* The wraith takes every zombie, also one somebody waits for.
BugReapAll(i) == Zombie(i) /\ tasks[i].name \notin Protected

\* The wraith looks at the parent only and not at the AUTOREAP flag.
BugReapOrphans(i) ==
  /\ Zombie(i)
  /\ tasks[i].name \notin Protected
  /\ tasks[i].parent_id < 0 \/ ~Present(tasks[i].parent_id)

\* The wraith's decision for a slot: leave a zombie to its parent's task_wait
\* when it is not AUTOREAP and its parent's slot is in use.
WraithReaps(i) ==
  /\ Zombie(i)
  /\ tasks[i].name \notin Protected
  /\ \/ tasks[i].autoreap
     \/ tasks[i].parent_id < 0
     \/ ~Present(tasks[i].parent_id)

\* One round of the wraith's loop over the table.
WraithScan ==
  /\ Running({"wraith"})
  /\ scan < MAX_TASKS
  /\ scan' = scan + 1
  /\ IF WraithReaps(scan)
       THEN CleanupTaskSlot(scan)
       ELSE tasks' = IF Zombie(scan) /\ tasks[scan].name \in Protected
                       THEN [tasks EXCEPT ![scan].state = "ready"] ELSE tasks
  /\ UNCHANGED <<current, waiting, exit_code, delay>>

\* One yield of the wraith's task_delay; after the last one it scans again.
WraithDelay ==
  /\ Running({"wraith"})
  /\ scan = MAX_TASKS
  /\ Schedule(tasks)
  /\ IF delay + 1 < DelayYields
       THEN delay' = delay + 1 /\ scan' = scan
       ELSE delay' = 0 /\ scan' = 0
  /\ UNCHANGED <<waiting, exit_code>>

TaskNext ==
  \/ Boot
  \/ \E id \in Ids, name \in AppNames : Spawn(id, name)
  \/ \E id \in Ids : Summon(id)
  \/ \E id \in Ids : TaskKill(id)
  \/ Yield
  \/ \E code \in Codes : TaskExitCode(code)
  \/ TaskWait
  \/ WraithScan
  \/ WraithDelay

TaskSpec == TaskInit /\ [][TaskNext]_taskVars

(***************************************************************************)
(* Fairness.  The processor runs on, and the code a task runs reaches its  *)
(* next yield: scheduling is cooperative, and the kernel's own tasks have  *)
(* no loop without one.  Nothing is assumed about which task runs, about   *)
(* the commands that are typed or about a golem ever exiting.              *)
(***************************************************************************)
TaskFairSpec == TaskSpec /\ WF_taskVars(TaskNext)

-----------------------------------------------------------------------------
(***************************************************************************)
(* Properties.                                                             *)
(***************************************************************************)
TaskTypeOK ==
  /\ tasks \in [Ids -> TaskRecords]
  /\ current \in Ids \cup {-1}
  /\ waiting \in Ids \cup {-1}
  /\ exit_code \in Codes
  /\ scan \in 0 .. MAX_TASKS
  /\ delay \in 0 .. DelayYields - 1

\* Exactly the task the processor executes is marked running: schedule() never
\* leaves two running tasks, none, or a current task whose control block and
\* stack have been freed under it.
OneRunning ==
  current # -1 => \A i \in Ids : tasks[i].state = "running" <=> i = current

\* The reaper and the shell are never lost, whatever is killed or exits: task_kill
\* and the wraith both protect them, so the table always holds a task that can run.
CoreTasksStay ==
  current # -1 =>
    /\ tasks[Wraith].name = "wraith" /\ tasks[Wraith].state \in {"ready", "running"}
    /\ tasks[Shell].name = "shell" /\ tasks[Shell].state \in {"ready", "running"}

\* A golem is in the table exactly while the shell waits for it: the wraith does
\* not take a zombie from under task_wait, and no golem is left behind that nobody
\* would ever collect.
GolemsAreWaitedFor ==
  \A i \in Ids : tasks[i].name = "golem" <=> waiting = i

\* A task that has exited or has been killed never runs again: from zombie a slot
\* only becomes free, and what its waiting parent will read stays what the child
\* left there.
ZombieIsFinal ==
  [][\A i \in Ids : Zombie(i) =>
       \/ tasks'[i] = NoTask
       \/ /\ tasks'[i].state = "zombie"
          /\ waiting = i => tasks'[i].exit_code = tasks[i].exit_code]_taskVars

\* task_wait ends only by collecting: the child had exited, its slot is freed in
\* the same step, and the code handed out is the one the child exited with.
WaitEndsByCollecting ==
  [][waiting # -1 /\ waiting' = -1 =>
       /\ Zombie(waiting)
       /\ tasks'[waiting] = NoTask
       /\ exit_code' = tasks[waiting].exit_code]_taskVars

\* Round robin starves nobody: a task that is ready runs, unless it is killed first.
ReadyTaskRuns ==
  \A i \in Ids : tasks[i].state = "ready" ~> tasks[i].state # "ready"

\* Every zombie's slot, stack and control block are reclaimed, by the wraith or by
\* the waiting shell.
ZombieReclaimed ==
  \A i \in Ids : Zombie(i) ~> ~Zombie(i)

\* The shell gets its prompt back once the golem it summoned has exited.
WaitReturns ==
  \A i \in Workers : waiting = i /\ Zombie(i) ~> waiting = -1

-----------------------------------------------------------------------------
(***************************************************************************)
(* The refinement: a slot that may hold a worker is free, live or exited.  *)
(* Scheduling, the wraith's loop and the rounds of task_wait stutter.      *)
(***************************************************************************)
Phase(i) == CASE tasks[i].state = "dead"   -> "free"
              [] tasks[i].state = "zombie" -> "exited"
              [] OTHER                     -> "live"

Life == INSTANCE Lifecycle WITH
          Slots <- Workers, Codes <- Codes, None <- -1,
          phase <- [i \in Workers |-> Phase(i)],
          code <- [i \in Workers |-> tasks[i].exit_code],
          joined <- waiting,
          answer <- exit_code

\* The kernel's tasks have the promised life cycle: exited processes are reclaimed
\* or collected exactly once, and a waiting shell gets the code its golem left.
ImplementsLifecycle == Life!FairSpec

=============================================================================
