---------------------------- MODULE KernelProofs ----------------------------
(***************************************************************************)
(* Proofs about Tasks and Kernel, for every size of the task table, every  *)
(* length of the wraith's delay, every set of exit codes and every length  *)
(* of scripts.                                                             *)
(*                                                                         *)
(* First the task table by itself: TaskInv, and that Tasks implements      *)
(* Lifecycle.  Then Kernel: Janus and the loops agree with the table.      *)
(* What Kernel does to the table are steps of Tasks (StepsAreTaskSteps),   *)
(* so the invariant of Tasks holds and says whose slot is whose.  Of the   *)
(* table only two things matter to Janus, the names in the slots and which *)
(* slots are in use: Kept says that a step leaves both.                    *)
(***************************************************************************)
EXTENDS Kernel, TLAPS

-----------------------------------------------------------------------------
(***************************************************************************)
(* The inductive invariant.  To the properties it adds what they rest on:  *)
(* a free slot holds no leftovers, nothing exists before the boot, and the *)
(* tasks beside wraith and shell are applications, heartbeats (AUTOREAP,   *)
(* so never waited for) or golems (children of the shell, which never      *)
(* loses its slot - that is why the wraith leaves their zombies alone).    *)
(***************************************************************************)
EmptySlots == \A i \in Ids : ~Present(i) => tasks[i] = NoTask

BeforeBoot == current = -1 => waiting = -1 /\ \A i \in Ids : tasks[i] = NoTask

WorkerKinds ==
  \A i \in Workers : Present(i) =>
    \/ tasks[i].name \in AppNames /\ tasks[i].autoreap
    \/ tasks[i].name = "golem" /\ ~tasks[i].autoreap /\ tasks[i].parent_id = Shell

TaskInv ==
  /\ TaskTypeOK
  /\ EmptySlots
  /\ BeforeBoot
  /\ WorkerKinds
  /\ OneRunning
  /\ CoreTasksStay
  /\ GolemsAreWaitedFor

Alive == {"ready", "running"}

-----------------------------------------------------------------------------
\* What schedule() does to a table in which at most the current task is running and
\* the wraith can run: only states change, they change only between ready and
\* running, and exactly the new current task is running.
LEMMA ScheduleEffect ==
  ASSUME NEW STATE table, table \in [Ids -> TaskRecords],
         current \in Ids \cup {-1},
         \A i \in Ids : table[i].state = "running" => i = current,
         table[Wraith].state \in Alive,
         Schedule(table)
  PROVE  /\ tasks' \in [Ids -> TaskRecords]
         /\ current' \in Ids
         /\ \A i \in Ids : tasks'[i].state = "running" <=> i = current'
         /\ \A i \in Ids : /\ tasks'[i].name = table[i].name
                           /\ tasks'[i].parent_id = table[i].parent_id
                           /\ tasks'[i].exit_code = table[i].exit_code
                           /\ tasks'[i].autoreap = table[i].autoreap
                           /\ tasks'[i].state \in Alive <=> table[i].state \in Alive
                           /\ table[i].state \notin Alive => tasks'[i] = table[i]
<1> DEFINE back == PutBack(table)
<1> Wraith \in Ids
  BY MaxTasksAssumption DEF Ids, Wraith
<1>1. /\ back \in [Ids -> TaskRecords]
      /\ \A i \in Ids : /\ back[i].name = table[i].name
                        /\ back[i].parent_id = table[i].parent_id
                        /\ back[i].exit_code = table[i].exit_code
                        /\ back[i].autoreap = table[i].autoreap
                        /\ back[i].state # "running"
                        /\ back[i].state \in Alive <=> table[i].state \in Alive
                        /\ table[i].state \notin Alive => back[i] = table[i]
  <2>1. CASE current # -1 /\ table[current].state = "running"
    <3>1. back = [table EXCEPT ![current].state = "ready"]
      BY <2>1 DEF PutBack
    <3>2. back \in [Ids -> TaskRecords]
      BY <3>1, <2>1 DEF TaskRecords, States
    <3>3. \A i \in Ids : i # current => back[i] = table[i]
      BY <3>1
    <3>4. /\ back[current].name = table[current].name
          /\ back[current].parent_id = table[current].parent_id
          /\ back[current].exit_code = table[current].exit_code
          /\ back[current].autoreap = table[current].autoreap
          /\ back[current].state = "ready"
      BY <3>1, <2>1 DEF TaskRecords
    <3> QED
      BY <3>2, <3>3, <3>4, <2>1 DEF Alive
  <2>2. CASE ~(current # -1 /\ table[current].state = "running")
    <3>1. back = table
      BY <2>2 DEF PutBack
    <3>2. \A i \in Ids : table[i].state # "running"
      BY <2>2 DEF Ids
    <3> QED
      BY <3>1, <3>2
  <2> QED
    BY <2>1, <2>2
<1>2. Wraith \in ReadyIn(back)
  BY <1>1 DEF ReadyIn, Alive
<1>3. PICK next \in ReadyIn(back) :
        /\ tasks' = [back EXCEPT ![next].state = "running"]
        /\ current' = next
  BY <1>2 DEF Schedule
<1>4. next \in Ids /\ back[next].state = "ready"
  BY DEF ReadyIn
<1> HIDE DEF back
<1>5. \A i \in Ids : i # next => tasks'[i] = back[i]
  BY <1>1, <1>3, <1>4
<1>6. tasks'[next] = [back[next] EXCEPT !.state = "running"]
  BY <1>1, <1>3, <1>4
<1>7. back[next] \in TaskRecords
  BY <1>1, <1>4
<1>8. /\ tasks'[next] \in TaskRecords
      /\ tasks'[next].name = back[next].name
      /\ tasks'[next].parent_id = back[next].parent_id
      /\ tasks'[next].exit_code = back[next].exit_code
      /\ tasks'[next].autoreap = back[next].autoreap
      /\ tasks'[next].state = "running"
  BY <1>6, <1>7 DEF TaskRecords, States
<1>9. tasks' \in [Ids -> TaskRecords]
  BY <1>1, <1>3, <1>4, <1>8
<1>10. \A i \in Ids : tasks'[i].state = "running" <=> i = current'
  BY <1>1, <1>3, <1>5, <1>8
<1>11. \A i \in Ids : /\ tasks'[i].name = back[i].name
                      /\ tasks'[i].parent_id = back[i].parent_id
                      /\ tasks'[i].exit_code = back[i].exit_code
                      /\ tasks'[i].autoreap = back[i].autoreap
                      /\ tasks'[i].state \in Alive <=> back[i].state \in Alive
                      /\ back[i].state \notin Alive => tasks'[i] = back[i]
  BY <1>4, <1>5, <1>8 DEF Alive
<1> QED
  BY <1>1, <1>3, <1>4, <1>9, <1>10, <1>11

-----------------------------------------------------------------------------
\* A yield keeps the part of the invariant that speaks of the table, when the table
\* the scheduler is called with differs from the old one only in the state and exit
\* code of tasks, and wraith and shell are still alive in it.
TablePart ==
  /\ tasks \in [Ids -> TaskRecords]
  /\ current \in Ids \cup {-1}
  /\ EmptySlots
  /\ BeforeBoot
  /\ WorkerKinds
  /\ OneRunning
  /\ CoreTasksStay
  /\ GolemsAreWaitedFor

LEMMA YieldKeepsTable ==
  ASSUME TablePart, current # -1,
         NEW STATE table, table \in [Ids -> TaskRecords],
         \A i \in Ids : /\ table[i].name = tasks[i].name
                        /\ table[i].parent_id = tasks[i].parent_id
                        /\ table[i].autoreap = tasks[i].autoreap
                        /\ table[i].state = "dead" => table[i] = tasks[i]
                        /\ tasks[i].state = "dead" => table[i] = tasks[i]
                        /\ table[i].state = "running" => i = current,
         table[Wraith].state \in Alive, table[Shell].state \in Alive,
         Schedule(table),
         waiting' = waiting
  PROVE  TablePart'
<1> Wraith \in Ids /\ Shell \in Ids
  BY MaxTasksAssumption DEF Ids, Wraith, Shell
<1>1. /\ tasks' \in [Ids -> TaskRecords]
      /\ current' \in Ids
      /\ \A i \in Ids : tasks'[i].state = "running" <=> i = current'
      /\ \A i \in Ids : /\ tasks'[i].name = table[i].name
                        /\ tasks'[i].parent_id = table[i].parent_id
                        /\ tasks'[i].exit_code = table[i].exit_code
                        /\ tasks'[i].autoreap = table[i].autoreap
                        /\ tasks'[i].state \in Alive <=> table[i].state \in Alive
                        /\ table[i].state \notin Alive => tasks'[i] = table[i]
  BY ScheduleEffect DEF TablePart
<1>2. current' # -1
  BY <1>1 DEF Ids
<1>3. \A i \in Ids : tasks'[i].state = "dead" <=> tasks[i].state = "dead"
  BY <1>1 DEF Alive
<1>4. EmptySlots'
  BY <1>1, <1>3 DEF TablePart, EmptySlots, Present, Alive
<1>5. WorkerKinds'
  BY <1>1, <1>3 DEF TablePart, WorkerKinds, Present, Workers
<1>6. OneRunning' /\ BeforeBoot'
  BY <1>1, <1>2 DEF OneRunning, BeforeBoot
<1>7. CoreTasksStay'
  BY <1>1, <1>2 DEF TablePart, CoreTasksStay, Alive
<1>8. GolemsAreWaitedFor'
  BY <1>1 DEF TablePart, GolemsAreWaitedFor
<1> QED
  BY <1>1, <1>4, <1>5, <1>6, <1>7, <1>8 DEF TablePart

-----------------------------------------------------------------------------
\* What Running says of the current task.
LEMMA RunningTask ==
  ASSUME TaskInv, NEW names, Running(names)
  PROVE  /\ current \in Ids
         /\ current # -1
         /\ tasks[current].name \in names
         /\ tasks[current].state = "running"
  BY DEF TaskInv, TaskTypeOK, Running, OneRunning

\* The shell runs in the shell's slot and the wraith in its own.
LEMMA WhoRuns ==
  ASSUME TaskInv
  PROVE  /\ Running({"shell"}) => current = Shell
         /\ Running({"wraith"}) => current = Wraith
         /\ Running(AppNames \cup {"golem"}) => current \in Workers
<1> Wraith \in Ids /\ Shell \in Ids
  BY MaxTasksAssumption DEF Ids, Wraith, Shell
<1> SUFFICES ASSUME NEW names \in {{"shell"}, {"wraith"}, AppNames \cup {"golem"}},
                    Running(names)
             PROVE  /\ names = {"shell"} => current = Shell
                    /\ names = {"wraith"} => current = Wraith
                    /\ names = AppNames \cup {"golem"} => current \in Workers
  OBVIOUS
<1>1. /\ current \in Ids
      /\ current # -1
      /\ tasks[current].name \in names
      /\ tasks[current].state = "running"
  BY RunningTask
<1>2. current \in Workers => tasks[current].name \in AppNames \cup {"golem"}
  BY <1>1 DEF TaskInv, WorkerKinds, Present
<1>3. tasks[Wraith].name = "wraith" /\ tasks[Shell].name = "shell"
  BY <1>1 DEF TaskInv, CoreTasksStay
<1> QED
  BY <1>1, <1>2, <1>3 DEF Workers, AppNames

-----------------------------------------------------------------------------
(***************************************************************************)
(* One lemma for each action.                                              *)
(***************************************************************************)
LEMMA BootEffect ==
  ASSUME TaskInv, Boot
  PROVE  /\ tasks' \in [Ids -> TaskRecords]
         /\ current' \in Ids
         /\ \A i \in Ids : tasks'[i].state = "running" <=> i = current'
         /\ \A i \in Workers : tasks'[i] = NoTask
         /\ tasks'[Wraith].name = "wraith" /\ tasks'[Wraith].state \in Alive
         /\ tasks'[Shell].name = "shell" /\ tasks'[Shell].state \in Alive
<1> DEFINE table == [tasks EXCEPT ![Wraith] = NewTask("wraith", -1, TRUE),
                                  ![Shell]  = NewTask("shell", -1, TRUE)]
<1> Wraith \in Ids /\ Shell \in Ids /\ Wraith # Shell
  BY MaxTasksAssumption DEF Ids, Wraith, Shell
<1>1. /\ current = -1 /\ waiting = -1
      /\ \A i \in Ids : tasks[i] = NoTask
      /\ tasks \in [Ids -> TaskRecords]
      /\ Schedule(table)
  BY DEF TaskInv, BeforeBoot, Boot, TaskTypeOK
<1>2. /\ NewTask("wraith", -1, TRUE) \in TaskRecords
      /\ NewTask("shell", -1, TRUE) \in TaskRecords
  BY DEF NewTask, TaskRecords, States, Names, Protected, Codes
<1>3. /\ table \in [Ids -> TaskRecords]
      /\ table[Wraith] = NewTask("wraith", -1, TRUE)
      /\ table[Shell] = NewTask("shell", -1, TRUE)
      /\ \A i \in Ids \ {Wraith, Shell} : table[i] = NoTask
  BY <1>1, <1>2
<1>0. /\ NoTask.state = "dead" /\ NoTask.name = ""
      /\ NewTask("wraith", -1, TRUE).state = "ready"
      /\ NewTask("shell", -1, TRUE).state = "ready"
      /\ NewTask("wraith", -1, TRUE).name = "wraith"
      /\ NewTask("shell", -1, TRUE).name = "shell"
  BY DEF NoTask, NewTask
<1>4. \A i \in Ids : table[i].state # "running"
  BY <1>0, <1>3
<1>5. table[Wraith].state \in Alive /\ table[Shell].state \in Alive
  BY <1>3 DEF NewTask, Alive
<1> HIDE DEF table
<1>6. /\ tasks' \in [Ids -> TaskRecords]
      /\ current' \in Ids
      /\ \A i \in Ids : tasks'[i].state = "running" <=> i = current'
      /\ \A i \in Ids : /\ tasks'[i].name = table[i].name
                        /\ tasks'[i].state \in Alive <=> table[i].state \in Alive
                        /\ table[i].state \notin Alive => tasks'[i] = table[i]
  <2>1. current \in Ids \cup {-1}
    BY <1>1
  <2> QED
    BY ScheduleEffect, <2>1, <1>1, <1>3, <1>4, <1>5
<1>7. \A i \in Ids \ {Wraith, Shell} : tasks'[i] = NoTask
  <2> SUFFICES ASSUME NEW i \in Ids, i # Wraith, i # Shell
               PROVE  tasks'[i] = NoTask
    OBVIOUS
  <2>1. table[i] = NoTask
    BY <1>3
  <2>2. table[i].state \notin Alive
    BY <2>1, <1>0 DEF Alive
  <2> QED
    BY <1>6, <2>1, <2>2
<1>8. /\ tasks'[Wraith].name = "wraith" /\ tasks'[Wraith].state \in Alive
      /\ tasks'[Shell].name = "shell" /\ tasks'[Shell].state \in Alive
  BY <1>0, <1>3, <1>5, <1>6
<1> QED
  BY <1>6, <1>7, <1>8 DEF Workers

LEMMA BootStep ==
  ASSUME TaskInv, Boot
  PROVE  TaskInv'
<1>1. /\ tasks' \in [Ids -> TaskRecords]
      /\ current' \in Ids
      /\ \A i \in Ids : tasks'[i].state = "running" <=> i = current'
      /\ \A i \in Workers : tasks'[i] = NoTask
      /\ tasks'[Wraith].name = "wraith" /\ tasks'[Wraith].state \in Alive
      /\ tasks'[Shell].name = "shell" /\ tasks'[Shell].state \in Alive
  BY BootEffect
<1>2. NoTask.state = "dead" /\ NoTask.name = ""
  BY DEF NoTask
<1>3. waiting = -1 /\ UNCHANGED <<waiting, exit_code, scan, delay>>
  BY DEF TaskInv, BeforeBoot, Boot
<1>4. current' # -1
  BY <1>1 DEF Ids
<1>5. \A i \in Ids : tasks'[i].name # "golem" /\ i # -1
  <2>1. \A i \in Ids : tasks'[i].name # "golem"
    BY <1>1, <1>2 DEF Workers
  <2> QED
    BY <2>1 DEF Ids
<1>6. EmptySlots' /\ WorkerKinds'
  BY <1>1, <1>2 DEF EmptySlots, WorkerKinds, Present, Workers, Alive
<1>7. BeforeBoot' /\ OneRunning'
  BY <1>1, <1>4 DEF BeforeBoot, OneRunning
<1>8. CoreTasksStay'
  BY <1>1 DEF CoreTasksStay, Alive
<1>9. GolemsAreWaitedFor'
  BY <1>3, <1>5 DEF GolemsAreWaitedFor
<1> QED
  BY <1>1, <1>3, <1>6, <1>7, <1>8, <1>9 DEF TaskInv, TaskTypeOK

\* spawn and summon: a new task in a free slot.
LEMMA CreateStep ==
  ASSUME TaskInv, ShellFree,
         NEW id \in Ids, NEW name \in AppNames \cup {"golem"}, NEW autoreap \in BOOLEAN,
         autoreap <=> name \in AppNames,
         TaskCreate(id, name, autoreap),
         waiting' = IF name = "golem" THEN id ELSE waiting,
         UNCHANGED <<current, exit_code, scan, delay>>
  PROVE  TaskInv'
<1> Wraith \in Ids /\ Shell \in Ids
  BY MaxTasksAssumption DEF Ids, Wraith, Shell
<1> DEFINE new == NewTask(name, Shell, autoreap)
<1>1. /\ current = Shell /\ current # -1 /\ waiting = -1
      /\ tasks \in [Ids -> TaskRecords]
  BY WhoRuns, RunningTask DEF ShellFree, TaskInv, TaskTypeOK
<1>2. tasks[id].state = "dead" /\ tasks[id] = NoTask
  BY DEF TaskCreate, IsAllocSlot, Present, TaskInv, EmptySlots
<1>3. id \in Workers
  BY <1>1, <1>2 DEF TaskInv, CoreTasksStay, Workers
<1>4. new \in TaskRecords
  BY DEF NewTask, TaskRecords, States, Names, Protected, Codes
<1>5. /\ tasks' \in [Ids -> TaskRecords]
      /\ tasks'[id] = new
      /\ \A i \in Ids \ {id} : tasks'[i] = tasks[i]
  BY <1>1, <1>4 DEF TaskCreate
<1>6. /\ new.state = "ready" /\ new.name = name
      /\ new.autoreap = autoreap /\ new.parent_id = Shell
  BY DEF NewTask
<1> HIDE DEF new
<1>7. EmptySlots' /\ BeforeBoot'
  BY <1>1, <1>5, <1>6 DEF TaskInv, EmptySlots, BeforeBoot, Present
<1>8. WorkerKinds'
  BY <1>5, <1>6 DEF TaskInv, WorkerKinds, Present, Workers
<1>9. OneRunning'
  BY <1>1, <1>2, <1>5, <1>6 DEF TaskInv, OneRunning
<1>10. CoreTasksStay'
  BY <1>1, <1>3, <1>5 DEF TaskInv, CoreTasksStay, Workers
<1>11. GolemsAreWaitedFor'
  <2>1. \A i \in Ids : i # -1
    BY DEF Ids
  <2>2. \A i \in Ids : tasks[i].name # "golem"
    BY <1>1, <2>1 DEF TaskInv, GolemsAreWaitedFor
  <2> QED
    BY <1>1, <1>5, <1>6, <2>1, <2>2 DEF GolemsAreWaitedFor
<1>12. TaskTypeOK'
  BY <1>5 DEF TaskInv, TaskTypeOK
<1> QED
  BY <1>7, <1>8, <1>9, <1>10, <1>11, <1>12 DEF TaskInv

LEMMA SpawnStep ==
  ASSUME TaskInv, NEW id \in Ids, NEW name \in AppNames, Spawn(id, name)
  PROVE  TaskInv'
<1>1. name # "golem"
  BY DEF AppNames
<1>2. ShellFree /\ TaskCreate(id, name, TRUE) /\ UNCHANGED <<current, waiting, exit_code, scan, delay>>
  BY DEF Spawn
<1> QED
  BY <1>1, <1>2, CreateStep

LEMMA SummonStep ==
  ASSUME TaskInv, NEW id \in Ids, Summon(id)
  PROVE  TaskInv'
<1>1. "golem" \notin AppNames
  BY DEF AppNames
<1>2. /\ ShellFree /\ TaskCreate(id, "golem", FALSE) /\ waiting' = id
      /\ UNCHANGED <<current, exit_code, scan, delay>>
  BY DEF Summon
<1> QED
  BY <1>1, <1>2, CreateStep

LEMMA KillStep ==
  ASSUME TaskInv, NEW id \in Ids, TaskKill(id)
  PROVE  TaskInv'
<1> Wraith \in Ids /\ Shell \in Ids
  BY MaxTasksAssumption DEF Ids, Wraith, Shell
<1>1. /\ current = Shell /\ current # -1 /\ waiting = -1
      /\ tasks \in [Ids -> TaskRecords]
  BY WhoRuns, RunningTask DEF TaskKill, ShellFree, TaskInv, TaskTypeOK
<1>2. id \in Workers
  BY <1>1 DEF TaskInv, CoreTasksStay, Workers, TaskKill, Protected
<1>3. /\ tasks' \in [Ids -> TaskRecords]
      /\ \A i \in Ids \ {id} : tasks'[i] = tasks[i]
      /\ tasks'[id].state = "zombie"
      /\ tasks'[id].name = tasks[id].name
      /\ tasks'[id].parent_id = tasks[id].parent_id
      /\ tasks'[id].autoreap = tasks[id].autoreap
  BY <1>1 DEF TaskKill, TaskRecords, States, Codes
<1>4. Present(id) /\ id # current
  BY DEF TaskKill
<1>5. EmptySlots' /\ BeforeBoot'
  BY <1>1, <1>3 DEF TaskInv, EmptySlots, BeforeBoot, Present, TaskKill
<1>6. WorkerKinds'
  BY <1>3, <1>4 DEF TaskInv, WorkerKinds, Present, Workers
<1>7. OneRunning'
  BY <1>1, <1>3, <1>4 DEF TaskInv, OneRunning, TaskKill
<1>8. CoreTasksStay'
  BY <1>1, <1>2, <1>3 DEF TaskInv, CoreTasksStay, Workers, TaskKill
<1>9. GolemsAreWaitedFor'
  BY <1>1, <1>3 DEF TaskInv, GolemsAreWaitedFor, TaskKill
<1>10. TaskTypeOK'
  BY <1>3 DEF TaskInv, TaskTypeOK, TaskKill
<1> QED
  BY <1>5, <1>6, <1>7, <1>8, <1>9, <1>10 DEF TaskInv

LEMMA YieldStep ==
  ASSUME TaskInv, Yield
  PROVE  TaskInv'
<1>1. current # -1
  BY DEF Yield, ShellFree, Running
<1>2. TablePart
  BY DEF TaskInv, TablePart, TaskTypeOK
<1>3. /\ \A i \in Ids : tasks[i].state = "running" => i = current
      /\ tasks[Wraith].state \in Alive /\ tasks[Shell].state \in Alive
      /\ tasks \in [Ids -> TaskRecords]
  BY <1>1 DEF TaskInv, TaskTypeOK, OneRunning, CoreTasksStay, Alive
<1>4. Schedule(tasks) /\ UNCHANGED <<waiting, exit_code, scan, delay>>
  BY DEF Yield
<1>5. TablePart'
  BY <1>1, <1>2, <1>3, <1>4, YieldKeepsTable
<1> QED
  BY <1>4, <1>5 DEF TaskInv, TablePart, TaskTypeOK

LEMMA ExitStep ==
  ASSUME TaskInv, NEW code \in Codes, TaskExitCode(code)
  PROVE  TaskInv'
<1> DEFINE table == [tasks EXCEPT ![current].exit_code = code,
                                  ![current].state = "zombie"]
<1>1. /\ current \in Ids /\ current # -1
      /\ tasks[current].name \in {"app", "golem"}
      /\ tasks[current].state = "running"
      /\ tasks \in [Ids -> TaskRecords]
      /\ TablePart
  BY RunningTask DEF TaskExitCode, TaskInv, TaskTypeOK, TablePart
<1>2. current # Wraith /\ current # Shell
  BY <1>1 DEF TaskInv, CoreTasksStay
<1>3. /\ table \in [Ids -> TaskRecords]
      /\ \A i \in Ids \ {current} : table[i] = tasks[i]
      /\ table[current].state = "zombie"
      /\ table[current].name = tasks[current].name
      /\ table[current].parent_id = tasks[current].parent_id
      /\ table[current].autoreap = tasks[current].autoreap
  BY <1>1 DEF TaskRecords, States
<1> HIDE DEF table
<1>4. /\ table[Wraith].state \in Alive /\ table[Shell].state \in Alive
      /\ \A i \in Ids : /\ table[i].name = tasks[i].name
                        /\ table[i].parent_id = tasks[i].parent_id
                        /\ table[i].autoreap = tasks[i].autoreap
                        /\ table[i].state = "dead" => table[i] = tasks[i]
                        /\ tasks[i].state = "dead" => table[i] = tasks[i]
                        /\ table[i].state = "running" => i = current
  <2> Wraith \in Ids /\ Shell \in Ids
    BY MaxTasksAssumption DEF Ids, Wraith, Shell
  <2>1. \A i \in Ids : tasks[i].state = "running" => i = current
    BY <1>1 DEF TaskInv, OneRunning
  <2>2. tasks[Wraith].state \in Alive /\ tasks[Shell].state \in Alive
    BY <1>1 DEF TaskInv, CoreTasksStay, Alive
  <2> QED
    BY <1>1, <1>2, <1>3, <2>1, <2>2
<1>5. Schedule(table) /\ UNCHANGED <<waiting, exit_code, scan, delay>>
  BY DEF TaskExitCode, table
<1>6. TablePart'
  BY <1>1, <1>3, <1>4, <1>5, YieldKeepsTable
<1> QED
  BY <1>5, <1>6 DEF TaskInv, TablePart, TaskTypeOK

\* Freeing the slot of a zombie worker, waited for or not.
LEMMA CleanupKeepsTable ==
  ASSUME TaskInv, NEW id \in Ids, Zombie(id), CleanupTaskSlot(id), current # -1,
         UNCHANGED current,
         waiting' = IF tasks[id].name = "golem" THEN -1 ELSE waiting
  PROVE  TablePart'
<1> Wraith \in Ids /\ Shell \in Ids
  BY MaxTasksAssumption DEF Ids, Wraith, Shell
<1>1. id \in Workers /\ id # current
  BY DEF TaskInv, CoreTasksStay, OneRunning, Workers, Zombie
<1>2. NoTask \in TaskRecords /\ NoTask.state = "dead" /\ NoTask.name = ""
  BY DEF NoTask, TaskRecords, States, Codes
<1>3. /\ tasks' \in [Ids -> TaskRecords]
      /\ tasks'[id] = NoTask
      /\ \A i \in Ids \ {id} : tasks'[i] = tasks[i]
  BY <1>2 DEF CleanupTaskSlot, TaskInv, TaskTypeOK
<1>4. EmptySlots' /\ BeforeBoot'
  BY <1>3 DEF TaskInv, EmptySlots, BeforeBoot, Present
<1>5. WorkerKinds'
  BY <1>2, <1>3 DEF TaskInv, WorkerKinds, Present, Workers
<1>6. OneRunning'
  BY <1>1, <1>2, <1>3 DEF TaskInv, OneRunning
<1>7. CoreTasksStay'
  BY <1>1, <1>3 DEF TaskInv, CoreTasksStay, Workers
<1>8. GolemsAreWaitedFor'
  <2>1. \A i \in Ids : i # -1
    BY DEF Ids
  <2>2. \A i \in Ids : tasks[i].name = "golem" <=> waiting = i
    BY DEF TaskInv, GolemsAreWaitedFor
  <2> QED
    BY <1>2, <1>3, <2>1, <2>2 DEF GolemsAreWaitedFor
<1>9. current' \in Ids \cup {-1}
  BY DEF TaskInv, TaskTypeOK
<1> QED
  BY <1>3, <1>4, <1>5, <1>6, <1>7, <1>8, <1>9 DEF TablePart

\* The child the shell waits for is a golem of its own that is in the table: the
\* two ways out of task_wait that report failure are never taken.
LEMMA WaitedIsChild ==
  ASSUME TaskInv, waiting # -1
  PROVE  /\ waiting \in Workers
         /\ tasks[waiting].name = "golem"
         /\ ~tasks[waiting].autoreap
         /\ tasks[waiting].parent_id = Shell
         /\ Present(waiting)
         /\ current # -1
<1>1. waiting \in Ids /\ tasks[waiting].name = "golem"
  BY DEF TaskInv, TaskTypeOK, GolemsAreWaitedFor
<1>2. current # -1
  BY DEF TaskInv, BeforeBoot
<1>3. Present(waiting)
  <2>1. NoTask.name # "golem"
    BY DEF NoTask
  <2> QED
    BY <1>1, <2>1 DEF TaskInv, EmptySlots
<1>4. waiting \in Workers
  BY <1>1, <1>2 DEF TaskInv, CoreTasksStay, Workers
<1> QED
  BY <1>1, <1>2, <1>3, <1>4 DEF TaskInv, WorkerKinds, AppNames

LEMMA WaitStep ==
  ASSUME TaskInv, TaskWait
  PROVE  TaskInv'
<1>1. /\ current = Shell /\ current # -1 /\ waiting # -1
      /\ UNCHANGED <<scan, delay>>
  BY WhoRuns, RunningTask DEF TaskWait
<1>2. /\ waiting \in Workers /\ waiting \in Ids /\ tasks[waiting].name = "golem"
      /\ ~WaitedGone
  BY <1>1, WaitedIsChild DEF WaitedGone, Workers
<1>3. CASE TaskWaitCollects
  <2>1. /\ Zombie(waiting) /\ CleanupTaskSlot(waiting) /\ waiting' = -1
        /\ UNCHANGED current /\ exit_code' = tasks[waiting].exit_code
    BY <1>3 DEF TaskWaitCollects
  <2>2. TablePart'
    BY <1>1, <1>2, <2>1, CleanupKeepsTable
  <2>3. tasks[waiting].exit_code \in Codes
    BY <1>2 DEF TaskInv, TaskTypeOK, TaskRecords
  <2> QED
    BY <1>1, <2>1, <2>2, <2>3 DEF TaskInv, TablePart, TaskTypeOK
<1>4. CASE TaskWaitYields
  <2>1. Schedule(tasks) /\ UNCHANGED <<waiting, exit_code>>
    BY <1>4 DEF TaskWaitYields
  <2>2. TablePart /\ tasks \in [Ids -> TaskRecords]
    BY DEF TaskInv, TablePart, TaskTypeOK
  <2>3. /\ \A i \in Ids : tasks[i].state = "running" => i = current
        /\ tasks[Wraith].state \in Alive /\ tasks[Shell].state \in Alive
    BY <1>1 DEF TaskInv, OneRunning, CoreTasksStay, Alive
  <2>4. TablePart'
    BY <1>1, <2>1, <2>2, <2>3, YieldKeepsTable
  <2> QED
    BY <1>1, <2>1, <2>4 DEF TaskInv, TablePart, TaskTypeOK
<1> QED
  BY <1>2, <1>3, <1>4 DEF TaskWait

\* The wraith takes only AUTOREAP tasks: the golems' parent is the shell, whose
\* slot is never empty.
LEMMA WraithTakesAutoreap ==
  ASSUME TaskInv, current # -1, NEW i \in Ids, WraithReaps(i)
  PROVE  i \in Workers /\ tasks[i].name \in AppNames /\ waiting # i
<1>1. i \in Workers /\ Present(i)
  BY DEF TaskInv, CoreTasksStay, WraithReaps, Workers, Protected, Zombie, Present
<1>2. Present(Shell) /\ ~(Shell < 0)
  BY DEF TaskInv, CoreTasksStay, Present, Shell
<1>3. tasks[i].name \in AppNames
  BY <1>1, <1>2 DEF TaskInv, WorkerKinds, WraithReaps
<1> QED
  BY <1>1, <1>3 DEF TaskInv, GolemsAreWaitedFor, AppNames

LEMMA ScanStep ==
  ASSUME TaskInv, WraithScan
  PROVE  TaskInv'
<1>1. /\ current = Wraith /\ current # -1 /\ scan \in Ids
      /\ scan' \in 0 .. MAX_TASKS
      /\ UNCHANGED <<current, waiting, exit_code, delay>>
  BY WhoRuns, RunningTask, MaxTasksAssumption DEF WraithScan, TaskInv, TaskTypeOK, Ids
<1>2. CASE WraithReaps(scan)
  <2>1. Zombie(scan) /\ CleanupTaskSlot(scan)
    BY <1>2 DEF WraithScan, WraithReaps
  <2>2. tasks[scan].name # "golem"
    BY <1>1, <1>2, WraithTakesAutoreap DEF AppNames
  <2>3. TablePart'
    BY <1>1, <2>1, <2>2, CleanupKeepsTable
  <2> QED
    BY <1>1, <2>3 DEF TaskInv, TablePart, TaskTypeOK
<1>3. CASE ~WraithReaps(scan)
  <2>1. ~(Zombie(scan) /\ tasks[scan].name \in Protected)
    <3>1. scan \in Workers /\ Present(scan) => tasks[scan].name \notin Protected
      BY DEF TaskInv, WorkerKinds, Protected, AppNames
    <3>2. scan \notin Workers => ~Zombie(scan)
      BY <1>1 DEF TaskInv, CoreTasksStay, Workers, Zombie
    <3> QED
      BY <3>1, <3>2 DEF Zombie, Present
  <2>2. UNCHANGED tasks
    BY <1>3, <2>1 DEF WraithScan
  <2> QED
    BY <1>1, <2>2 DEF TaskInv, TaskTypeOK, EmptySlots, BeforeBoot, WorkerKinds, OneRunning,
                      CoreTasksStay, GolemsAreWaitedFor, Present
<1> QED
  BY <1>2, <1>3

LEMMA DelayStep ==
  ASSUME TaskInv, WraithDelay
  PROVE  TaskInv'
<1>1. current # -1 /\ Schedule(tasks) /\ UNCHANGED <<waiting, exit_code>>
  BY DEF WraithDelay, Running
<1>2. TablePart /\ tasks \in [Ids -> TaskRecords]
  BY DEF TaskInv, TablePart, TaskTypeOK
<1>3. /\ \A i \in Ids : tasks[i].state = "running" => i = current
      /\ tasks[Wraith].state \in Alive /\ tasks[Shell].state \in Alive
  BY <1>1 DEF TaskInv, OneRunning, CoreTasksStay, Alive
<1>4. TablePart'
  BY <1>1, <1>2, <1>3, YieldKeepsTable
<1>5. scan' \in 0 .. MAX_TASKS /\ delay' \in 0 .. DelayYields - 1
  BY MaxTasksAssumption, DelayYieldsAssumption DEF TaskInv, TaskTypeOK, WraithDelay
<1> QED
  BY <1>1, <1>4, <1>5 DEF TaskInv, TablePart, TaskTypeOK

-----------------------------------------------------------------------------
LEMMA InitInv == TaskInit => TaskInv
<1> SUFFICES ASSUME TaskInit PROVE TaskInv
  OBVIOUS
<1>1. NoTask \in TaskRecords /\ NoTask.state = "dead" /\ NoTask.name = ""
  BY DEF NoTask, TaskRecords, States, Codes
<1>2. TaskTypeOK
  <2>1. tasks \in [Ids -> TaskRecords]
    BY <1>1 DEF TaskInit
  <2>2. scan \in 0 .. MAX_TASKS /\ delay \in 0 .. DelayYields - 1
    BY MaxTasksAssumption, DelayYieldsAssumption DEF TaskInit
  <2> QED
    BY <2>1, <2>2 DEF TaskInit, TaskTypeOK, Codes
<1>3. GolemsAreWaitedFor
  <2>1. \A i \in Ids : i # -1
    BY DEF Ids
  <2> QED
    BY <1>1, <2>1 DEF TaskInit, GolemsAreWaitedFor
<1>4. EmptySlots /\ BeforeBoot /\ OneRunning /\ CoreTasksStay
  BY <1>1 DEF TaskInit, EmptySlots, BeforeBoot, OneRunning, CoreTasksStay
<1>5. WorkerKinds
  BY <1>1 DEF TaskInit, WorkerKinds, Present, Workers
<1> QED
  BY <1>2, <1>3, <1>4, <1>5 DEF TaskInv

LEMMA StutterInv == TaskInv /\ UNCHANGED taskVars => TaskInv'
  BY DEF taskVars, TaskInv, TaskTypeOK, EmptySlots, BeforeBoot, WorkerKinds, OneRunning,
         CoreTasksStay, GolemsAreWaitedFor, Present

LEMMA NextInv == TaskInv /\ [TaskNext]_taskVars => TaskInv'
<1> SUFFICES ASSUME TaskInv, TaskNext PROVE TaskInv'
  BY StutterInv
<1>1. CASE Boot
  BY <1>1, BootStep
<1>2. CASE \E id \in Ids, name \in AppNames : Spawn(id, name)
  BY <1>2, SpawnStep
<1>3. CASE \E id \in Ids : Summon(id)
  BY <1>3, SummonStep
<1>4. CASE \E id \in Ids : TaskKill(id)
  BY <1>4, KillStep
<1>5. CASE Yield
  BY <1>5, YieldStep
<1>6. CASE \E code \in Codes : TaskExitCode(code)
  BY <1>6, ExitStep
<1>7. CASE TaskWait
  BY <1>7, WaitStep
<1>8. CASE WraithScan
  BY <1>8, ScanStep
<1>9. CASE WraithDelay
  BY <1>9, DelayStep
<1> QED
  BY <1>1, <1>2, <1>3, <1>4, <1>5, <1>6, <1>7, <1>8, <1>9 DEF TaskNext

\* The inductive invariant holds in every reachable state.
THEOREM Invariance == TaskSpec => []TaskInv
  BY InitInv, NextInv, PTL DEF TaskSpec

\* Every variable keeps its type.
THEOREM TypeCorrect == TaskSpec => []TaskTypeOK
<1>1. TaskInv => TaskTypeOK
  BY DEF TaskInv
<1> QED
  BY <1>1, Invariance, PTL

\* schedule() always leaves exactly its current task running, in a slot that is in use.
THEOREM OneTaskRuns == TaskSpec => []OneRunning
<1>1. TaskInv => OneRunning
  BY DEF TaskInv
<1> QED
  BY <1>1, Invariance, PTL

\* The wraith and the shell are never killed, never exit and are never reaped.
THEOREM CoreTasksSurvive == TaskSpec => []CoreTasksStay
<1>1. TaskInv => CoreTasksStay
  BY DEF TaskInv
<1> QED
  BY <1>1, Invariance, PTL

\* A golem is in the table exactly while task_wait waits for it: it is neither
\* reaped under the waiting shell nor left behind.
THEOREM GolemsCollected == TaskSpec => []GolemsAreWaitedFor
<1>1. TaskInv => GolemsAreWaitedFor
  BY DEF TaskInv
<1> QED
  BY <1>1, Invariance, PTL

-----------------------------------------------------------------------------
(***************************************************************************)
(* What a step may do to a zombie.                                         *)
(***************************************************************************)

\* A yield leaves every slot alone whose task is neither ready nor running.
LEMMA YieldLeavesZombies ==
  ASSUME TaskInv, current # -1, Schedule(tasks), NEW i \in Ids, Zombie(i)
  PROVE  tasks'[i] = tasks[i]
<1>1. /\ \A j \in Ids : tasks[j].state = "running" => j = current
      /\ tasks[Wraith].state \in Alive
      /\ tasks \in [Ids -> TaskRecords]
      /\ current \in Ids \cup {-1}
  BY DEF TaskInv, TaskTypeOK, OneRunning, CoreTasksStay, Alive
<1>2. \A j \in Ids : tasks[j].state \notin Alive => tasks'[j] = tasks[j]
  BY <1>1, ScheduleEffect
<1> QED
  BY <1>2 DEF Zombie, Alive

\* The same for the yield of an exiting task.
LEMMA ExitLeavesZombies ==
  ASSUME TaskInv, NEW code \in Codes, TaskExitCode(code), NEW i \in Ids, Zombie(i)
  PROVE  tasks'[i] = tasks[i]
<1> DEFINE table == [tasks EXCEPT ![current].exit_code = code,
                                  ![current].state = "zombie"]
<1>1. /\ current \in Ids /\ current # -1
      /\ tasks[current].name \in {"app", "golem"}
      /\ tasks[current].state = "running"
      /\ tasks \in [Ids -> TaskRecords]
  BY RunningTask DEF TaskExitCode, TaskInv, TaskTypeOK
<1>2. i # current
  BY <1>1 DEF Zombie
<1>3. /\ table \in [Ids -> TaskRecords]
      /\ \A j \in Ids \ {current} : table[j] = tasks[j]
      /\ table[current].state = "zombie"
  BY <1>1 DEF TaskRecords, States
<1> HIDE DEF table
<1>4. /\ \A j \in Ids : table[j].state = "running" => j = current
      /\ table[Wraith].state \in Alive
      /\ current \in Ids \cup {-1}
  <2> Wraith \in Ids
    BY MaxTasksAssumption DEF Ids, Wraith
  <2>1. \A j \in Ids : tasks[j].state = "running" => j = current
    BY <1>1 DEF TaskInv, OneRunning
  <2>2. tasks[Wraith].state \in Alive /\ current # Wraith
    BY <1>1 DEF TaskInv, CoreTasksStay, Alive
  <2> QED
    BY <1>1, <1>3, <2>1, <2>2
<1>5. Schedule(table)
  BY DEF TaskExitCode, table
<1>6. table[i] = tasks[i] /\ table[i].state \notin Alive
  BY <1>2, <1>3 DEF Zombie, Alive
<1>7. \A j \in Ids : table[j].state \notin Alive => tasks'[j] = table[j]
  BY <1>3, <1>4, <1>5, ScheduleEffect
<1> QED
  BY <1>6, <1>7

\* Only a kill touches a zombie that stays: every other step leaves it or frees it.
LEMMA ZombieStep ==
  ASSUME TaskInv, TaskNext, NEW i \in Ids, Zombie(i)
  PROVE  \/ tasks'[i] = NoTask
         \/ tasks'[i] = tasks[i]
         \/ TaskKill(i) /\ waiting = -1 /\ tasks'[i].state = "zombie"
<1> tasks \in [Ids -> TaskRecords]
  BY DEF TaskInv, TaskTypeOK
<1>1. CASE Boot
  <2>1. tasks[i] = NoTask
    BY <1>1 DEF Boot, TaskInv, BeforeBoot
  <2>2. NoTask.state # "zombie"
    BY DEF NoTask
  <2> QED
    BY <2>1, <2>2 DEF Zombie
<1>2. CASE \E id \in Ids, name \in AppNames : Spawn(id, name)
  BY <1>2 DEF Spawn, TaskCreate, IsAllocSlot, Present, Zombie
<1>3. CASE \E id \in Ids : Summon(id)
  BY <1>3 DEF Summon, TaskCreate, IsAllocSlot, Present, Zombie
<1>4. CASE \E id \in Ids : TaskKill(id)
  <2>1. PICK id \in Ids : TaskKill(id)
    BY <1>4
  <2>2. CASE id = i
    BY <2>1, <2>2 DEF TaskKill, ShellFree, TaskRecords
  <2>3. CASE id # i
    BY <2>1, <2>3 DEF TaskKill
  <2> QED
    BY <2>2, <2>3
<1>5. CASE Yield
  BY <1>5, YieldLeavesZombies DEF Yield, ShellFree, Running
<1>6. CASE \E code \in Codes : TaskExitCode(code)
  BY <1>6, ExitLeavesZombies
<1>7. CASE TaskWait
  <2>1. current # -1
    BY <1>7 DEF TaskWait, Running
  <2>2. CASE TaskWaitFails
    BY <2>2 DEF TaskWaitFails
  <2>3. CASE TaskWaitCollects
    BY <2>3 DEF TaskWaitCollects, CleanupTaskSlot
  <2>4. CASE TaskWaitYields
    BY <2>1, <2>4, YieldLeavesZombies DEF TaskWaitYields
  <2> QED
    BY <1>7, <2>2, <2>3, <2>4 DEF TaskWait
<1>8. CASE WraithScan
  <2>1. i \in Workers => tasks[i].name \notin Protected
    BY DEF TaskInv, WorkerKinds, Protected, AppNames, Zombie, Present
  <2>2. i \in Workers
    BY <1>8 DEF WraithScan, Running, TaskInv, CoreTasksStay, Workers, Zombie
  <2> QED
    BY <1>8, <2>1, <2>2 DEF WraithScan, CleanupTaskSlot
<1>9. CASE WraithDelay
  BY <1>9, YieldLeavesZombies DEF WraithDelay, Running
<1> QED
  BY <1>1, <1>2, <1>3, <1>4, <1>5, <1>6, <1>7, <1>8, <1>9 DEF TaskNext

\* A task that has exited never runs again, and the exit code its parent waits for
\* stays what the task left.
THEOREM ZombiesStayDead == TaskSpec => ZombieIsFinal
<1> DEFINE Final == \A i \in Ids : Zombie(i) =>
                      \/ tasks'[i] = NoTask
                      \/ /\ tasks'[i].state = "zombie"
                         /\ waiting = i => tasks'[i].exit_code = tasks[i].exit_code
<1>1. TaskInv /\ [TaskNext]_taskVars => [Final]_taskVars
  <2> SUFFICES ASSUME TaskInv, TaskNext, NEW i \in Ids, Zombie(i)
               PROVE  \/ tasks'[i] = NoTask
                      \/ /\ tasks'[i].state = "zombie"
                         /\ waiting = i => tasks'[i].exit_code = tasks[i].exit_code
    OBVIOUS
  <2>1. i # -1
    BY DEF Ids
  <2> QED
    BY <2>1, ZombieStep DEF Zombie
<1> QED
  BY <1>1, Invariance, PTL DEF TaskSpec, ZombieIsFinal

\* task_wait ends only by collecting its zombie child and its exit code.
THEOREM WaitCollects == TaskSpec => WaitEndsByCollecting
<1> DEFINE Collects == waiting # -1 /\ waiting' = -1 =>
                         /\ Zombie(waiting)
                         /\ tasks'[waiting] = NoTask
                         /\ exit_code' = tasks[waiting].exit_code
<1>1. TaskInv /\ [TaskNext]_taskVars => [Collects]_taskVars
  <2> SUFFICES ASSUME TaskInv, TaskNext, waiting # -1, waiting' = -1
               PROVE  /\ Zombie(waiting)
                      /\ tasks'[waiting] = NoTask
                      /\ exit_code' = tasks[waiting].exit_code
    OBVIOUS
  <2>1. TaskWait
    BY DEF TaskNext, Boot, Spawn, Summon, TaskKill, Yield, TaskExitCode, WraithScan,
           WraithDelay, ShellFree, Ids
  <2>2. current = Shell
    BY <2>1, WhoRuns DEF TaskWait
  <2>3. waiting \in Ids /\ ~WaitedGone
    BY <2>2, WaitedIsChild DEF WaitedGone, Workers
  <2>4. TaskWaitCollects
    BY <2>1, <2>3 DEF TaskWait, TaskWaitYields
  <2> QED
    BY <2>3, <2>4 DEF TaskWaitCollects, CleanupTaskSlot, TaskInv, TaskTypeOK
<1> QED
  BY <1>1, Invariance, PTL DEF TaskSpec, WaitEndsByCollecting

-----------------------------------------------------------------------------
(***************************************************************************)
(* Tasks implements Lifecycle: scheduling stutters, and every other step   *)
(* is the step of the abstract life cycle that it looks like.              *)
(***************************************************************************)
PhaseMap == [i \in Workers |-> Phase(i)]
CodeMap == [i \in Workers |-> tasks[i].exit_code]

\* A step in which no worker's phase or code changes, nor what the shell waits for,
\* is a stuttering step.
LEMMA Stutters ==
  ASSUME \A i \in Workers : Phase(i)' = Phase(i) /\ tasks'[i].exit_code = tasks[i].exit_code,
         UNCHANGED <<waiting, exit_code>>
  PROVE  UNCHANGED Life!vars
<1>1. PhaseMap' = PhaseMap /\ CodeMap' = CodeMap
  BY DEF PhaseMap, CodeMap
<1> QED
  BY <1>1 DEF PhaseMap, CodeMap, Life!vars

\* A yield does not change a phase.
LEMMA YieldStutters ==
  ASSUME TaskInv, current # -1, Schedule(tasks), UNCHANGED <<waiting, exit_code>>
  PROVE  UNCHANGED Life!vars
<1>1. /\ \A j \in Ids : tasks[j].state = "running" => j = current
      /\ tasks[Wraith].state \in Alive
      /\ tasks \in [Ids -> TaskRecords]
      /\ current \in Ids \cup {-1}
  BY DEF TaskInv, TaskTypeOK, OneRunning, CoreTasksStay, Alive
<1>2. \A j \in Ids : tasks'[j].state \in Alive <=> tasks[j].state \in Alive
  BY <1>1, ScheduleEffect
<1>b. \A j \in Ids : tasks'[j].exit_code = tasks[j].exit_code
  BY <1>1, ScheduleEffect
<1>a. \A j \in Ids : tasks[j].state \notin Alive => tasks'[j] = tasks[j]
  BY <1>1, ScheduleEffect
<1>3. ASSUME NEW j \in Workers PROVE Phase(j)' = Phase(j)
  <2>1. CASE tasks[j].state \in Alive
    <3>1. tasks'[j].state \in Alive
      BY <1>2, <2>1 DEF Workers
    <3>2. Phase(j) = "live"
      BY <2>1 DEF Phase, Alive
    <3>3. Phase(j)' = "live"
      BY <3>1 DEF Phase, Alive
    <3> QED
      BY <3>2, <3>3
  <2>2. CASE tasks[j].state \notin Alive
    <3>1. tasks'[j] = tasks[j]
      BY <1>a, <2>2 DEF Workers
    <3> QED
      BY <3>1 DEF Phase
  <2> QED
    BY <2>1, <2>2
<1>4. \A j \in Workers : tasks'[j].exit_code = tasks[j].exit_code
  BY <1>b DEF Workers
<1> QED
  BY <1>3, <1>4, Stutters

\* A step that changes one slot changes one phase and one code.
LEMMA OnePhaseChanges ==
  ASSUME NEW id \in Workers, \A i \in Workers \ {id} : tasks'[i] = tasks[i]
  PROVE  /\ PhaseMap' = [PhaseMap EXCEPT ![id] = Phase(id)']
         /\ CodeMap' = [CodeMap EXCEPT ![id] = tasks'[id].exit_code]
<1>1. \A i \in Workers \ {id} : Phase(i)' = Phase(i)
  BY DEF Phase
<1> QED
  BY <1>1 DEF PhaseMap, CodeMap

LEMMA CreateRefines ==
  ASSUME TaskInv, ShellFree, NEW id \in Ids, NEW name \in AppNames \cup {"golem"},
         NEW autoreap \in BOOLEAN, TaskCreate(id, name, autoreap),
         waiting' = waiting \/ waiting' = id, UNCHANGED exit_code
  PROVE  Life!Next
<1>1. /\ tasks \in [Ids -> TaskRecords] /\ current # -1 /\ waiting = -1
  BY DEF TaskInv, TaskTypeOK, ShellFree, Running
<1>2. /\ tasks[id].state = "dead" /\ tasks[id] = NoTask /\ NoTask.exit_code = 0
  BY DEF TaskCreate, IsAllocSlot, Present, TaskInv, EmptySlots, NoTask
<1>3. id \in Workers
  BY <1>1, <1>2 DEF TaskInv, CoreTasksStay, Workers
<1>4. /\ tasks'[id] = NewTask(name, current, autoreap)
      /\ \A i \in Workers \ {id} : tasks'[i] = tasks[i]
  BY <1>1 DEF TaskCreate, Workers
<1>5. tasks'[id].state = "ready" /\ tasks'[id].exit_code = 0
  BY <1>4 DEF NewTask
<1>6. Phase(id) = "free" /\ Phase(id)' = "live"
  BY <1>2, <1>5 DEF Phase
<1>7. /\ PhaseMap' = [PhaseMap EXCEPT ![id] = "live"]
      /\ CodeMap' = CodeMap
  BY <1>2, <1>3, <1>4, <1>5, <1>6, OnePhaseChanges DEF CodeMap
<1>8. PhaseMap[id] = "free"
  BY <1>3, <1>6 DEF PhaseMap
<1>9. CASE waiting' = waiting
  <2>1. Life!Detach(id)
    BY <1>1, <1>7, <1>8, <1>9 DEF Life!Detach, PhaseMap, CodeMap
  <2> QED
    BY <1>3, <2>1 DEF Life!Next
<1>10. CASE waiting' = id
  <2>1. Life!Join(id)
    BY <1>1, <1>7, <1>8, <1>10 DEF Life!Join, PhaseMap, CodeMap
  <2> QED
    BY <1>3, <2>1 DEF Life!Next
<1> QED
  BY <1>9, <1>10

LEMMA KillRefines ==
  ASSUME TaskInv, NEW id \in Ids, TaskKill(id)
  PROVE  Life!Next
<1>1. /\ tasks \in [Ids -> TaskRecords] /\ current # -1 /\ waiting = -1
      /\ UNCHANGED <<waiting, exit_code>>
  BY DEF TaskInv, TaskTypeOK, TaskKill, ShellFree, Running
<1>2. id \in Workers
  BY <1>1 DEF TaskInv, CoreTasksStay, Workers, TaskKill, Protected
<1>3. /\ tasks'[id].state = "zombie" /\ tasks'[id].exit_code = TASK_EXIT_KILLED
      /\ \A i \in Workers \ {id} : tasks'[i] = tasks[i]
  BY <1>1 DEF TaskKill, TaskRecords, Workers
<1>4. Phase(id) \in {"live", "exited"} /\ Phase(id)' = "exited"
  BY <1>3 DEF Phase, TaskKill, Present
<1>5. /\ PhaseMap' = [PhaseMap EXCEPT ![id] = "exited"]
      /\ CodeMap' = [CodeMap EXCEPT ![id] = TASK_EXIT_KILLED]
  BY <1>2, <1>3, <1>4, OnePhaseChanges
<1>6. PhaseMap[id] \in {"live", "exited"}
  BY <1>2, <1>4 DEF PhaseMap
<1>7. Life!Exit(id, TASK_EXIT_KILLED)
  BY <1>1, <1>5, <1>6 DEF Life!Exit, PhaseMap, CodeMap
<1>8. TASK_EXIT_KILLED \in Codes
  BY DEF Codes
<1> QED
  BY <1>2, <1>7, <1>8 DEF Life!Next

LEMMA ExitRefines ==
  ASSUME TaskInv, NEW code \in Codes, TaskExitCode(code)
  PROVE  Life!Next
<1> DEFINE table == [tasks EXCEPT ![current].exit_code = code,
                                  ![current].state = "zombie"]
<1>1. /\ current \in Ids /\ current # -1
      /\ tasks[current].name \in {"app", "golem"}
      /\ tasks[current].state = "running"
      /\ tasks \in [Ids -> TaskRecords]
      /\ UNCHANGED <<waiting, exit_code>>
  BY RunningTask DEF TaskExitCode, TaskInv, TaskTypeOK
<1>2. current \in Workers
  BY <1>1 DEF TaskInv, CoreTasksStay, Workers
<1>3. /\ table \in [Ids -> TaskRecords]
      /\ \A j \in Ids \ {current} : table[j] = tasks[j]
      /\ table[current].state = "zombie" /\ table[current].exit_code = code
  BY <1>1 DEF TaskRecords, States
<1> HIDE DEF table
<1>4. /\ \A j \in Ids : table[j].state = "running" => j = current
      /\ table[Wraith].state \in Alive
      /\ current \in Ids \cup {-1}
  <2> Wraith \in Ids
    BY MaxTasksAssumption DEF Ids, Wraith
  <2>1. \A j \in Ids : tasks[j].state = "running" => j = current
    BY <1>1 DEF TaskInv, OneRunning
  <2>2. tasks[Wraith].state \in Alive /\ current # Wraith
    BY <1>1 DEF TaskInv, CoreTasksStay, Alive
  <2> QED
    BY <1>1, <1>3, <2>1, <2>2
<1>5. Schedule(table)
  BY DEF TaskExitCode, table
<1>6. \A j \in Ids : tasks'[j].state \in Alive <=> table[j].state \in Alive
  BY <1>3, <1>4, <1>5, ScheduleEffect
<1>b. \A j \in Ids : tasks'[j].exit_code = table[j].exit_code
  BY <1>3, <1>4, <1>5, ScheduleEffect
<1>a. \A j \in Ids : table[j].state \notin Alive => tasks'[j] = table[j]
  BY <1>3, <1>4, <1>5, ScheduleEffect
<1>7. tasks'[current].state = "zombie" /\ tasks'[current].exit_code = code
  <2>1. table[current].state \notin Alive
    BY <1>3 DEF Alive
  <2>2. tasks'[current] = table[current]
    BY <1>1, <1>a, <2>1
  <2> QED
    BY <1>3, <2>2
<1>8. ASSUME NEW j \in Workers, j # current
      PROVE  Phase(j)' = Phase(j) /\ tasks'[j].exit_code = tasks[j].exit_code
  <2>1. j \in Ids /\ table[j] = tasks[j]
    BY <1>3, <1>8 DEF Workers
  <2>2. CASE tasks[j].state \in Alive
    <3>1. tasks'[j].state \in Alive
      BY <1>6, <2>1, <2>2
    <3>2. Phase(j) = "live"
      BY <2>2 DEF Phase, Alive
    <3>3. Phase(j)' = "live"
      BY <3>1 DEF Phase, Alive
    <3>4. tasks'[j].exit_code = table[j].exit_code
      BY <1>b, <2>1
    <3> QED
      BY <2>1, <3>2, <3>3, <3>4
  <2>3. CASE tasks[j].state \notin Alive
    <3>1. tasks'[j] = tasks[j]
      BY <1>a, <2>1, <2>3
    <3> QED
      BY <3>1 DEF Phase
  <2> QED
    BY <2>2, <2>3
<1>9. Phase(current) = "live"
  BY <1>1 DEF Phase
<1>10. \A j \in Workers : PhaseMap'[j] = IF j = current THEN "exited" ELSE PhaseMap[j]
  <2>1. ASSUME NEW j \in Workers PROVE PhaseMap'[j] = IF j = current THEN "exited" ELSE PhaseMap[j]
    <3>1. CASE j = current
      <4>1. PhaseMap'[j] = Phase(j)'
        BY DEF PhaseMap
      <4>2. tasks'[j].state = "zombie"
        BY <1>7, <3>1
      <4>3. Phase(j)' = "exited"
        BY <4>2 DEF Phase
      <4> QED
        BY <3>1, <4>1, <4>3
    <3>2. CASE j # current
      BY <1>8, <3>2 DEF PhaseMap
    <3> QED
      BY <3>1, <3>2
  <2> QED
    BY <2>1
<1>11. PhaseMap' = [PhaseMap EXCEPT ![current] = "exited"]
  BY <1>10 DEF PhaseMap
<1>12. CodeMap' = [CodeMap EXCEPT ![current] = code]
  BY <1>7, <1>8 DEF CodeMap
<1>13. PhaseMap[current] = "live"
  BY <1>2, <1>9 DEF PhaseMap
<1>14. Life!Exit(current, code)
  BY <1>1, <1>11, <1>12, <1>13 DEF Life!Exit, PhaseMap, CodeMap
<1> QED
  BY <1>2, <1>14 DEF Life!Next

\* Freeing a zombie's slot: a reclaim, or what remains of a collect.
LEMMA CleanupPhase ==
  ASSUME TaskInv, NEW id \in Workers, Zombie(id), CleanupTaskSlot(id)
  PROVE  /\ PhaseMap[id] = "exited"
         /\ CodeMap[id] = tasks[id].exit_code
         /\ PhaseMap' = [PhaseMap EXCEPT ![id] = "free"]
         /\ CodeMap' = [CodeMap EXCEPT ![id] = 0]
<1>1. id \in Ids /\ tasks \in [Ids -> TaskRecords]
  BY DEF Workers, TaskInv, TaskTypeOK
<1>2. /\ tasks'[id] = NoTask
      /\ \A i \in Workers \ {id} : tasks'[i] = tasks[i]
  BY <1>1 DEF CleanupTaskSlot, Workers
<1>3. tasks'[id].state = "dead" /\ tasks'[id].exit_code = 0
  <2>1. NoTask.state = "dead" /\ NoTask.exit_code = 0
    BY DEF NoTask
  <2> QED
    BY <1>2, <2>1
<1>4. Phase(id) = "exited" /\ Phase(id)' = "free"
  BY <1>3 DEF Phase, Zombie
<1> QED
  BY <1>2, <1>3, <1>4, OnePhaseChanges DEF PhaseMap, CodeMap

LEMMA WaitRefines ==
  ASSUME TaskInv, TaskWait
  PROVE  Life!Next \/ UNCHANGED Life!vars
<1>1. current = Shell /\ current # -1 /\ waiting # -1
  BY WhoRuns, RunningTask DEF TaskWait
<1>2. waiting \in Workers /\ ~WaitedGone
  BY <1>1, WaitedIsChild DEF WaitedGone
<1>3. CASE TaskWaitCollects
  <2>1. /\ Zombie(waiting) /\ CleanupTaskSlot(waiting) /\ waiting' = -1
        /\ exit_code' = tasks[waiting].exit_code
    BY <1>3 DEF TaskWaitCollects
  <2>2. PICK s \in Workers : s = waiting
    BY <1>2
  <2>3. /\ Zombie(s) /\ CleanupTaskSlot(s) /\ waiting = s
        /\ exit_code' = tasks[s].exit_code
    BY <2>1, <2>2
  <2>4. Life!Collect(s)
    BY <2>1, <2>3, CleanupPhase DEF Life!Collect, PhaseMap, CodeMap
  <2> QED
    BY <2>4 DEF Life!Next
<1>4. CASE TaskWaitYields
  BY <1>1, <1>4, YieldStutters DEF TaskWaitYields
<1> QED
  BY <1>2, <1>3, <1>4 DEF TaskWait

LEMMA ScanRefines ==
  ASSUME TaskInv, WraithScan
  PROVE  Life!Next \/ UNCHANGED Life!vars
<1>1. /\ current # -1 /\ scan \in Ids /\ UNCHANGED <<waiting, exit_code>>
  BY MaxTasksAssumption DEF WraithScan, Running, TaskInv, TaskTypeOK, Ids
<1>2. CASE WraithReaps(scan)
  <2>1. scan \in Workers /\ waiting # scan /\ Zombie(scan) /\ CleanupTaskSlot(scan)
    BY <1>1, <1>2, WraithTakesAutoreap DEF WraithScan, WraithReaps
  <2>2. PICK s \in Workers : s = scan
    BY <2>1
  <2>3. waiting # s /\ Zombie(s) /\ CleanupTaskSlot(s)
    BY <2>1, <2>2
  <2>4. Life!Reclaim(s)
    BY <1>1, <2>3, CleanupPhase DEF Life!Reclaim, PhaseMap, CodeMap
  <2> QED
    BY <2>4 DEF Life!Next
<1>3. CASE ~WraithReaps(scan)
  <2>1. scan \in Workers /\ Present(scan) => tasks[scan].name \notin Protected
    BY DEF TaskInv, WorkerKinds, Protected, AppNames
  <2>2. scan \notin Workers => ~Zombie(scan)
    BY <1>1 DEF TaskInv, CoreTasksStay, Workers, Zombie
  <2>3. UNCHANGED tasks
    BY <1>3, <2>1, <2>2 DEF WraithScan, Zombie, Present
  <2>4. \A i \in Workers : Phase(i)' = Phase(i)
    BY <2>3 DEF Phase
  <2> QED
    BY <1>1, <2>3, <2>4, Stutters
<1> QED
  BY <1>2, <1>3

LEMMA BootRefines ==
  ASSUME TaskInv, Boot
  PROVE  UNCHANGED Life!vars
<1>1. /\ \A i \in Ids : tasks[i] = NoTask
      /\ UNCHANGED <<waiting, exit_code>>
  BY DEF TaskInv, BeforeBoot, Boot
<1>3. \A i \in Workers : tasks'[i] = NoTask
  BY BootEffect
<1>4. \A i \in Workers : tasks'[i] = tasks[i]
  BY <1>1, <1>3 DEF Workers
<1>5. \A i \in Workers : Phase(i)' = Phase(i)
  BY <1>4 DEF Phase
<1> QED
  BY <1>1, <1>4, <1>5, Stutters

LEMMA InitRefines == TaskInit => Life!Init
<1> SUFFICES ASSUME TaskInit PROVE Life!Init
  OBVIOUS
<1>1. NoTask.state = "dead" /\ NoTask.exit_code = 0
  BY DEF NoTask
<1>2. \A i \in Workers : Phase(i) = "free" /\ tasks[i].exit_code = 0
  BY <1>1 DEF TaskInit, Phase, Workers
<1> QED
  BY <1>2 DEF TaskInit, Life!Init

LEMMA NextRefines == TaskInv /\ [TaskNext]_taskVars => [Life!Next]_Life!vars
<1> SUFFICES ASSUME TaskInv, [TaskNext]_taskVars
             PROVE  Life!Next \/ UNCHANGED Life!vars
  OBVIOUS
<1>1. CASE Boot
  BY <1>1, BootRefines
<1>2. CASE \E id \in Ids, name \in AppNames : Spawn(id, name)
  BY <1>2, CreateRefines DEF Spawn
<1>3. CASE \E id \in Ids : Summon(id)
  BY <1>3, CreateRefines DEF Summon
<1>4. CASE \E id \in Ids : TaskKill(id)
  BY <1>4, KillRefines
<1>5. CASE Yield
  BY <1>5, YieldStutters DEF Yield, ShellFree, Running
<1>6. CASE \E code \in Codes : TaskExitCode(code)
  BY <1>6, ExitRefines
<1>7. CASE TaskWait
  BY <1>7, WaitRefines
<1>8. CASE WraithScan
  BY <1>8, ScanRefines
<1>9. CASE WraithDelay
  BY <1>9, YieldStutters DEF WraithDelay, Running
<1>10. CASE UNCHANGED taskVars
  <2>1. \A i \in Workers : Phase(i)' = Phase(i)
    BY <1>10 DEF Phase, taskVars
  <2> QED
    BY <1>10, <2>1, Stutters DEF taskVars
<1> QED
  BY <1>1, <1>2, <1>3, <1>4, <1>5, <1>6, <1>7, <1>8, <1>9, <1>10 DEF TaskNext

\* The task subsystem implements the life cycle of Lifecycle (its safety part).
THEOREM TasksImplementLifecycle == TaskSpec => Life!Spec
  BY InitRefines, NextRefines, Invariance, PTL DEF TaskSpec, Life!Spec

-----------------------------------------------------------------------------
\* The kernel around the table.

LoopTypes ==
  /\ unseen \subseteq Ids
  /\ pc \in [Ids -> PCs] /\ todo \in 0 .. ScriptMax
  /\ buffers \subseteq Ids /\ images \subseteq Ids
  /\ got \in Ids \cup {-1}

\* Until the shell has registered, its loop has not begun and nobody has the focus; it
\* never leaves Janus.
ShellRegisters ==
  /\ ShellUp <=> pc[Shell] \notin {"none", "start"}
  /\ ~ShellUp => focused = -1
  /\ current = -1 => ~ShellUp

Sessions ==
  /\ kind \in [Ids -> Kinds \ {"system"}]
  /\ focused \in Ids \cup {-1}
  /\ ShellRegisters
  /\ FocusOnPresentTask
  /\ EntriesMatchTasks

KernelInv == TaskInv /\ LoopTypes /\ Sessions /\ ImagesMatchGolems

-----------------------------------------------------------------------------
\* Kernel and Tasks.

LEMMA InitIsTaskInit == Init => TaskInit
BY DEF Init

LEMMA StepsAreTaskSteps == [Next]_vars => [TaskNext]_taskVars
<1> SUFFICES ASSUME Next PROVE [TaskNext]_taskVars
  BY DEF vars, taskVars
<1>1. "app" \in AppNames /\ "heartbeat" \in AppNames /\ 0 \in Codes
  BY DEF AppNames, Codes
<1>2. CASE KernelBoot
  BY <1>2 DEF KernelBoot, TaskNext
<1>3. CASE WraithStep
  BY <1>3 DEF WraithStep, TaskNext
<1>4. CASE PollEmpty \/ PollAltF1 \/ ShellIdle \/ LineAbandoned \/ CommandsDone \/ OtherYield
  BY <1>4 DEF PollEmpty, PollAltF1, ShellIdle, LineAbandoned, CommandsDone, OtherYield, TaskNext
<1>5. CASE AppStart \/ EditRedraw \/ EditKey \/ AskKey \/ ShellStart \/ ShellPrompt
             \/ LineKey \/ LineEnter \/ GolemGetch
  BY <1>5 DEF AppStart, EditRedraw, EditKey, AskKey, ShellStart, ShellPrompt,
              LineKey, LineEnter, GolemGetch
<1>6. CASE AppStartFails \/ QuitKey \/ GolemExit
  BY <1>1, <1>6 DEF AppStartFails, QuitKey, GolemExit, TaskNext
<1>7. CASE ShellCommand
  <2>1. CASE CmdOther \/ CmdJanusNext \/ CmdAsk \/ CmdEdit \/ \E id \in Ids : CmdJanusFocus(id)
    BY <2>1 DEF CmdOther, CmdJanusNext, CmdAsk, CmdEdit, CmdJanusFocus
  <2>2. CASE CmdYield
    BY <2>2 DEF CmdYield, TaskNext
  <2>3. CASE \E id \in Ids : CmdSpawnHeartbeat(id) \/ CmdJanusSpawn(id)
    BY <1>1, <2>3 DEF CmdSpawnHeartbeat, CmdJanusSpawn, TaskNext
  <2>4. CASE \E id \in Ids : CmdSummon(id) \/ CmdKill(id)
    BY <2>4 DEF CmdSummon, CmdKill, TaskNext
  <2> QED BY <1>7, <2>1, <2>2, <2>3, <2>4 DEF ShellCommand
<1>8. CASE ShellWait
  BY <1>8 DEF ShellWait, TaskNext
<1> QED BY <1>2, <1>3, <1>4, <1>5, <1>6, <1>7, <1>8 DEF Next

\* Whatever is proved of Tasks holds of the kernel: what the loops of the program do to
\* the task table are steps of Tasks.
THEOREM KernelImplementsTasks == Spec => TaskSpec
BY InitIsTaskInit, StepsAreTaskSteps, PTL DEF Spec, TaskSpec

-----------------------------------------------------------------------------
\* What the operations on the table leave.

Kept(i) == tasks'[i].name = tasks[i].name /\ (Present(i) => Present(i)')

LEMMA Slots == Wraith \in Ids /\ Shell \in Ids /\ -1 \notin Ids /\ Shell \notin Workers
BY MaxTasksAssumption DEF Ids, Wraith, Shell, Workers

LEMMA ScheduleKeeps ==
  ASSUME TaskInv, current # -1, Schedule(tasks)
  PROVE  \A i \in Ids : Kept(i)
<1>1. /\ \A i \in Ids : tasks[i].state = "running" => i = current
      /\ tasks[Wraith].state \in Alive
      /\ tasks \in [Ids -> TaskRecords] /\ current \in Ids \cup {-1}
  BY DEF TaskInv, TaskTypeOK, OneRunning, CoreTasksStay, Alive
<1>2. \A i \in Ids : /\ tasks'[i].name = tasks[i].name
                     /\ tasks'[i].state \in Alive <=> tasks[i].state \in Alive
                     /\ tasks[i].state \notin Alive => tasks'[i] = tasks[i]
  BY <1>1, ScheduleEffect
<1> QED BY <1>2 DEF Kept, Present, Alive

LEMMA YieldKeeps ==
  ASSUME TaskInv, Yield
  PROVE  \A i \in Ids : Kept(i)
BY ScheduleKeeps DEF Yield, ShellFree, Running

LEMMA ExitKeeps ==
  ASSUME TaskInv, NEW code \in Codes, TaskExitCode(code)
  PROVE  current \in Workers /\ \A i \in Ids : Kept(i)
<1> DEFINE table == [tasks EXCEPT ![current].exit_code = code, ![current].state = "zombie"]
<1>1. Schedule(table) /\ Running(AppNames \cup {"golem"})
  BY DEF TaskExitCode, Running, AppNames
<1>2. current \in Workers /\ current \in Ids /\ current # -1 /\ tasks \in [Ids -> TaskRecords]
  BY <1>1, WhoRuns, RunningTask DEF TaskInv, TaskTypeOK
<1>3. /\ table \in [Ids -> TaskRecords]
      /\ \A i \in Ids \ {current} : table[i] = tasks[i]
      /\ table[current].state = "zombie" /\ table[current].name = tasks[current].name
  BY <1>2 DEF TaskRecords, States
<1> HIDE DEF table
<1>4. /\ \A i \in Ids : table[i].state = "running" => i = current
      /\ table[Wraith].state \in Alive
  BY <1>2, <1>3, Slots DEF TaskInv, OneRunning, CoreTasksStay, Alive, Workers
<1>5. \A i \in Ids : /\ tasks'[i].name = table[i].name
                     /\ tasks'[i].state \in Alive <=> table[i].state \in Alive
                     /\ table[i].state \notin Alive => tasks'[i] = table[i]
  BY <1>1, <1>2, <1>3, <1>4, ScheduleEffect
<1>6. \A i \in Ids : table[i].name = tasks[i].name /\ (tasks[i].state # "dead" => table[i].state # "dead")
  BY <1>3
<1> QED BY <1>2, <1>5, <1>6 DEF Kept, Present, Alive

LEMMA KillKeeps ==
  ASSUME TaskInv, NEW id \in Ids, TaskKill(id)
  PROVE  \A i \in Ids : Kept(i)
BY DEF TaskInv, TaskTypeOK, TaskRecords, TaskKill, Kept, Present

LEMMA CreateKeeps ==
  ASSUME TaskInv, current # -1, NEW id \in Ids, NEW name, NEW autoreap, TaskCreate(id, name, autoreap)
  PROVE  /\ id # Shell /\ tasks[id].name = ""
         /\ tasks'[id].name = name /\ Present(id)'
         /\ \A i \in Ids \ {id} : Kept(i)
<1>1. tasks[id] = NoTask /\ ~Present(id)
  BY DEF TaskCreate, IsAllocSlot, TaskInv, EmptySlots
<1>2. tasks'[id] = NewTask(name, current, autoreap) /\ \A i \in Ids \ {id} : tasks'[i] = tasks[i]
  BY DEF TaskCreate, TaskInv, TaskTypeOK
<1>3. id # Shell
  BY <1>1 DEF TaskInv, CoreTasksStay, Present
<1>4. /\ NoTask.name = ""
      /\ NewTask(name, current, autoreap).name = name
      /\ NewTask(name, current, autoreap).state = "ready"
  BY DEF NoTask, NewTask
<1> QED BY <1>1, <1>2, <1>3, <1>4 DEF Kept, Present

LEMMA CleanupKeeps ==
  ASSUME TaskInv, NEW id \in Ids, CleanupTaskSlot(id)
  PROVE  /\ tasks'[id].name = ""
         /\ \A i \in Ids \ {id} : Kept(i)
BY DEF CleanupTaskSlot, TaskInv, TaskTypeOK, NoTask, Kept, Present

-----------------------------------------------------------------------------
\* Janus and the table.

ShellStays == pc'[Shell] \in {"none", "start"} <=> pc[Shell] \in {"none", "start"}

\* While anything runs, the shell is in the table.
LEMMA ShellIsPresent ==
  ASSUME TaskInv, current # -1
  PROVE  Present(Shell) /\ tasks[Shell].name = "shell"
BY DEF TaskInv, CoreTasksStay, Present

LEMMA StillRuns ==
  ASSUME TaskInv, TaskInv', current # -1, Kept(Shell)
  PROVE  current' # -1
<1>1. Present(Shell)'
  BY ShellIsPresent DEF Kept
<1>2. NoTask.state = "dead"
  BY DEF NoTask
<1> QED BY <1>1, <1>2, Slots DEF TaskInv, BeforeBoot, Present

\* Nothing happens to a session.
LEMMA QuietSessions ==
  ASSUME TaskInv, TaskInv', Sessions, current # -1,
         \A i \in Ids : Kept(i), ShellStays, UNCHANGED <<kind, focused>>
  PROVE  Sessions'
<1>1. current' # -1
  BY StillRuns, Slots
<1>2. ShellRegisters'
  BY <1>1 DEF Sessions, ShellRegisters, ShellStays, ShellUp
<1>3. FocusOnPresentTask'
  BY DEF Sessions, FocusOnPresentTask, ShellUp, Kept
<1>4. EntriesMatchTasks'
  BY DEF Sessions, EntriesMatchTasks, Kept
<1> QED BY <1>2, <1>3, <1>4 DEF Sessions

\* The focus goes to a task that is registered and stays in its slot; the shell, which
\* is always one, is there to take it.
LEMMA FocusNextSessions ==
  ASSUME TaskInv, TaskInv', Sessions, current # -1, ShellUp,
         NEW from \in {focused, -1}, NEW id \in Ids, id # Shell,
         NEW kinds \in {kind, [kind EXCEPT ![id] = "none"]},
         kind' = kinds, FocusNext(from, kinds), ShellStays,
         \A i \in Ids : kinds[i] # "none" => Kept(i)
  PROVE  Sessions' /\ (unseen \subseteq Ids => unseen' \subseteq Ids)
<1> DEFINE others == {i \in Ids : kinds[i] \notin {"none", "system"} /\ Present(i)}
<1>1. /\ kinds \in [Ids -> Kinds \ {"system"}] /\ kinds[Shell] = kind[Shell]
      /\ \A i \in Ids : kinds[i] \in {"none", kind[i]}
  BY Slots DEF Sessions, Kinds
<1>2. Shell \in others /\ Kept(Shell)
  BY <1>1, Slots, ShellIsPresent DEF ShellUp, Sessions, Kinds
<1>3. PICK next \in others : MoveFocus(from, next)
  BY <1>2 DEF FocusNext
<1>4. focused' = next /\ next \in Ids /\ kinds[next] \in {"shell", "app"} /\ Present(next)'
  BY <1>1, <1>3 DEF MoveFocus, Kinds, Kept
<1>5. current' # -1
  BY <1>2, StillRuns
<1>6. ShellRegisters'
  BY <1>1, <1>5 DEF Sessions, ShellRegisters, ShellStays, ShellUp
<1>7. FocusOnPresentTask'
  BY <1>4, Slots DEF FocusOnPresentTask
<1>8. EntriesMatchTasks'
  BY <1>1 DEF Sessions, EntriesMatchTasks, Kept
<1>9. unseen \subseteq Ids => unseen' \subseteq Ids
  BY <1>3 DEF MoveFocus
<1> QED BY <1>1, <1>4, <1>6, <1>7, <1>8, <1>9 DEF Sessions

\* janus_forget_task, for a task that leaves its slot or is about to.
LEMMA ForgetSessions ==
  ASSUME TaskInv, TaskInv', Sessions, current # -1, NEW id \in Workers,
         JanusForgetTask(id), ShellStays, \A i \in Ids \ {id} : Kept(i)
  PROVE  Sessions' /\ (unseen \subseteq Ids => unseen' \subseteq Ids)
<1> DEFINE kinds == [kind EXCEPT ![id] = "none"]
<1>1. id \in Ids /\ id # Shell /\ id # -1 /\ kind' = kinds
  BY Slots DEF JanusForgetTask, Workers
<1>2. /\ kinds \in [Ids -> Kinds \ {"system"}] /\ kinds[Shell] = kind[Shell] /\ kinds[id] = "none"
      /\ \A i \in Ids \ {id} : kinds[i] = kind[i]
  BY <1>1, Slots DEF Sessions, Kinds
<1>3. CASE focused = id
  <2>1. ShellUp
    BY <1>1, <1>3 DEF Sessions, ShellRegisters
  <2>2. \A i \in Ids : kinds[i] # "none" => Kept(i)
    BY <1>2
  <2>3. FocusNext(-1, kinds)
    BY <1>3 DEF JanusForgetTask
  <2> HIDE DEF kinds
  <2>4. kinds \in {kind, [kind EXCEPT ![id] = "none"]}
    BY DEF kinds
  <2> QED BY <1>1, <2>1, <2>2, <2>3, <2>4, FocusNextSessions
<1>4. CASE focused # id
  <2>1. UNCHANGED <<focused, unseen>>
    BY <1>4 DEF JanusForgetTask
  <2>2. current' # -1
    BY <1>1, StillRuns, Slots
  <2> HIDE DEF kinds
  <2>3. ShellRegisters'
    BY <1>1, <1>2, <2>1, <2>2 DEF Sessions, ShellRegisters, ShellStays, ShellUp
  <2>4. FocusOnPresentTask'
    BY <1>1, <1>2, <1>4, <2>1 DEF Sessions, FocusOnPresentTask, ShellUp, Kept
  <2>5. EntriesMatchTasks'
    BY <1>1, <1>2 DEF Sessions, EntriesMatchTasks, Kept
  <2> QED BY <1>1, <1>2, <2>1, <2>3, <2>4, <2>5 DEF Sessions
<1> QED BY <1>3, <1>4

\* The shell gives the focus to a task of its choice.
LEMMA FocusTaskSessions ==
  ASSUME TaskInv, TaskInv', Sessions, ShellUp, current # -1, NEW id \in Ids,
         JanusFocusTask(id), UNCHANGED tasks, ShellStays
  PROVE  Sessions' /\ (unseen \subseteq Ids => unseen' \subseteq Ids)
<1>1. \A i \in Ids : Kept(i)
  BY DEF Kept, Present
<1>2. CASE ~CanFocus(id)
  BY <1>1, <1>2, QuietSessions DEF JanusFocusTask
<1>3. CASE CanFocus(id)
  <2>1. focused' = id /\ UNCHANGED kind /\ (unseen \subseteq Ids => unseen' \subseteq Ids)
    BY <1>3 DEF JanusFocusTask, MoveFocus
  <2>2. kind[id] \in {"shell", "app"}
    BY <1>3 DEF CanFocus, Sessions, Kinds
  <2>3. Present(id)
    <3>1. NoTask.name = ""
      BY DEF NoTask
    <3> QED BY <2>2, <3>1, ShellIsPresent DEF Sessions, EntriesMatchTasks, TaskInv, EmptySlots
  <2>4. current' # -1
    BY <1>1, StillRuns, Slots
  <2>5. FocusOnPresentTask'
    BY <2>1, <2>2, <2>3, Slots DEF FocusOnPresentTask, Present
  <2>6. ShellRegisters' /\ EntriesMatchTasks'
    BY <2>1, <2>4 DEF Sessions, ShellRegisters, ShellStays, ShellUp, EntriesMatchTasks
  <2> QED BY <2>1, <2>5, <2>6 DEF Sessions
<1> QED BY <1>2, <1>3

-----------------------------------------------------------------------------
\* The steps.

LEMMA AtPlace ==
  ASSUME TaskInv, NEW places, At(places)
  PROVE  current \in Ids /\ current # -1 /\ pc[current] \in places
BY DEF At, TaskInv, TaskTypeOK

LEMMA WorkersAreNotShell ==
  ASSUME TaskInv, NEW names \in SUBSET (AppNames \cup {"golem"}), Running(names)
  PROVE  current \in Workers /\ current # Shell /\ current # -1
<1>1. Running(AppNames \cup {"golem"})
  BY DEF Running
<1> QED BY <1>1, WhoRuns, Slots DEF Running

LEMMA ShellRuns ==
  ASSUME TaskInv, ShellFree
  PROVE  current = Shell /\ current # -1
BY WhoRuns DEF ShellFree, Running

LEMMA GoToStays ==
  ASSUME LoopTypes, current \in Ids, NEW place, GoTo(place),
         current = Shell => {place, pc[Shell]} \cap {"none", "start"} = {}
  PROVE  ShellStays
BY Slots DEF LoopTypes, GoTo, ShellStays

\* A step that leaves the names in the table, Janus and the images.
LEMMA QuietStep ==
  ASSUME KernelInv, TaskInv', current # -1,
         \A i \in Ids : Kept(i), ShellStays, UNCHANGED <<kind, focused, images>>
  PROVE  Sessions' /\ ImagesMatchGolems'
<1>1. Sessions'
  BY QuietSessions DEF KernelInv
<1>2. ImagesMatchGolems'
  BY DEF KernelInv, ImagesMatchGolems, Kept
<1> QED BY <1>1, <1>2

LEMMA SameTable ==
  ASSUME UNCHANGED tasks
  PROVE  \A i \in Ids : Kept(i)
BY DEF Kept, Present

ShellQuits == QuitKey /\ current = Shell
AppQuits == QuitKey /\ current # Shell

LEMMA EditorSteps ==
  ASSUME KernelInv, TaskInv',
         AppStart \/ EditRedraw \/ EditKey \/ AskKey \/ ShellQuits
  PROVE  Sessions' /\ ImagesMatchGolems'
<1>1. /\ current \in Ids /\ current # -1 /\ LoopTypes /\ TaskInv
      /\ pc[current] \in {"start", "edit", "ask"}
      /\ pc[current] = "start" => AppStart
  BY AtPlace DEF AppStart, EditRedraw, EditKey, AskKey, ShellQuits, QuitKey, PollKey, KernelInv
<1>2. UNCHANGED <<tasks, kind, focused, images>>
  BY DEF AppStart, EditRedraw, EditKey, AskKey, ShellQuits, QuitKey, SeeFocus, taskVars, janusVars, loopVars
<1>3. AppStart => current # Shell
  BY <1>1, WorkersAreNotShell DEF AppStart, AppNames
<1>4. ShellStays
  <2>1. GoTo("edit") \/ GoTo("ask") \/ GoTo("exec") \/ UNCHANGED pc
    BY DEF AppStart, EditRedraw, EditKey, AskKey, ShellQuits, QuitKey, loopVars
  <2>2. CASE UNCHANGED pc
    BY <2>2 DEF ShellStays
  <2> QED BY <1>1, <1>3, <2>1, <2>2, GoToStays
<1> QED BY <1>1, <1>2, <1>4, SameTable, QuietStep

LEMMA ShellSteps ==
  ASSUME KernelInv, TaskInv',
         ShellPrompt \/ LineKey \/ LineEnter \/ GolemGetch \/ CmdOther \/ CmdAsk \/ CmdEdit
  PROVE  Sessions' /\ ImagesMatchGolems'
<1>1. current \in Ids /\ current # -1 /\ LoopTypes /\ TaskInv
  BY AtPlace DEF ShellPrompt, LineKey, LineEnter, GolemGetch, CmdOther, CmdAsk, CmdEdit,
                 Command, ShellAt, PollKey, KernelInv
<1>2. UNCHANGED <<tasks, kind, focused, images>>
  BY DEF ShellPrompt, LineKey, LineEnter, GolemGetch, CmdOther, CmdAsk, CmdEdit,
         taskVars, janusVars, loopVars
<1>3. ShellStays
  <2>1. CASE LineKey \/ GolemGetch \/ CmdOther
    BY <2>1 DEF LineKey, GolemGetch, CmdOther, loopVars, ShellStays
  <2>2. CASE ShellPrompt \/ LineEnter \/ CmdAsk \/ CmdEdit
    <3>1. pc[current] \in {"idle", "line", "exec"}
      BY <2>2 DEF ShellPrompt, LineEnter, CmdAsk, CmdEdit, Command, ShellAt, PollKey, At
    <3>2. GoTo("line") \/ GoTo("exec") \/ GoTo("ask") \/ GoTo("edit")
      BY <2>2 DEF ShellPrompt, LineEnter, CmdAsk, CmdEdit
    <3> QED BY <1>1, <3>1, <3>2, GoToStays
  <2> QED BY <2>1, <2>2
<1> QED BY <1>1, <1>2, <1>3, SameTable, QuietStep

LEMMA YieldSteps ==
  ASSUME KernelInv, TaskInv',
         PollEmpty \/ ShellIdle \/ LineAbandoned \/ CommandsDone \/ CmdYield \/ OtherYield
  PROVE  Sessions' /\ ImagesMatchGolems'
<1>1. Yield /\ TaskInv /\ LoopTypes
  BY DEF PollEmpty, ShellIdle, LineAbandoned, CommandsDone, CmdYield, OtherYield, KernelInv
<1>2. current \in Ids /\ current # -1
  BY <1>1 DEF Yield, ShellFree, Running, TaskInv, TaskTypeOK
<1>3. UNCHANGED <<kind, focused, images>>
  BY DEF PollEmpty, ShellIdle, LineAbandoned, CommandsDone, CmdYield, OtherYield,
         SeeFocus, janusVars, loopVars
<1>4. ShellStays
  <2>1. CASE UNCHANGED pc
    BY <2>1 DEF ShellStays
  <2>2. CASE LineAbandoned \/ CommandsDone
    <3>1. pc[current] \in {"line", "exec"} /\ GoTo("idle")
      BY <2>2 DEF LineAbandoned, CommandsDone, ShellAt, At
    <3> QED BY <1>1, <1>2, <3>1, GoToStays
  <2> QED BY <2>1, <2>2 DEF PollEmpty, ShellIdle, CmdYield, OtherYield, loopVars
<1> QED BY <1>1, <1>2, <1>3, <1>4, YieldKeeps, QuietStep

LEMMA FocusSteps ==
  ASSUME KernelInv, TaskInv',
         PollAltF1 \/ CmdJanusNext \/ \E id \in Ids : CmdJanusFocus(id)
  PROVE  Sessions' /\ ImagesMatchGolems'
<1>1. /\ TaskInv /\ Sessions /\ current \in Ids /\ current # -1
      /\ UNCHANGED <<pc, images>>
  BY AtPlace DEF PollAltF1, CmdJanusNext, CmdJanusFocus, Command, ShellAt, KernelInv, loopVars
<1>2. ShellStays
  BY <1>1 DEF ShellStays
<1>3. ShellUp
  <2>1. CASE PollAltF1
    BY <1>1, <2>1 DEF PollAltF1, HasFocus, Sessions, ShellRegisters
  <2>2. CASE CmdJanusNext \/ \E id \in Ids : CmdJanusFocus(id)
    <3>1. ShellAt("exec")
      BY <2>2 DEF CmdJanusNext, CmdJanusFocus, Command
    <3>2. pc[Shell] = "exec"
      BY <1>1, <3>1, ShellRuns DEF ShellAt, At
    <3> QED BY <1>1, <3>2 DEF Sessions, ShellRegisters
  <2> QED BY <2>1, <2>2
<1>4. \A i \in Ids : Kept(i)
  <2>1. CASE PollAltF1
    BY <1>1, <2>1, YieldKeeps DEF PollAltF1
  <2>2. CASE CmdJanusNext \/ \E id \in Ids : CmdJanusFocus(id)
    BY <2>2, SameTable DEF CmdJanusNext, CmdJanusFocus, taskVars
  <2> QED BY <2>1, <2>2
<1>5. Sessions'
  <2>1. CASE JanusFocusNext
    <3>1. FocusNext(focused, kind) /\ kind' = kind
      BY <2>1 DEF JanusFocusNext
    <3>2. Wraith \in Ids /\ Wraith # Shell
      BY Slots DEF Wraith, Shell
    <3> QED BY <1>1, <1>2, <1>3, <1>4, <3>1, <3>2, FocusNextSessions
  <2>2. CASE \E id \in Ids : CmdJanusFocus(id)
    <3>1. PICK id \in Ids : JanusFocusTask(id) /\ UNCHANGED tasks
      BY <2>2 DEF CmdJanusFocus, taskVars
    <3> QED BY <1>1, <1>2, <1>3, <3>1, FocusTaskSessions
  <2> QED BY <2>1, <2>2 DEF PollAltF1, CmdJanusNext
<1>6. ImagesMatchGolems'
  BY <1>1, <1>4 DEF KernelInv, ImagesMatchGolems, Kept
<1> QED BY <1>5, <1>6

LEMMA BootSessions ==
  ASSUME KernelInv, TaskInv', KernelBoot
  PROVE  Sessions' /\ ImagesMatchGolems'
<1>1. /\ TaskInv /\ current = -1 /\ \A i \in Ids : tasks[i] = NoTask
      /\ ~ShellUp /\ focused = -1
      /\ UNCHANGED <<kind, focused, images>>
  BY DEF KernelBoot, Boot, KernelInv, TaskInv, BeforeBoot, Sessions, ShellRegisters, janusVars
<1>2. NoTask.name = ""
  BY DEF NoTask
<1>3. /\ current' # -1
      /\ \A i \in Ids : tasks'[i].name \in {"", "wraith", "shell"}
  BY <1>1, <1>2, BootEffect, Slots DEF KernelBoot, Workers
<1>4. pc'[Shell] = "start"
  BY Slots DEF KernelBoot, KernelInv, LoopTypes
<1>5. ShellRegisters' /\ FocusOnPresentTask'
  BY <1>1, <1>3, <1>4 DEF ShellRegisters, FocusOnPresentTask, ShellUp
<1>6. EntriesMatchTasks' /\ ImagesMatchGolems'
  <2>1. \A i \in Ids : kind[i] # "app" /\ i \notin images
    BY <1>1, <1>2 DEF KernelInv, Sessions, EntriesMatchTasks, ImagesMatchGolems
  <2> QED BY <1>1, <1>3, <2>1 DEF KernelInv, Sessions, EntriesMatchTasks, ImagesMatchGolems
<1> QED BY <1>1, <1>5, <1>6 DEF KernelInv, Sessions

LEMMA ShellStartSessions ==
  ASSUME KernelInv, TaskInv', ShellStart
  PROVE  Sessions' /\ ImagesMatchGolems'
<1>1. /\ TaskInv /\ Sessions /\ current = Shell /\ current # -1 /\ pc[Shell] = "start"
      /\ UNCHANGED <<tasks, current, images>>
  BY ShellRuns DEF ShellStart, ShellAt, At, KernelInv, taskVars
<1>2. focused = -1 /\ -1 < 0
  BY <1>1 DEF Sessions, ShellRegisters
<1>3. kind' = [kind EXCEPT ![Shell] = "shell"] /\ focused' = Shell
  BY <1>1, <1>2 DEF ShellStart, JanusRegisterCurrent
<1>4. kind' \in [Ids -> Kinds \ {"system"}] /\ kind'[Shell] = "shell"
  BY <1>1, <1>3, Slots DEF Sessions, Kinds
<1>5. pc'[Shell] = "idle"
  BY <1>1, Slots DEF ShellStart, GoTo, KernelInv, LoopTypes
<1>6. ShellRegisters'
  BY <1>1, <1>4, <1>5 DEF ShellRegisters, ShellUp
<1>7. FocusOnPresentTask'
  BY <1>1, <1>3, <1>4, ShellIsPresent DEF FocusOnPresentTask, Present
<1>8. EntriesMatchTasks'
  BY <1>1, <1>3, Slots DEF Sessions, EntriesMatchTasks
<1>9. ImagesMatchGolems'
  BY <1>1 DEF KernelInv, ImagesMatchGolems
<1> QED BY <1>3, <1>4, <1>6, <1>7, <1>8, <1>9, Slots DEF Sessions

\* The slot of a task that has ended is freed, by the wraith or by task_wait.
LEMMA CleanupSessions ==
  ASSUME KernelInv, TaskInv', current # -1, NEW id \in Workers, CleanupTaskSlot(id), Forget(id)
  PROVE  Sessions' /\ ImagesMatchGolems'
<1>1. id \in Ids /\ id # Shell /\ tasks'[id].name = "" /\ \A i \in Ids \ {id} : Kept(i)
  BY CleanupKeeps, Slots DEF KernelInv, Workers
<1>2. ShellStays
  BY <1>1, Slots DEF Forget, ShellStays, KernelInv, LoopTypes
<1>3. Sessions'
  BY <1>1, <1>2, ForgetSessions DEF Forget, KernelInv
<1>4. ImagesMatchGolems'
  BY <1>1 DEF Forget, KernelInv, ImagesMatchGolems, Kept
<1> QED BY <1>3, <1>4

LEMMA WraithSessions ==
  ASSUME KernelInv, TaskInv', WraithStep
  PROVE  Sessions' /\ ImagesMatchGolems'
<1>1. current # -1 /\ TaskInv /\ scan \in 0 .. MAX_TASKS
  BY DEF WraithStep, WraithScan, WraithDelay, Running, KernelInv, TaskInv, TaskTypeOK
<1>2. CASE scan < MAX_TASKS /\ WraithReaps(scan)
  <2>1. scan \in Ids
    BY <1>1, <1>2, MaxTasksAssumption DEF Ids
  <2>2. scan \in Workers
    BY <1>1, <1>2, <2>1, WraithTakesAutoreap
  <2>3. CleanupTaskSlot(scan) /\ Forget(scan)
    BY <1>2, MaxTasksAssumption DEF WraithStep, WraithScan, WraithDelay
  <2> QED BY <1>1, <2>2, <2>3, CleanupSessions
<1>3. CASE ~(scan < MAX_TASKS /\ WraithReaps(scan))
  <2>1. UNCHANGED <<kind, focused, pc, images>>
    BY <1>3 DEF WraithStep, janusVars, loopVars
  <2>2. \A i \in Ids : Kept(i)
    <3>1. CASE WraithScan
      <4>1. scan \in Ids
        BY <1>1, <3>1, MaxTasksAssumption DEF WraithScan, Ids
      <4>2. tasks \in [Ids -> TaskRecords]
        BY <1>1 DEF TaskInv, TaskTypeOK
      <4>3. \/ UNCHANGED tasks
            \/ tasks' = [tasks EXCEPT ![scan].state = "ready"]
        BY <1>3, <3>1 DEF WraithScan
      <4>4. CASE tasks' = [tasks EXCEPT ![scan].state = "ready"]
        <5>1. /\ tasks'[scan].name = tasks[scan].name /\ tasks'[scan].state = "ready"
              /\ \A i \in Ids \ {scan} : tasks'[i] = tasks[i]
          BY <4>1, <4>2, <4>4 DEF TaskRecords
        <5> QED BY <5>1 DEF Kept, Present
      <4> QED BY <4>3, <4>4, SameTable
    <3>2. CASE WraithDelay
      BY <1>1, <3>2, ScheduleKeeps DEF WraithDelay
    <3> QED BY <3>1, <3>2 DEF WraithStep
  <2>3. ShellStays
    BY <2>1 DEF ShellStays
  <2> QED BY <1>1, <2>1, <2>2, <2>3, QuietStep
<1> QED BY <1>2, <1>3

LEMMA WaitSessions ==
  ASSUME KernelInv, TaskInv', ShellWait
  PROVE  Sessions' /\ ImagesMatchGolems'
<1>1. TaskWait /\ TaskInv /\ current # -1 /\ waiting # -1
  BY DEF ShellWait, TaskWait, Running, KernelInv
<1>2. waiting \in Workers /\ ~WaitedGone
  BY <1>1, WaitedIsChild, WhoRuns DEF WaitedGone, TaskWait
<1>3. CASE TaskWaitCollects
  <2>1. CleanupTaskSlot(waiting) /\ Forget(waiting)
    BY <1>2, <1>3 DEF TaskWaitCollects, ShellWait
  <2> QED BY <1>1, <1>2, <2>1, CleanupSessions
<1>4. CASE TaskWaitYields
  <2>1. \A i \in Ids : Kept(i)
    BY <1>1, <1>4, ScheduleKeeps DEF TaskWaitYields
  <2>2. waiting' # -1
    BY <1>1, <1>4 DEF TaskWaitYields
  <2>3. UNCHANGED <<kind, focused, pc, images>>
    BY <2>2 DEF ShellWait, janusVars, loopVars
  <2>4. ShellStays
    BY <2>3 DEF ShellStays
  <2> QED BY <1>1, <2>1, <2>3, <2>4, QuietStep
<1> QED BY <1>1, <1>2, <1>3, <1>4 DEF TaskWait

\* An application leaves Janus before it exits.
LEMMA AppEnds ==
  ASSUME KernelInv, TaskInv', AppStartFails \/ AppQuits
  PROVE  Sessions' /\ ImagesMatchGolems'
<1>1. TaskInv /\ LoopTypes /\ TaskExitCode(0) /\ JanusForgetTask(current) /\ GoTo("run") /\ UNCHANGED images
  BY DEF AppStartFails, AppQuits, QuitKey, KernelInv
<1>2. 0 \in Codes
  BY DEF Codes
<1>3. current \in Workers /\ \A i \in Ids : Kept(i)
  BY <1>1, <1>2, ExitKeeps
<1>4. current \in Ids /\ current # Shell /\ current # -1
  BY <1>3, Slots DEF Workers
<1>5. ShellStays
  BY <1>1, <1>4, GoToStays
<1>6. Sessions'
  BY <1>1, <1>3, <1>4, <1>5, ForgetSessions DEF KernelInv
<1>7. ImagesMatchGolems'
  BY <1>1, <1>3 DEF KernelInv, ImagesMatchGolems, Kept
<1> QED BY <1>6, <1>7

LEMMA GolemExitSessions ==
  ASSUME KernelInv, TaskInv', GolemExit
  PROVE  Sessions' /\ ImagesMatchGolems'
<1>1. UNCHANGED <<kind, focused, pc, images>> /\ current # -1
  BY DEF GolemExit, janusVars, loopVars, At
<1>2. \A i \in Ids : Kept(i)
  BY ExitKeeps DEF GolemExit, KernelInv
<1>3. ShellStays
  BY <1>1 DEF ShellStays
<1> QED BY <1>1, <1>2, <1>3, QuietStep

LEMMA KillSessions ==
  ASSUME KernelInv, TaskInv', NEW id \in Ids, CmdKill(id)
  PROVE  Sessions' /\ ImagesMatchGolems'
<1>1. UNCHANGED <<kind, focused, pc, images>> /\ current # -1
  BY DEF CmdKill, Command, ShellAt, At, janusVars
<1>2. \A i \in Ids : Kept(i)
  BY KillKeeps DEF CmdKill, KernelInv
<1>3. ShellStays
  BY <1>1 DEF ShellStays
<1> QED BY <1>1, <1>2, <1>3, QuietStep

\* A new task is in a slot that Janus has no entry for.
LEMMA CreateSessions ==
  ASSUME KernelInv, TaskInv', NEW id \in Ids,
         CmdSpawnHeartbeat(id) \/ CmdSummon(id) \/ CmdJanusSpawn(id)
  PROVE  Sessions' /\ ImagesMatchGolems'
<1>1. /\ TaskInv /\ LoopTypes /\ Sessions /\ ShellFree /\ current # -1
      /\ pc[current] = "exec"
  BY DEF CmdSpawnHeartbeat, CmdSummon, CmdJanusSpawn, Command, ShellAt, At, KernelInv
<1>2. current = Shell /\ ShellUp
  BY <1>1, ShellRuns DEF Sessions, ShellRegisters
<1>3. /\ id # Shell /\ tasks[id].name = "" /\ Present(id)'
      /\ \A i \in Ids \ {id} : Kept(i)
      /\ CmdSpawnHeartbeat(id) => tasks'[id].name = "heartbeat"
      /\ CmdJanusSpawn(id) => tasks'[id].name = "app"
      /\ CmdSummon(id) => tasks'[id].name = "golem"
  BY <1>1, CreateKeeps DEF CmdSpawnHeartbeat, CmdSummon, CmdJanusSpawn, Spawn, Summon
<1>4. ShellStays
  BY <1>3, Slots DEF CmdSpawnHeartbeat, CmdSummon, CmdJanusSpawn, ShellStays, KernelInv, LoopTypes
<1>5. current' # -1
  BY <1>1, <1>3, Slots, StillRuns
<1>6. kind[id] # "app" /\ kind[id] # "shell" /\ id \notin images
  BY <1>1, <1>3 DEF Sessions, EntriesMatchTasks, KernelInv, ImagesMatchGolems
<1>7. ImagesMatchGolems'
  BY <1>3, <1>6 DEF CmdSpawnHeartbeat, CmdSummon, CmdJanusSpawn, KernelInv, ImagesMatchGolems, Kept
<1>8. CASE CmdSpawnHeartbeat(id) \/ CmdSummon(id)
  <2>1. UNCHANGED <<kind, focused>>
    BY <1>8 DEF CmdSpawnHeartbeat, CmdSummon, janusVars
  <2>2. focused # id
    BY <1>2, <1>6 DEF KernelInv, Sessions, FocusOnPresentTask
  <2>3. FocusOnPresentTask'
    BY <1>3, <2>1, <2>2 DEF KernelInv, Sessions, FocusOnPresentTask, ShellUp, Kept
  <2>4. ShellRegisters'
    BY <1>4, <1>5, <2>1 DEF KernelInv, Sessions, ShellRegisters, ShellStays, ShellUp
  <2>5. EntriesMatchTasks'
    BY <1>3, <1>6, <2>1 DEF KernelInv, Sessions, EntriesMatchTasks, Kept
  <2> QED BY <1>7, <2>1, <2>3, <2>4, <2>5 DEF KernelInv, Sessions
<1>9. CASE CmdJanusSpawn(id)
  <2>1. kind' = [kind EXCEPT ![id] = "app"] /\ focused' = id
    BY <1>9 DEF CmdJanusSpawn, JanusSpawned
  <2>2. kind' \in [Ids -> Kinds \ {"system"}] /\ kind'[id] = "app" /\ kind'[Shell] = kind[Shell]
    BY <1>1, <1>3, <2>1, Slots DEF Sessions, Kinds
  <2>3. FocusOnPresentTask'
    BY <1>3, <2>1, <2>2, Slots DEF FocusOnPresentTask
  <2>4. ShellRegisters'
    BY <1>2, <1>4, <1>5, <2>2 DEF KernelInv, Sessions, ShellRegisters, ShellStays, ShellUp
  <2>5. EntriesMatchTasks'
    BY <1>3, <1>9, <2>1, <2>2 DEF KernelInv, Sessions, EntriesMatchTasks, Kept
  <2> QED BY <1>7, <2>1, <2>2, <2>3, <2>4, <2>5 DEF Sessions
<1> QED BY <1>8, <1>9

-----------------------------------------------------------------------------
\* The types of the loops.

LEMMA MoveFocusTypes ==
  ASSUME unseen \subseteq Ids, NEW from, NEW kinds, FocusNext(from, kinds)
  PROVE  unseen' \subseteq Ids
BY DEF FocusNext, MoveFocus

LEMMA UnseenTypes ==
  ASSUME KernelInv, Next
  PROVE  unseen' \subseteq Ids
<1> unseen \subseteq Ids
  BY DEF KernelInv, LoopTypes
<1>1. ASSUME NEW id, JanusForgetTask(id)
      PROVE  unseen' \subseteq Ids
  BY <1>1, MoveFocusTypes DEF JanusForgetTask
<1>2. CASE WraithStep \/ ShellWait
  BY <1>1, <1>2 DEF WraithStep, ShellWait, Forget, janusVars
<1>3. CASE AppStartFails \/ QuitKey
  BY <1>1, <1>3 DEF AppStartFails, QuitKey, janusVars
<1>4. CASE PollAltF1 \/ CmdJanusNext
  BY <1>4, MoveFocusTypes DEF PollAltF1, CmdJanusNext, JanusFocusNext
<1>5. CASE \E id \in Ids : CmdJanusFocus(id) \/ CmdJanusSpawn(id)
  BY <1>5 DEF CmdJanusFocus, JanusFocusTask, MoveFocus, CmdJanusSpawn, JanusSpawned
<1>6. CASE EditRedraw \/ LineAbandoned \/ ShellStart \/ ShellPrompt
  BY <1>6 DEF EditRedraw, LineAbandoned, SeeFocus, ShellStart, ShellPrompt
<1>7. CASE KernelBoot \/ PollEmpty \/ AppStart \/ EditKey \/ AskKey \/ ShellIdle \/ LineKey \/ LineEnter
           \/ CommandsDone \/ OtherYield \/ GolemGetch \/ GolemExit
  BY <1>7 DEF KernelBoot, PollEmpty, AppStart, EditKey, AskKey, ShellIdle, LineKey, LineEnter,
              CommandsDone, OtherYield, GolemGetch, GolemExit, janusVars
<1>8. CASE CmdOther \/ CmdYield \/ CmdAsk \/ CmdEdit
           \/ \E id \in Ids : CmdSpawnHeartbeat(id) \/ CmdSummon(id) \/ CmdKill(id)
  BY <1>8 DEF CmdOther, CmdYield, CmdAsk, CmdEdit, CmdSpawnHeartbeat, CmdSummon, CmdKill, janusVars
<1> QED BY <1>2, <1>3, <1>4, <1>5, <1>6, <1>7, <1>8 DEF Next, ShellCommand

\* Where the loops go, and what they have on the heap.
PlaceTypes == pc \in [Ids -> PCs] /\ buffers \subseteq Ids /\ images \subseteq Ids

LEMMA GoToTypes ==
  ASSUME PlaceTypes, NEW place \in PCs, GoTo(place)
  PROVE  pc' \in [Ids -> PCs]
BY DEF PlaceTypes, GoTo

LEMMA PlacesTyped ==
  ASSUME KernelInv, Next
  PROVE  PlaceTypes'
<1> PlaceTypes
  BY DEF KernelInv, LoopTypes, PlaceTypes
<1>1. {"none", "run", "start", "idle", "line", "exec", "edit", "ask"} \subseteq PCs
  BY DEF PCs
<1>2. CASE KernelBoot
  BY <1>1, <1>2 DEF KernelBoot, PlaceTypes
<1>3. ASSUME NEW id, Forget(id)
      PROVE  PlaceTypes'
  BY <1>1, <1>3 DEF Forget, PlaceTypes
<1>4. CASE WraithStep \/ ShellWait
  BY <1>3, <1>4 DEF WraithStep, ShellWait, loopVars, PlaceTypes
<1>5. CASE PollEmpty \/ PollAltF1 \/ EditRedraw \/ ShellIdle \/ LineKey \/ OtherYield \/ GolemGetch \/ GolemExit
           \/ CmdOther \/ CmdJanusNext \/ CmdYield \/ \E id \in Ids : CmdKill(id) \/ CmdJanusFocus(id)
  BY <1>5 DEF PollEmpty, PollAltF1, EditRedraw, ShellIdle, LineKey, OtherYield, GolemGetch, GolemExit,
              CmdOther, CmdJanusNext, CmdYield, CmdKill, CmdJanusFocus, loopVars, PlaceTypes
<1>6. CASE AppStart \/ CmdEdit
  <2>1. current \in Ids /\ GoTo("edit") /\ buffers' = buffers \cup {current} /\ UNCHANGED images
    BY <1>6, AtPlace DEF AppStart, CmdEdit, Command, ShellAt, KernelInv
  <2> QED BY <1>1, <2>1, GoToTypes DEF PlaceTypes
<1>7. CASE EditKey \/ AskKey \/ AppStartFails \/ ShellStart \/ ShellPrompt \/ LineAbandoned \/ LineEnter
           \/ CommandsDone \/ CmdAsk
  <2>1. UNCHANGED <<buffers, images>>
    BY <1>7 DEF EditKey, AskKey, AppStartFails, ShellStart, ShellPrompt, LineAbandoned, LineEnter,
                CommandsDone, CmdAsk
  <2>2. UNCHANGED pc \/ \E place \in PCs : GoTo(place)
    BY <1>1, <1>7 DEF EditKey, AskKey, AppStartFails, ShellStart, ShellPrompt, LineAbandoned, LineEnter,
                      CommandsDone, CmdAsk
  <2> QED BY <2>1, <2>2, GoToTypes DEF PlaceTypes
<1>8. CASE QuitKey
  BY <1>1, <1>8, GoToTypes DEF QuitKey, PlaceTypes
<1>9. CASE \E id \in Ids : CmdSpawnHeartbeat(id) \/ CmdJanusSpawn(id) \/ CmdSummon(id)
  BY <1>1, <1>9 DEF CmdSpawnHeartbeat, CmdJanusSpawn, CmdSummon, PlaceTypes
<1> QED BY <1>2, <1>4, <1>5, <1>6, <1>7, <1>8, <1>9 DEF Next, ShellCommand

LEMMA TodoTyped ==
  ASSUME KernelInv, Next
  PROVE  todo' \in 0 .. ScriptMax
<1> todo \in 0 .. ScriptMax
  BY DEF KernelInv, LoopTypes
<1>1. CASE ShellCommand
  <2>1. todo > 0 /\ todo' = todo - 1
    BY <1>1 DEF ShellCommand, CmdOther, CmdJanusNext, CmdYield, CmdAsk, CmdEdit, CmdSpawnHeartbeat,
                CmdJanusSpawn, CmdSummon, CmdKill, CmdJanusFocus, Command
  <2> QED BY <2>1, ScriptMaxAssumption
<1>2. CASE LineEnter
  BY <1>2, ScriptMaxAssumption DEF LineEnter
<1>3. CASE ~ShellCommand /\ ~LineEnter
  <2>1. UNCHANGED todo
    BY <1>3 DEF Next, KernelBoot, WraithStep, ShellWait, Forget, PollEmpty, PollAltF1, AppStart,
                AppStartFails, EditRedraw, EditKey, AskKey, QuitKey, ShellStart, ShellIdle, ShellPrompt,
                LineAbandoned, LineKey, CommandsDone, OtherYield, GolemGetch, GolemExit, loopVars
  <2> QED BY <2>1
<1> QED BY <1>1, <1>2, <1>3

LEMMA GotTyped ==
  ASSUME KernelInv, Next
  PROVE  got' \in Ids \cup {-1}
<1>1. NoKey \/ TakeKey
  BY DEF Next, KernelBoot, WraithStep, ShellWait, PollEmpty, PollAltF1, AppStart,
         AppStartFails, EditRedraw, EditKey, AskKey, QuitKey, ShellStart, ShellIdle, ShellPrompt,
         LineAbandoned, LineKey, LineEnter, PollKey, CommandsDone, OtherYield, GolemGetch, GolemExit,
         ShellCommand, CmdOther, CmdJanusNext, CmdYield, CmdAsk, CmdEdit, CmdSpawnHeartbeat,
         CmdJanusSpawn, CmdSummon, CmdKill, CmdJanusFocus, Command
<1> QED BY <1>1 DEF NoKey, TakeKey, KernelInv, TaskInv, TaskTypeOK

-----------------------------------------------------------------------------
\* The invariant.

LEMMA InitKernelInv == Init => KernelInv
<1> SUFFICES ASSUME Init PROVE KernelInv
  OBVIOUS
<1>1. TaskInv
  BY InitInv DEF Init
<1>2. LoopTypes
  BY ScriptMaxAssumption DEF Init, JanusInit, LoopTypes, PCs
<1>3. Sessions
  BY Slots DEF Init, JanusInit, Sessions, ShellRegisters, ShellUp, FocusOnPresentTask, EntriesMatchTasks, Kinds
<1>4. ImagesMatchGolems
  BY DEF Init, TaskInit, NoTask, ImagesMatchGolems
<1> QED BY <1>1, <1>2, <1>3, <1>4 DEF KernelInv

LEMMA NextKernelInv == KernelInv /\ [Next]_vars => KernelInv'
<1> SUFFICES ASSUME KernelInv, [Next]_vars PROVE KernelInv'
  OBVIOUS
<1>1. TaskInv'
  BY StepsAreTaskSteps, NextInv DEF KernelInv
<1>2. CASE UNCHANGED vars
  BY <1>1, <1>2 DEF vars, taskVars, janusVars, loopVars, KernelInv, LoopTypes, Sessions, ShellRegisters,
                    ShellUp, FocusOnPresentTask, EntriesMatchTasks, ImagesMatchGolems, Present
<1>3. CASE Next
  <2>1. LoopTypes'
    BY <1>3, UnseenTypes, PlacesTyped, TodoTyped, GotTyped DEF LoopTypes, PlaceTypes
  <2>2. Sessions' /\ ImagesMatchGolems'
    <3>1. CASE KernelBoot \/ WraithStep \/ ShellWait \/ ShellStart
      BY <1>1, <3>1, BootSessions, WraithSessions, WaitSessions, ShellStartSessions
    <3>2. CASE AppStart \/ EditRedraw \/ EditKey \/ AskKey
      BY <1>1, <3>2, EditorSteps
    <3>7. CASE AppStartFails
      BY <1>1, <3>7, AppEnds
    <3>8. CASE QuitKey
      <4>1. ShellQuits \/ AppQuits
        BY <3>8 DEF ShellQuits, AppQuits
      <4> QED BY <1>1, <4>1, EditorSteps, AppEnds
    <3>3. CASE PollEmpty \/ ShellIdle \/ LineAbandoned \/ CommandsDone \/ OtherYield
      BY <1>1, <3>3, YieldSteps
    <3>4. CASE ShellPrompt \/ LineKey \/ LineEnter \/ GolemGetch
      BY <1>1, <3>4, ShellSteps
    <3>5. CASE PollAltF1 \/ GolemExit
      BY <1>1, <3>5, FocusSteps, GolemExitSessions
    <3>6. CASE ShellCommand
      <4>1. CASE CmdOther \/ CmdAsk \/ CmdEdit
        BY <1>1, <4>1, ShellSteps
      <4>2. CASE CmdYield
        BY <1>1, <4>2, YieldSteps
      <4>3. CASE CmdJanusNext \/ \E id \in Ids : CmdJanusFocus(id)
        BY <1>1, <4>3, FocusSteps
      <4>4. CASE \E id \in Ids : CmdSpawnHeartbeat(id) \/ CmdJanusSpawn(id) \/ CmdSummon(id) \/ CmdKill(id)
        BY <1>1, <4>4, CreateSessions, KillSessions
      <4> QED BY <3>6, <4>1, <4>2, <4>3, <4>4 DEF ShellCommand
    <3> QED BY <1>3, <3>1, <3>2, <3>3, <3>4, <3>5, <3>6, <3>7, <3>8 DEF Next
  <2> QED BY <1>1, <2>1, <2>2 DEF KernelInv
<1> QED BY <1>2, <1>3

LEMMA KernelInvHolds == Spec => []KernelInv
BY InitKernelInv, NextKernelInv, PTL DEF Spec

\* The focus is always on a registered task that is in the table, once the shell is up,
\* and no entry of Janus outlives its task or is inherited by the next in its slot.
THEOREM JanusAgrees == Spec => []JanusMatchesTable
<1>1. KernelInv => JanusMatchesTable
  BY DEF KernelInv, LoopTypes, Sessions, TaskInv, JanusMatchesTable, TypeOK, Kinds
<1> QED BY <1>1, KernelInvHolds, PTL

\* A golem's image is on the heap exactly while its task is in the table.
THEOREM ImagesAreFreed == Spec => []ImagesMatchGolems
<1>1. KernelInv => ImagesMatchGolems
  BY DEF KernelInv
<1> QED BY <1>1, KernelInvHolds, PTL

\* Alt+F1 and janus next.
LEMMA FocusNextHandsOver ==
  ASSUME KernelInv, JanusFocusNext, focused' # focused
  PROVE  focused' \in unseen'
BY DEF JanusFocusNext, FocusNext, MoveFocus

\* janus_forget_task takes the focus from nobody but the task it forgets.
LEMMA ForgetHandsOver ==
  ASSUME KernelInv, KernelInv', NEW id \in Workers, JanusForgetTask(id),
         focused # -1, focused' # focused
  PROVE  focused = id /\ focused' \in unseen'
<1>1. ShellUp /\ id # Shell /\ Shell \in Ids /\ id \in Ids
  BY Slots DEF KernelInv, Sessions, ShellRegisters, Workers
<1>2. kind' = [kind EXCEPT ![id] = "none"]
  BY DEF JanusForgetTask
<1>3. ShellUp'
  BY <1>1, <1>2 DEF ShellUp, KernelInv, Sessions
<1>4. focused' # -1
  BY <1>3 DEF KernelInv, Sessions, FocusOnPresentTask
<1>5. focused = id /\ FocusNext(-1, [kind EXCEPT ![id] = "none"])
  BY DEF JanusForgetTask
<1>6. PICK next \in Ids : MoveFocus(-1, next)
  BY <1>4, <1>5 DEF FocusNext
<1> QED BY <1>4, <1>5, <1>6 DEF MoveFocus

\* The steps that can move the focus.
LEMMA FocusMovers ==
  ASSUME KernelInv, Next, focused' # focused, focused # -1
  PROVE  \/ PollAltF1 \/ AppStartFails \/ AppQuits \/ WraithStep \/ ShellWait
         \/ CmdJanusNext \/ \E id \in Ids : CmdJanusSpawn(id) \/ CmdJanusFocus(id)
<1>1. ~(KernelBoot \/ PollEmpty \/ AppStart \/ EditRedraw \/ EditKey \/ AskKey \/ ShellQuits)
  BY DEF KernelBoot, PollEmpty, AppStart, EditRedraw, SeeFocus, EditKey, AskKey, QuitKey,
         ShellQuits, janusVars
<1>2. ~ShellStart
  BY DEF ShellStart, JanusRegisterCurrent, KernelInv, Sessions, Ids
<1>3. ~(ShellIdle \/ ShellPrompt \/ LineAbandoned \/ LineKey \/ LineEnter \/ CommandsDone)
  BY DEF ShellIdle, ShellPrompt, LineAbandoned, SeeFocus, LineKey, LineEnter, CommandsDone,
         janusVars
<1>4. ~(OtherYield \/ GolemGetch \/ GolemExit)
  BY DEF OtherYield, GolemGetch, GolemExit, janusVars
<1>5. ~(CmdOther \/ CmdYield \/ CmdAsk \/ CmdEdit)
  BY DEF CmdOther, CmdYield, CmdAsk, CmdEdit, janusVars
<1>6. ~\E id \in Ids : CmdSpawnHeartbeat(id) \/ CmdSummon(id) \/ CmdKill(id)
  BY DEF CmdSpawnHeartbeat, CmdSummon, CmdKill, janusVars
<1>7. ShellCommand => CmdJanusNext \/ \E id \in Ids : CmdJanusSpawn(id) \/ CmdJanusFocus(id)
  BY <1>5, <1>6 DEF ShellCommand
<1>8. QuitKey => AppQuits
  BY <1>1 DEF AppQuits, ShellQuits
<1> QED BY <1>1, <1>2, <1>3, <1>4, <1>7, <1>8 DEF Next

\* Nobody loses the focus to another task's end, and whoever gets it has yet to redraw.
THEOREM FocusHandedOver == Spec => FocusIsHandedOver
<1> DEFINE HandedOver == focused # -1 /\ focused' # focused =>
                           /\ current = focused \/ ShellAt("exec") \/ Zombie(focused)
                           /\ focused' \in unseen'
<1>1. ASSUME KernelInv, KernelInv', Next, focused # -1, focused' # focused
      PROVE  HandedOver
  <2>1. CASE PollAltF1
    BY <1>1, <2>1, FocusNextHandsOver DEF PollAltF1, HasFocus
  <2>2. CASE AppStartFails \/ AppQuits
    <3>1. TaskExitCode(0) /\ JanusForgetTask(current)
      BY <2>2 DEF AppStartFails, AppQuits, QuitKey
    <3>2. current \in Workers
      BY <1>1, <3>1, ExitKeeps DEF KernelInv, Codes
    <3> QED BY <1>1, <3>1, <3>2, ForgetHandsOver
  <2>3. CASE WraithStep
    <3>1. scan < MAX_TASKS /\ WraithReaps(scan) /\ Forget(scan)
      BY <1>1, <2>3 DEF WraithStep, janusVars
    <3>2. scan \in Workers
      <4>1. scan \in Ids /\ TaskInv /\ current # -1
        BY <1>1, <2>3, <3>1, MaxTasksAssumption
           DEF WraithStep, WraithScan, WraithDelay, Running, KernelInv, TaskInv, TaskTypeOK, Ids
      <4> QED BY <3>1, <4>1, WraithTakesAutoreap
    <3> QED BY <1>1, <3>1, <3>2, ForgetHandsOver DEF Forget, WraithReaps
  <2>4. CASE ShellWait
    <3>1. TaskWait /\ TaskInv /\ waiting' = -1 /\ ~WaitedGone /\ Forget(waiting)
      BY <1>1, <2>4 DEF ShellWait, janusVars, KernelInv
    <3>2. waiting \in Workers /\ Zombie(waiting)
      BY <3>1, WaitedIsChild, WhoRuns DEF TaskWait, TaskWaitCollects, TaskWaitYields
    <3> QED BY <1>1, <3>1, <3>2, ForgetHandsOver DEF Forget
  <2>5. CASE CmdJanusNext
    BY <1>1, <2>5, FocusNextHandsOver DEF CmdJanusNext, Command
  <2>6. ASSUME NEW id \in Ids, CmdJanusSpawn(id) \/ CmdJanusFocus(id)
        PROVE  HandedOver
    <3>1. ShellAt("exec")
      BY <2>6 DEF CmdJanusSpawn, CmdJanusFocus, Command
    <3>2. focused' \in unseen'
      BY <1>1, <2>6 DEF CmdJanusSpawn, JanusSpawned, CmdJanusFocus, JanusFocusTask, MoveFocus
    <3> QED BY <3>1, <3>2
  <2> QED BY <1>1, <2>1, <2>2, <2>3, <2>4, <2>5, <2>6, FocusMovers
<1>2. KernelInv /\ KernelInv' /\ [Next]_vars => [HandedOver]_vars
  BY <1>1
<1> QED BY <1>2, KernelInvHolds, PTL DEF Spec, FocusIsHandedOver

=============================================================================
