# IsnaOS in TLA+

IsnaOS is a small 32-bit x86 operating system written in C: a cooperative
multitasking kernel with a shell, a session manager that routes the keyboard
("Janus"), two editors, a loader for flat binaries ("golems"), an assembler for
them, a heap and a file system that is kept in memory and saved to an ATA disk.
This directory holds TLA+ models of its parts, the TLC runs that check them on
small instances and the TLAPS proofs of what holds for every size.

## The system

Interrupts are off while tasks run (`main.c:53`), so the only preemption points are the
calls of `yield()`, and everything between two of them is atomic.  Concurrency is the
interleaving of tasks at yields, plus two things outside of the program's control:
keys arrive at any time, and the disk may fail or the power may go at any sector.

| component | source | state | operations | what makes it correct |
|---|---|---|---|---|
| task table, reaper | `kernel/task.c` | `g_tasks`, `g_current`; loop variables of `task_wraith`, `task_wait`, `task_delay` | create, kill, exit, wait, reap | one running task; kernel tasks survive; a zombie never runs again, is reclaimed, and its code reaches whoever waits |
| scheduler | `kernel/sched.c`, `ctx_switch.asm` | task states | `schedule`, `yield` | round robin, no starvation |
| boot | `kernel/main.c` | - | `kmain` | the tasks exist before the first switch; what is on the disk survives a start |
| Janus | `kernel/janus.c` | `g_janus`, `g_focused_task`, focus generations | register, forget, focus, poll a key, consume a focus event | the focus is on a task that can use it; keys go to it; focus events are seen |
| shell | `kernel/shell.c` | line being edited, history, script position, prompt | line editor, dispatcher, prompts, `cast` | reads keys only when focused, comes back from every command; the input is where it is shown |
| scribe | `kernel/scribe.c` | lines, cursor, mode | edit, search, save, quit | the text and the cursor stay consistent |
| sigildraw, glyph, rune | `kernel/sigildraw.c`, `glyph.c`, `ui/rune.c`, `ui/glyphforge.c` | pixels, cursor | paint, save, load, view | the array is a picture that survives its file; the screen shows it |
| golem runtime | `kernel/glm.c` | runtime, image of each golem | spawn, API calls, destroy | image freed with its task; header validated before the jump |
| Shape assembler | `kernel/shape.c` | symbol table, sections | two passes, emit | both passes agree on every address; the golem does what its source means |
| heap | `mm/heap.c` | block list, break | `kmalloc`, `kfree` | extents handed out are disjoint; the blocks tile the heap; neighbours merge |
| VFS | `fs/vfs.c` | tree, cwd, dirty flag, base of the mounted data | tree operations, lazy read, save, load | contents survive save, failed save, and restart |
| ATA driver | `drivers/ata.c` | - | read or write one sector | fails or transfers a sector |
| keyboard | `drivers/keyboard.c` | shift, alt, extended prefix | poll | every key arrives as what the modifiers made of it when it was pressed |
| VGA text | `drivers/vga.c` | scrollback, cursor, window | output, cursor and view | the screen is a window of the text, with the cursor where it is |
| overlays | `ui/overlays.c` | - | output | - |
| GDT, IDT, PIC, traps | `arsc/i386/*` | tables | set-up, fault screens | - |
| strings | `lib/str.c` | - | pure functions | - |

Interaction: the shell calls everything else directly; tasks meet in the task
table (create, kill, wait), in Janus (focus and keys), in the file system (one tree,
one working directory for all) and in the heap.  Callbacks: `cleanup_task_slot` calls
the task's cleanup function and Janus; the file system's list functions call back
into the shell only to print.

Hard behaviours, and where they are met: tasks that are killed, exit, are reaped and
waited for in any order (`Tasks`); slots that are reused while Janus, the shell or the
wraith still has something to do with them (`Kernel`); the focus and the keyboard shared
by tasks of which each sees a focus change in its own time (`Kernel`); a list of blocks
that any order of calls must leave whole (`Heap`); failures of the disk and the power
between two sectors (`VfsDisk`); moving and replacing directories below each other,
while another task uses them (`VfsTree`); partial redrawing and limits of the editor
(`Scribe`); a line that is edited over a buffer that scrolls (`Console`); addresses that two
programs compute apart from each other (`Golem`); modifiers and prefixes that are read late
(`Keyboard`); loads and saves of pictures that fail (`Sigil`).

## Modules

    Lifecycle     <- implemented by -   Tasks  <- Janus  <- Kernel     (<- : EXTENDS)
    Allocator     <- implemented by -   Heap
    Document      <- implemented by -   Scribe
    Namespace     <- implemented by -   VfsTree
    Program       <- implemented by -   Golem  -> Shape  -> Source  <- Program
    Canvas        <- implemented by -   Sigil  -> Rune
    KeyQueue      <- implemented by -   Keyboard
                                        Console  -> Vga
                                        VfsDisk

`MCx.tla` with `MCx.cfg` instantiates module `x` for TLC (`MCShape` instantiates `Golem`);
`xProofs.tla` holds the proofs about module `x`.  Definitions named `Bug...` are plausible
mistakes of the code next to the definition they would replace; each property was seen to notice at
least one of them.  They are no part of the specifications.

### Tasks, Lifecycle

The task table (`g_tasks`, `g_current`), the scheduler, and the loops inside `task_wait`,
`task_delay` and `task_wraith`.  An action is a piece of code between two yields; one that
ends in `yield()` contains all of `schedule()`.

| action | code |
|---|---|
| `Boot` | the `task_create` calls of `kmain` and the first `schedule()` |
| `Spawn`, `Summon` | `task_create`; `task_create_ex` of a golem followed by the call of `task_wait` |
| `TaskKill`, `TaskExitCode`, `Yield` | `task_kill`, `task_exit_code`, `yield` |
| `TaskWait` | one round of `task_wait`: collect the child or yield |
| `WraithScan`, `WraithDelay` | one slot of the wraith's scan; one yield of its delay |

Who calls what is the program's own division: only the shell creates, kills and waits, only
applications and golems exit, only the wraith reaps.  `Lifecycle` is a process table without slots,
indices or delays: processes are alive, ended or gone, and exit codes are collected
once.

### Janus, Kernel

`Janus` adds the session manager's entries, focus and generations to the table, as actions
on the state that the loops of `Kernel` call.  `Kernel` adds the loops: `pc` is where a
task's loop is, `todo` the commands the shell has still to execute, `buffers` and `images`
what tasks have on the heap, `got` who was handed a key in the last step.  A command is any
of those that touch tasks, the focus or prompts; a script is a number of them.  Cleaning up a
slot includes what `cleanup_task_slot` calls: the golem's cleanup function and
`janus_forget_task`.

### Heap, Allocator

Addresses count units of 16 bytes: a header is one (`HEADER`) and `align16`
(`Units`) keeps every address and size a multiple.  `MallocReuses` is first fit with
`split_block`, `MallocGrows` is `request_block` and the append, `Free` is `kfree` with both
merges of `coalesce`.  `Allocator` hands out extents that do not overlap and knows no
blocks.  `HeapTop` bounds the break in `MallocGrows`; the code has no such check, and
nothing here says what would happen behind the end of the memory.

### VfsDisk

Files in one directory, their contents in memory or still on the disk, the dirty flag, the
LBA the mounted data begins at, and the sectors of the image: superblock, node table,
data.  A save is one action whose outcomes are: a lazy read fails, too many nodes, all
sectors written, or a prefix of them followed by an error or a loss of power.  `truth` (what
each file must be read as) and `saved` (what the last complete save holds) are history
variables.  Abstractions: a fixed chain of directories; nodes do not lie across two sectors; contents
of files never look like nodes and have at most `MaxText` cells; the image has
sectors up to `LastLba`, more than any tree that `vfs_save` accepts needs (`LastLbaAssumption`); a mount of a torn image whose links lead outside of the node
array ends in the state `lost`, about which nothing is said.  An image that was torn by a
failure promises nothing, because there is one copy of it and no checksum is written.

### VfsTree, Namespace

The tree, the working directory, the prompt of `warp` (`asked`), scripts that are being cast
(`casting`) and an editor task that has a file open (`editor`).  A name is a short sequence of
characters, `.ms` counts as two; a name is cut to `NameMax` characters exactly where `node_alloc`
and `make_renamed_name` cut it; node numbers stand for pointers and are reused like
freed memory.  `kernel` is `hung` when a loop of the code does not end and `wild` when it works
on freed memory; nothing is said of what follows.  While the shell waits for the answer of
a `warp`, the editor task runs on.  Path parts are no longer than a name, and the disk is left to
`VfsDisk`: a restart finds the tree as it was.  `Namespace` is a function from
paths to entries, and says which paths an operation may change.

### Scribe, Document

The array of lines, cursor, first visible line, `modified`, mode, the text area of the
screen, the focus, and the file.  One action is one key with all that its handler does,
including which rows it redraws (`Everything`, `From`, or the current line); a prompt is
reduced to the answer that ends it.  Another task may delete the file but does not write it
(that is in `VfsTree`), `kmalloc` does not fail, and the rows of the status and the command
line are left out.  Others draw at any time (`OthersDraw`): the output of a
script or of a golem it summons, and the first screen of an application, ask for no focus.  A row they have
drawn is marked as `Foreign` when the editor will draw it again, because it has not the focus or has yet to see
that it has it, and as `Intruded` when nothing makes it do so.  They draw on all rows at once: no key looks at the screen, so that a row they spare
shows what it would without them.  `Document` is a text with a point and a stored copy; `Scribe`
implements it with the lines joined by newlines, as long as the array of lines is not full.

### Vga, Console

A terminal is a record: the rows of the scrollback, the cursor, the first row of the window, the screen
and the hardware's cursor; each function of the driver is an operator on it.  `Console` is
`read_line` and the prompt on such a terminal: the line, the cursor in it, where it starts in
the buffer, and the history.  A command prints something and may leave it at that.  Other
tasks draw over the screen, an application that starts also while the shell has the focus and reads
(`OthersDraw`); `drawnOver` says that no key has drawn the line since.  `InputInPlace` relates the line to the cells of the scrollback,
`EditsInPlace` what a key does to it, wherever the window is; `OutputIsSeen` says that the row that was
written last is in the window when a command ends.  `MaxTyped` bounds the keys that lengthen the line; what else
ends it is the end of the scrollback and a buffer that cannot be enlarged (`InitialCap` is its size
before that).

### Source, Shape, Program, Golem

`Source` has the lines of a program after trimming and splitting, and their places.  `Shape` is the
assembler: a variable for each of its own, one action per line and pass, the bytes of every
instruction.  The source is not chosen beforehand: the first pass reads any line of
`Menu` next.  `Golem` adds `glm_spawn` and a processor that knows the instructions which `Shape` emits, and
keeps where the instruction and the stack are and whether `esi` and `ebx` hold what
they should.  `Program` is the meaning of a source after `src/Shape/Documentation.txt`: statements,
labels and data by their places, no addresses.  `ImplementsProgram` maps each offset to
the statement whose bytes hold it.  Values are left out, so that a condition may hold or not.

### Keyboard, KeyQueue

`Poll` is `keyboard_try_get_key` on one byte, with both tables; `After` and `Event` are what a byte does to
the state and the event it is.  The keyboard sends scan code set 1: extended keys after a prefix, and
around them the extended shifts of `ExtendedShifts`, which depend on Shift and Num Lock and are chosen freely.
`KeyQueue` has the events that were typed and not yet taken; `Keyboard` implements it with the
events that are in the controller's bytes.

### Rune, Canvas, Sigil

`Rune` has the bitmaps, with the pixels in one sequence as in the code, and their files, of which only
what `rune_load` looks at is kept.  `Sigil` is the loop of the editor, one action per turn with the
drawing that ends it, and `glyph_view`; others write the file and draw at any time,
whoever has the focus, the editor and the viewer open without asking for it, and a load or a save may fail for any
reason.  The marks `Foreign` and `Intruded` are those of `Scribe`.  Others draw on all places at once: each
drawing of the editor is of all places and looks at none, so that a place they spare shows what it would
without them.  `Canvas` is a function from places to colours with
a point.

## Runs

| run | bounds | shows |
|---|---|---|
| `tasks` | 5 slots, 2 yields in a delay, 2 exit codes | the safety of the table, and under fairness that every ready task runs, zombies are reclaimed, waits return and `Lifecycle` is implemented |
| `kernel` | 4 slots, scripts of 2 commands, 1 yield in a delay | focus, slots and Janus entries agree; the focus is taken from a task only by itself, a command of the shell or its end, and whoever gets it has yet to redraw; the real loops give exactly the behaviours, with the fairness, that `Tasks` assumes |
| `heap` | 16 units, requests of 16, 20 and 48 bytes | the block list stays whole, nothing is shared or lost, and `Allocator` is implemented |
| `disk` | 2 files, 2 texts, 4 nodes and 2 cells in a sector, 1 failure, saves of up to 4 or 5 nodes | contents survive saves that fail, lazy reads and restarts; only a save clears the dirty flag, also where the tree is too large for one |
| `editor` | texts of 3 symbols, 2 rows, tabs of 2, the array of lines never full | cursor and file agree with the text after every sequence of keys, each row shows its line or what others have drawn over it, and `Document` is implemented |
| `editor_limit` | an array of 2 lines, 1 row | the cursor stays in the text when splits fail and files are cut |
| `tree` | 5 nodes, names `a` and `a.ms`, 4 paths, 1 script at a time, 1 editor, 1 restart | one tree with unique names that holds the working directory, and `Namespace` is implemented |
| `shape` | sources of 9 lines from the menu of `MCShape`, with every instruction in one place, 3 labels, a stack of 8 | both passes agree on addresses, the data are where the labels say, and a run of the golem is a run of its source |
| `console` | screen of 2 by 2, 4 rows of scrollback, lines of 4, 2 lines of history, outputs of 0 and 4 cells | input, cursor, screen and window agree after every sequence of keys and whatever others draw between them |
| `keyboard` | 8 keys, 2 of them down, 1 Shift at a time, 5 bytes not yet taken | events arrive as typed, and `KeyQueue` is implemented |
| `sigil` | pictures of 3 by 2 and 1 by 2, 2 colours, 3 other contents of the file | screen and file agree with the bitmap while others draw and write, and `Canvas` is implemented |
| `read_error_formats` | those of `disk` | ends in a violation, see below |

Why the bounds are enough.  `tasks`: three slots besides the two protected ones give a golem that is
waited for, an application that is reaped meanwhile and a slot that is reused; the
wraith passes every slot in between.  `kernel`: two workers fill the table, so that creating
fails, slots are reused by another kind, and the focus cycles among three; two commands
in a script are what it takes to give the focus away and go on.  `heap`: three
blocks and a free one between each two fit, so a block is freed with free neighbours on no side,
on either and on both; 20 bytes need rounding, and both limits of splitting
occur.  `disk`: three fixed directories and two files make one full and one partial
sector of nodes, so the table grows and shrinks by a sector, and texts of one and two cells
start and end inside of sectors.  `editor`: three symbols give one to four
lines, more than the two rows, so that a row below, above and behind the cursor's is drawn, kept or blanked.  `tree`: five nodes are the three of `vfs_init` and two more
that can lie in each other, in different directories with the same name, or in the root.
`shape`: labels before and behind their uses and in both sections, sections that are left and
entered again, an entry at the start, behind other code and at the end; the one place that takes every
instruction has branches and labels before and after it.  `console`: a line wraps, fills the
screen, scrolls the buffer while it is edited and shifts the scrollback; the window is on it, partly on it
or away from it.  `keyboard`: five bytes are an extended key with its shift behind another key,
so that every state of the decoder meets every byte.  `sigil`: neither picture is square, one has
a byte that is no colour.
The symmetry of the file names is used in `disk`, which checks no liveness.

Deadlock is checked except in `editor` and `editor_limit`, where a closed editor stops, in
`tree`, where a kernel that works on freed memory stops, and in `shape`, where a source is refused or a
golem ends.

### Fairness

`tasks` assumes `WF(TaskNext)`: the processor runs on and the code that a task runs reaches its
next yield.  Nothing is assumed about which task runs - round robin must do that - nor about
commands, nor about a golem ever ending; `WaitReturns` has the end of the golem as its hypothesis.
`kernel` assumes `WF(Next)`, the same for the loops, and `WF(PollEmpty)`: someone who
types does not type at every single poll, which the loops of the program rely on to yield.
Its property `TaskFairSpec` shows that these loops justify what `tasks` assumes.
`Lifecycle`'s fairness is a part of what `tasks` checks.

## Where the code does something else

The run `read_error_formats` ends in a violation of what the repository says: a failed read of the superblock is
taken for an empty disk, and an intact file system is overwritten at the start (`vfs.c:634`; `main.c:36`
says "no fs present, make fresh one").

The models contain more of them.  Each is a property that is defined in its module and fails when
it is put into the run's cfg in place of the properties there, with the change in the third column
(and without the fairness, `SPECIFICATION Spec`):

| property | run | change | what happens |
|---|---|---|---|
| `KeysGoToFocusedApp` | `kernel` | - | `glm_api_getch` reads the keyboard without asking Janus: a golem summoned by a script takes the keys of the application that has the focus (`glm.c:208`; README.md:21 says "Focus-based input routing with Janus") |
| `ShellRedrawsFirst` | `kernel` | - | a prompt of a script takes a key before the shell has redrawn its screen (`shell.c:314`) |
| `BuffersReclaimed` | `kernel` | - | what a killed editor had on the heap is lost (`task.c:123`) |
| `ChangesAreSavedOrDirty` | `disk` | - | a `formatfs` whose save fails leaves the empty tree clean (`shell.c:405`) |
| `ForeignDiskIsKept` | `disk` | - | after a failed mount the next command overwrites the disk (`main.c:38`) |
| `CleanTextIsInFile` | `editor_limit` | - | Enter with 512 lines drops the text right of the cursor, and the text still counts as saved, so that `q` does not ask (`scribe.c:457`) |
| `SavedLinesReturn` | `editor` | - | a line that ends with a carriage return when it is loaded loses it when it is saved and loaded again (`scribe.c:102`) |
| `ScreenIsOwn` | `editor` | - | a script, a golem it summons or an application that starts draws over an editor that has the focus and has drawn its screen (`shell.c:100`, `janus.c:160`); its rows come back only as far as a key draws them, or when the focus was away |
| `SavingKeepsLines` | `editor_limit` | `MaxText = 5`, `Files <- MCLongFile` | saving a file of more than 512 lines cuts it (`scribe.c:97`) |
| `NamesUnique` | `tree` | `Names <- MCLongNames`, `NameMax = 3` | names that differ behind the 31st character become the same (`vfs.c:330`) |
| `WarpReturns` | `tree` | as above | renaming a name of 31 characters never ends (`vfs.c:764`) |
| `DirsCanBeEntered` | `tree` | `Names <- MCPNames` | a directory whose name begins with `P` cannot be entered (`vfs.c:101`) |
| `CwdInTree`, `ImplementsNamespace` | `tree` | `Names <- MCBaseNames` | a file named like the base directory is the working directory after a restart; burning or replacing it frees what was created in it, or the working directory (`vfs.c:91`) |
| `EditorKeepsItsFile` | `tree` | - | after a `cd` the editor saves into another file of the same name (`scribe.c:488`) |
| `ScriptTextLives` | `tree` | - | a line of a script that writes or burns the script frees the text the next line is read from (`shell.c:97`; `vfs.h:70` calls it "returned file contents") |
| `InputIsDrawn` | `console` | - | a shorter line that is recalled while the window is scrolled away leaves the end of the longer one behind it (`shell.c:294` "redraw input and place cursor") |
| `HistoryHasNoRepeats` | `console` | - | a line that is cut when it is remembered is compared whole, and is remembered again (`shell.c:56` "avoid duplicate consecutive entries") |
| `EntryIsCode` | `shape` | - | a golem whose entry has no statement behind it is spawned and runs its data (`glm.c:348`) |
| `KeysArriveAsTyped` | `keyboard` | `ShiftsAtOnce = 2` | after one of two Shift keys is released, the next key is taken without Shift (`keyboard.c:43`) |
| `OnlyReadRunesAreReplaced` | `sigil` | - | a file that could not be read as a rune is opened as a new one, and saving overwrites it (`sigildraw.c:141`) |
| `ViewShowsRune` | `sigil` | - | a picture that is viewed is not drawn again after the focus was away (`glyph.c:11`) |

What `tree` shows of names holds for names that are not cut, do not begin with `P` and are not those
of the first tree; this is the reason for its choice of names.

## Proofs

`KernelProofs` begins with the task table, for every `MAX_TASKS` of at least 3, every positive `DelayYields` and every set of exit
codes: `TypeCorrect`, `OneTaskRuns`, `CoreTasksSurvive`, `GolemsCollected`, `ZombiesStayDead`, `WaitCollects`, and
`TasksImplementLifecycle` (the safety part, `Life!Spec`).  The invariant `TaskInv` is the conjunction of
the type invariant, `OneRunning`, `CoreTasksStay`, `GolemsAreWaitedFor` and three
strengthenings: a free slot is `NoTask` in every field (`EmptySlots`), before the boot all slots are
(`BeforeBoot`), and applications are reaped by the wraith while golems are children of the shell
(`WorkerKinds`).  They are needed because the wraith decides by the flag and the parent's slot
whether it may take a zombie: only with `WorkerKinds` and the shell's presence does it
follow that it never takes the one `task_wait` is looking for.  `schedule()` is dealt with once, in
lemmas about what it does to a table in which the wraith can run; each action then has
one step.

Its second part is about the composition, for every table and every length of scripts: `KernelImplementsTasks` says that what the loops
and Janus do to the table are steps of `Tasks`, so that all of the first part holds of the composition and need
not be proved again; `JanusAgrees`, `ImagesAreFreed` and `FocusHandedOver` follow from `KernelInv`.  It adds to
`TaskInv` the types of the loops' variables, `ImagesMatchGolems` and `Sessions`, whose strengthening is
`ShellRegisters`: nobody has the focus before the shell has registered, and the shell never leaves Janus.
Without it a focus that is taken from a dead application might find nobody to go to.  Of the table only
the names and which slots are in use matter to Janus (`Kept`), so each operation of `Tasks` is
dealt with once and each of Janus once, and an action combines two of them.  For `FocusHandedOver`,
`FocusMovers` names the steps that can move the focus; a poll, an application that closes and a command are the
focused task's or the shell's, and what is left are the reaping and collecting of tasks, where
`janus_forget_task` moves the focus only from the task it forgets, which is a zombie.

`HeapProofs`, for every start, bound and set of requests: `TypeCorrect`, `ListStaysWhole`,
`MergingIsComplete`, `NothingLostOrShared`, `NoLastingFragments` and `HeapImplementsAllocator`.
The invariant `Inv` is the type invariant with `ListLinked`, `BlocksInOrder`, `NoFreeNeighbours`, `HeldInBlocks`
and the bound of the break (`Room`).  None of its parts is inductive alone: the merges rely on
the links, the links on the order, and that nothing is shared on both.  The proof works on tables of
blocks: one lemma each for splitting, appending and the two merges says that a table
which is linked (`NextOK`, `PrevOK`) and ordered stays so; `Whole` and `Separate` (no free
neighbours) are split because in the middle of `kfree` the second does not hold.

`ShapeProofs`, for every menu of well-formed lines and every `MaxLabels`: `InvHolds`,
`AddressesAlwaysAgree` and `DataAreInImage`.  `AddressesAgree` alone is not inductive, because it speaks of the second pass and the
first has to have left the right record: `Chained` says that the record of each line
follows from the one before it by the line's section and size, `Reading` that the first pass
stands behind its last record, and `Followed` that the second stands at the record of its line.  What makes
the step from one record to the next the same in both passes is the lemma `EncodedLength`: for every operation
that is accepted, the bytes are as many as `SizeOf` says.  `DataInImage` says where the data are by the lines
alone; `MarksAreBefore` shows that what the first pass counted is the same (section lines anywhere, statements of
both sections between them), and `DataInv` follows the bytes from the buffer (`Emitted`) through the file
into the image (`LoadedData`).

`SigilProofs`, for every number of colours, all sizes and contents: `CleanRuneKept`, `ScreenKept` and
`SigilImplementsCanvas`.  The invariant is the type invariant, `CursorInRune`, that nothing is left of a closed
editor (`NothingLeft`), `ScreenIsDrawn` (each place shows what the editor last drew there, which is the bitmap as it
is now, or the mark of others) and `CleanRuneIsInFile`.  The viewer's screen is not covered by `ScreenKept`.  All of it rests on the place of a pixel in its array: no two places share one
(`PixelsApart`), none is outside (`PixelInArray`), and what is saved is what is loaded
(`SavedIsLoaded`).

`ScribeProofs`, for every size of the screen and of the array of lines, every width of a tab and all contents
of the file: `CursorStaysInText`, `CursorStaysVisible`, `ScreenKept`, `ScribeImplementsDocument` and
`CleanTextKept`.  The first two hold where splits fail and files are cut as well; the other three assume
that no split fails (`[][~SplitFails]_vars`), because a split that fails drops the end of the line from the
text and leaves it on the screen, and `modified` does not say so.  `Loads` is about the file: between two line
ends that follow each other there is no third, which is proved by counting them (`Rank`).  For the screen there is one
lemma for each key: the cursor it hands to `View` is in the text, and the lines of the rows it does not name have not
changed, so that these rows show them still or the marks of others.  For the text, what stands before the cursor's line, the line, and what stands after it are three pieces of one text
(`JoinAround`); a key changes the middle one, or moves a line break between it and its neighbour
(`SplitIs`, `MergedIs`), and comes out as the one insertion or deletion that `Document` allows at the point.  Its step needs the type of
the buffer in `Inv`, and that the cursor is in the text.  For the file, `Clean` says that a text without the
mark is `Load(file)` or has been saved as it is.  In the second case the lines that loading finds are the lines saved: the line ends of the
joined text are just where its lines end (`BreaksAreEnds`: there is no line break within a line), in their order
(`EndsGrow`), so the n-th is the end of the n-th line (`EndIs`).

`VfsDiskProofs`, for all sizes, contents and any number of failures: `OnlySavesClean`, `ReadsReturn` and
`RestartsRestore`.  The first needs no invariant; every way through `vfs_save` is looked at.  The second rests on
`Inv`: a file that is not in memory has its cells on the disk at its offset behind `dataLba`, and what
a save has written is in its place even when the save is cut off.  The third adds in `SavedInv` that the
disk holds the image of what was saved last (`Kept`).  The lemmas below them show that the mount undoes the
image: a node is found in the sector and the place it was cut to, a cell at its file's offset, and the links lead
through all the files in their order.

`VfsTreeProofs`, for every number of nodes, every set of paths, and every set of names that are
plain: `TreeStaysWhole` and `TreeImplementsNamespace`.  `PlainNames` (no name is longer than a node's or equal to that of the base
directory) is a hypothesis of the theorem and not an assumption of the module, because the code does not refuse other names and
does not keep the tree whole with them: `NamesUnique` and `CwdInTree` are in the table above.  `OneTree` is
not inductive, since that every node is below the root does not say how a move changes the way there.  The
invariant `IInv` has a depth for each node instead, one more than its parent's.  From it follow that `Above`, which
takes as many steps as there may be nodes, reaches the root (`WayHolds`), and that `Subtree` is
closed (`SubtreeIs`).  A move takes a node out of one list and puts it into another; in between the tree is whole but for
that node (`Loose`), and each half has one lemma (`UnlinkKeeps`, `LinkKeeps`), which `mkdir`, `fab`, `burn` and all
forms of `warp` share; `DeepenKeeps` gives the moved subtree its new depths, which is possible because `IsBusy`
refuses a destination inside of it.  That `burn` and a replacing `warp` never free the working directory, although neither
compares with it, comes out of two facts: they free only nodes without children, and what is moved or burnt lies in the
working directory.

For the refinement, the invariant says that every node has a path, which is its parent's with its own name behind
(`PathsExist`, `PathsFixed`).  What holds at the root, and of a child when it holds of its parent, holds of every node
(`DownTheTree`): so no two nodes have one path (`PathsApart`: names are unique in a directory), and the paths that
begin with a node's are those of the nodes below it (`PathsBelow`).  A command that leaves a node and all above it where
they were leaves its path (`SamePaths`).  What remains of a command is then one entry more (`CreatedEntry`), one
that is another (`ChangedEntry`), one less (`DeletedEntry`), or the paths of one subtree renamed at
their beginning (`MovedPaths`, `MovedEntries`); `WarpSteps` tells the forms of `warp` apart, with the replaced
file freed first.

`ConsoleProofs`, for every size of the screen and of the scrollback, all prompts and outputs and every length of
the history: `LineHasItsPlace`, `ScreenShowsWindow`, `KeysEditInPlace` and `OutputSeen`.  The
screen is the window after each function of the driver (`Drawn`), wherever the cursor stands; for what is written this is an
induction over the characters (`WriteDraws`), with the column allowed one step behind the row
while a character is put there (`Drafts`).  A place of the line is divided into its row and column and put
together again (`PlaceOfCell`), so that `redraw_input_region` draws each cell of the line in the scrollback and
on the screen alike and no cell before it (`LineIsShown`).  Each key leaves what `KeyDone` says, the
buffer that is enlarged holds the line (`RoomIsEnough`), and an entry of the history is cut to what fits.  The
invariant `Kept` adds to the properties that the window follows the tail, and has the last row in it, as
long as a command runs (`TailKept`): without that nothing is known of where its output goes.  What other tasks
draw is written at a place of the window and leaves all of this as it is, except where the terminal would go on writing.

Recursive functions and folds (`Offset`, the list of `vfs_load`, the ways of `Above` and `Resolve`, `Join`, `Write`, `RoomFor`) are reasoned about by
induction from the least counterexample (`LeastOfSome`), since the induction theorems of the library take an operator
and cannot be instantiated; that such a function exists is proved by induction on its domain.

The assumptions are those of the modules (`ASSUME`), which TLC evaluates in each run.

Only model-checked: liveness and what rests on fairness, which needs ENABLED (`TaskFairSpec`,
`ImplementsLifecycle` with its fairness, ...); the bytes of a key press in `Keyboard`, and the
runs in `Golem`.  `CleanTextIsInFile` and
`ImplementsDocument` do not hold at the limit of lines, and are checked below it.

## Not modelled

Descriptor tables, the interrupt controller and the fault screens are
set up once or halt the machine; strings are pure functions of texts the models abstract; what is
printed is left out everywhere but in the text areas of the editors and on the console.  The text processing of
the assembler and of the shell's commands (trimming, numbers, quoting) is left out: their models begin with the
parts of a line.  Golem files that the assembler has not written, the traced API, colours, the tab bar
and the overlays are left out.  Memory is limited only in `Heap`, and `kmalloc` may fail where that
is said (`Shape`, `Golem`, `Sigil`, `Console`).  The controller's queue of bytes never overflows in `Keyboard`.

## Plan

1. Proofs: that `Golem` implements `Program`.
2. Foreign golem files: headers that the assembler does not write, against what `glm_validate` lets
   through.
3. A second Shift key and the right Alt in `Keyboard`, should the driver learn to tell them apart.
