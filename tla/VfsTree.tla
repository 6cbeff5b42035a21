------------------------------ MODULE VfsTree ------------------------------
(***************************************************************************)
(* The tree of the file system (OS/src/fs/vfs.c), the shell commands that  *)
(* work on it (OS/src/kernel/shell.c), and two that use it for longer than *)
(* one call: a script whose lines are executed from the file's own buffer, *)
(* and an editor that runs as a task of its own.                           *)
(*                                                                         *)
(* A name is a sequence of characters, with the letters of the extension   *)
(* of spells as one.  A path is the sequence of its parts, none longer     *)
(* than a name can be, and whether it begins with a slash.  Sibling lists  *)
(* are sequences.  What is on the disk, and the dirty flag, is in VfsDisk; *)
(* here a restart finds the tree as it was.                                *)
(***************************************************************************)
EXTENDS Integers, FiniteSets, SequencesExt

CONSTANTS
  Names,        \* what is typed for a name
  Targets,      \* what is typed for a path
  NameMax,      \* characters in a node's name, 31 in the code
  MaxNodes,     \* bound on the nodes at a time
  ScriptDepth,  \* SCRIPT_DEPTH_MAX
  MaxEditors,   \* bound on the editors at a time, 0 or 1
  MaxRestarts   \* bound on the restarts

\* The tree of vfs_init has three nodes.
ASSUME BoundsAssumption ==
  /\ NameMax \in Nat /\ NameMax > 1
  /\ MaxNodes \in Nat /\ MaxNodes > 2
  /\ ScriptDepth \in Nat /\ MaxEditors \in Nat /\ MaxRestarts \in Nat

ASSUME TypedAssumption ==
  /\ Names \subseteq Seq(STRING)
  /\ \A path \in Targets : path.parts \in Seq(Seq(STRING))

VARIABLES
  tree,      \* the nodes by their numbers; g_root is number 0
  cwd,       \* g_cwd
  asked,     \* the warp that waits for the answer to a name conflict
  casting,   \* for each script that runs, the file its text is in
  editor,    \* the name the editor saves to and the file it has opened
  kernel,    \* "runs", "hung" in a loop that does not end, or "wild" on freed memory
  restarts

vars == <<tree, cwd, asked, casting, editor, kernel, restarts>>

Root == 0
None == -1
Freed == -2            \* a buffer that is on the heap's free list
NotAsked == <<>>
NoEditor == <<>>

Dot == "."
Ext == <<".", "ms">>
SelfName == <<Dot>>
ParentName == <<Dot, Dot>>
RootName == <<"P">>
RootDirName == <<"r">>     \* "root"
BaseName == <<"b">>        \* "base"
Digits == <<"1", "2", "3", "4", "5", "6", "7", "8", "9">>

Nodes == DOMAIN tree
Cut(name) == IF Len(name) <= NameMax THEN name ELSE SubSeq(name, 1, NameMax)
IsSpell(name) == IsSuffix(Ext, name)

-----------------------------------------------------------------------------
\* Definitions named Bug... are mistakes that the properties must notice, not part of
\* the model.

\* Nodes.
NewNode(type, name, parent) ==
  [type |-> type, name |-> name, parent |-> parent, children |-> <<>>,
   text |-> "empty", learned |-> FALSE]

\* vfs_init
FirstTree ==
  [n \in 0..2 |->
     CASE n = 0 -> [NewNode("dir", RootName, None) EXCEPT !.children = <<1>>]
       [] n = 1 -> [NewNode("dir", RootDirName, 0) EXCEPT !.children = <<2>>]
       [] n = 2 -> NewNode("dir", BaseName, 1)]

\* find_child: the first one with the name
Find(dir, name) ==
  LET i == SelectInSeq(tree[dir].children, LAMBDA c : tree[c].name = name)
  IN  IF i = 0 THEN None ELSE tree[dir].children[i]

IsDir(n) == tree[n].type = "dir"

\* path_is_absolute
IsAbsolute(path) ==
  path.slash \/ (path.parts # <<>> /\ Head(Head(path.parts)) = Head(RootName))

Enter(dir, part) ==
  IF dir = None THEN None
  ELSE CASE part = SelfName -> dir
         [] part = ParentName -> IF tree[dir].parent = None THEN dir ELSE tree[dir].parent
         [] part = RootName /\ dir = Root -> dir
         [] OTHER -> LET c == Find(dir, part)
                     IN  IF c # None /\ IsDir(c) THEN c ELSE None

\* resolve_dir_path
Resolve(path) ==
  LET at[k \in 0..Len(path.parts)] ==
        IF k = 0 THEN IF IsAbsolute(path) THEN Root ELSE cwd
        ELSE Enter(at[k - 1], path.parts[k])
  IN  at[Len(path.parts)]

\* n and the directories it is in
Above(n) ==
  LET up[k \in 0..MaxNodes] ==
        IF k = 0 THEN n
        ELSE IF up[k - 1] = None THEN None ELSE tree[up[k - 1]].parent
  IN  {up[k] : k \in 0..MaxNodes} \ {None}

\* node_alloc, link_child and remove_child
With(t, n, node) == [m \in DOMAIN t \cup {n} |-> IF m = n THEN node ELSE t[m]]

Linked(t, n, dir) ==
  [t EXCEPT ![dir].children = <<n>> \o @, ![n].parent = dir]

Unlinked(t, n) ==
  [t EXCEPT ![t[n].parent].children = RemoveFirst(@, n)]

\* free_subtree
Subtree(n) == {m \in Nodes : n \in Above(m)}
Freeing(t, ns) == [m \in DOMAIN t \ ns |-> t[m]]

\* Whoever reads a buffer that is freed reads freed memory from now on.
FreeTexts(ns) ==
  /\ casting' = [i \in DOMAIN casting |-> IF casting[i] \in ns THEN Freed ELSE casting[i]]
  /\ editor' = IF editor # NoEditor /\ editor.file \in ns
               THEN [editor EXCEPT !.file = Freed] ELSE editor

NoTextFreed == UNCHANGED <<casting, editor>>

Unused == Min(0..MaxNodes \ Nodes)

-----------------------------------------------------------------------------
\* Commands of the shell, which takes none while it waits for an answer.
Shell == kernel = "runs" /\ asked = NotAsked

Added(type, name) ==
  /\ Find(cwd, name) = None
  /\ Cardinality(Nodes) < MaxNodes
  /\ tree' = Linked(With(tree, Unused, NewNode(type, Cut(name), cwd)), Unused, cwd)

Mkdir(name) ==
  /\ Shell /\ Added("dir", name)
  /\ UNCHANGED <<cwd, asked, casting, editor, kernel, restarts>>

Fab(name) ==
  /\ Shell /\ Added("file", name)
  /\ UNCHANGED <<cwd, asked, casting, editor, kernel, restarts>>

Cd(path) ==
  /\ Shell
  /\ Resolve(path) # None
  /\ cwd' = Resolve(path)
  /\ UNCHANGED <<tree, asked, casting, editor, kernel, restarts>>

FileAt(name) == LET n == Find(cwd, name) IN IF n # None /\ ~IsDir(n) THEN n ELSE None

\* vfs_carve_bytes: the file gets a new buffer, the old one is freed.
Carved(n, text) ==
  /\ tree' = [tree EXCEPT ![n].text = text]
  /\ casting' = [i \in DOMAIN casting |-> IF casting[i] = n THEN Freed ELSE casting[i]]

Carve(name) ==
  /\ Shell
  /\ FileAt(name) # None
  /\ Carved(FileAt(name), "carved")
  /\ UNCHANGED <<cwd, asked, editor, kernel, restarts>>

Learn(name) ==
  /\ Shell
  /\ FileAt(name) # None /\ IsSpell(name)
  /\ tree' = [tree EXCEPT ![FileAt(name)].learned = TRUE]
  /\ UNCHANGED <<cwd, asked, casting, editor, kernel, restarts>>

\* Directories are deleted with what is in them.
BugBurn(name) ==
  LET n == Find(cwd, name)
  IN  /\ Shell
      /\ n # None
      /\ tree' = Freeing(Unlinked(tree, n), Subtree(n))
      /\ FreeTexts(Subtree(n))
      /\ UNCHANGED <<cwd, asked, kernel, restarts>>

\* vfs_burn: only directories are looked into
Burn(name) ==
  LET n == Find(cwd, name)
  IN  /\ Shell
      /\ n # None
      /\ IsDir(n) => tree[n].children = <<>>
      /\ tree' = Freeing(Unlinked(tree, n), Subtree(n))
      /\ FreeTexts(Subtree(n))
      /\ UNCHANGED <<cwd, asked, kernel, restarts>>

\* formatfs: the old tree stays on the heap.
Format ==
  /\ Shell
  /\ tree' = FirstTree /\ cwd' = 2
  /\ casting' = [i \in DOMAIN casting |-> IF casting[i] \in Nodes THEN None ELSE casting[i]]
  /\ editor' = IF editor = NoEditor THEN editor ELSE [editor EXCEPT !.file = Freed]
  /\ UNCHANGED <<asked, kernel, restarts>>

-----------------------------------------------------------------------------
\* vfs_warp.

\* make_renamed_name: a mark and a number before the extension, and the end cut away
Renamed(name, i) ==
  LET dots == {k \in DOMAIN name : name[k] = Dot}
      dot  == IF dots = {} THEN Len(name) + 1 ELSE Max(dots)
      stem == SubSeq(name, 1, dot - 1)
      mark == IF Len(stem) + 1 < NameMax THEN <<"_">> ELSE <<>>
  IN  Cut(stem \o mark \o <<Digits[i]>> \o SubSeq(name, dot, Len(name)))

\* The numbers that give a free name; more are not needed than there are nodes.
FreeNumbers(dir, name) == {i \in 1..MaxNodes : Find(dir, Renamed(name, i)) = None}

\* A directory may be moved into itself.
BugIsBusy(src, dest) == src = Root

IsBusy(src, dest) ==
  src = Root \/ src = dest \/ (IsDir(src) /\ src \in Above(dest))

Moved(t, src, dest, name) ==
  Linked([Unlinked(t, src) EXCEPT ![src].name = name], src, dest)

CanWarp(name, path) ==
  LET src == Find(cwd, Cut(name)) dest == Resolve(path)
  IN  /\ src # None
      /\ dest # None /\ IsDir(dest)
      /\ ~IsBusy(src, dest)

\* What is in the way of the file or directory at the destination
Existing(name, path) ==
  LET src == Find(cwd, Cut(name)) e == Find(Resolve(path), Cut(name))
  IN  IF e = src THEN None ELSE e

WarpPlain(name, path) ==
  /\ CanWarp(name, path) /\ Existing(name, path) = None
  /\ tree' = Moved(tree, Find(cwd, Cut(name)), Resolve(path), Cut(name))
  /\ NoTextFreed /\ UNCHANGED kernel

Replaces(e) == IsDir(e) => tree[e].children = <<>>

\* What is moved may be in what is replaced when that is a file with children (Restart):
\* the node is then used after it is freed.
WarpOver(name, path) ==
  LET e == Existing(name, path)
  IN  /\ CanWarp(name, path) /\ e # None
      /\ Replaces(e)
      /\ IF Find(cwd, Cut(name)) \in Subtree(e)
         THEN kernel' = "wild" /\ NoTextFreed /\ UNCHANGED tree
         ELSE /\ tree' = Moved(Freeing(Unlinked(tree, e), Subtree(e)),
                               Find(cwd, Cut(name)), Resolve(path), Cut(name))
              /\ FreeTexts(Subtree(e)) /\ UNCHANGED kernel

\* The loop over the numbers ends only with a free name.
WarpRename(name, path) ==
  LET free == FreeNumbers(Resolve(path), Cut(name))
  IN  /\ CanWarp(name, path) /\ Existing(name, path) # None
      /\ IF free # {}
         THEN /\ tree' = Moved(tree, Find(cwd, Cut(name)), Resolve(path),
                               Renamed(Cut(name), Min(free)))
              /\ UNCHANGED kernel
         ELSE kernel' = "hung" /\ UNCHANGED tree
      /\ NoTextFreed

Warp(name, path) ==
  /\ Shell
  /\ CanWarp(name, path)
  /\ IF Existing(name, path) = None
     THEN WarpPlain(name, path) /\ UNCHANGED asked
     ELSE asked' = <<name, path>> /\ NoTextFreed /\ UNCHANGED <<tree, kernel>>
  /\ UNCHANGED <<cwd, restarts>>

\* The answer: y, o or r calls vfs_warp again, n does not.
WarpAnswered ==
  /\ kernel = "runs" /\ asked # NotAsked
  /\ LET name == asked[1] path == asked[2]
     IN  \/ WarpPlain(name, path)
         \/ WarpOver(name, path)
         \/ WarpRename(name, path)
         \/ NoTextFreed /\ UNCHANGED <<tree, kernel>>
  /\ asked' = NotAsked
  /\ UNCHANGED <<cwd, restarts>>

-----------------------------------------------------------------------------
\* shell_cast_script: the lines, which are commands of the shell, are read one after the
\* other from the buffer of the file.
Cast(name) ==
  /\ Shell
  /\ FileAt(name) # None /\ IsSpell(name)
  /\ tree[FileAt(name)].learned /\ tree[FileAt(name)].text # "empty"
  /\ Len(casting) < ScriptDepth
  /\ casting' = Append(casting, FileAt(name))
  /\ UNCHANGED <<tree, cwd, asked, editor, kernel, restarts>>

\* The last line of the innermost script is done.
CastEnds ==
  /\ Shell
  /\ casting # <<>>
  /\ casting' = Front(casting)
  /\ UNCHANGED <<tree, cwd, asked, editor, kernel, restarts>>

\* scribe as an application of Janus: it opens the name in the working directory of that
\* moment, or creates it, whatever the shell is waiting for.
EditorOpens(name) ==
  LET n == Find(cwd, name)
  IN  /\ kernel = "runs" /\ editor = NoEditor /\ MaxEditors > 0
      /\ \/ /\ n # None /\ ~IsDir(n)
            /\ editor' = [name |-> Cut(name), file |-> n]
            /\ UNCHANGED tree
         \/ /\ Added("file", name)
            /\ editor' = [name |-> Cut(name), file |-> Unused]
      /\ UNCHANGED <<cwd, asked, casting, kernel, restarts>>

\* scribe_save: the name is looked up again.
EditorSaves ==
  /\ kernel = "runs" /\ editor # NoEditor
  /\ FileAt(editor.name) # None
  /\ Carved(FileAt(editor.name), "edited")
  /\ UNCHANGED <<cwd, asked, editor, kernel, restarts>>

EditorCloses ==
  /\ kernel = "runs" /\ editor # NoEditor
  /\ editor' = NoEditor
  /\ UNCHANGED <<tree, cwd, asked, casting, kernel, restarts>>

\* exit and a start: vfs_load looks for the base directory by its names.
Restart ==
  LET dir  == Find(Root, RootDirName)
      base == IF dir = None THEN None ELSE Find(dir, BaseName)
  IN  /\ Shell /\ restarts < MaxRestarts
      /\ restarts' = restarts + 1
      /\ cwd' = IF base = None THEN Root ELSE base
      /\ casting' = <<>> /\ editor' = NoEditor
      /\ UNCHANGED <<tree, asked, kernel>>

Init ==
  /\ tree = FirstTree /\ cwd = 2
  /\ asked = NotAsked /\ casting = <<>> /\ editor = NoEditor
  /\ kernel = "runs" /\ restarts = 0

Command(name) ==
  Mkdir(name) \/ Fab(name) \/ Carve(name) \/ Learn(name) \/ Burn(name) \/ Cast(name)

Next ==
  \/ \E name \in Names : Command(name) \/ EditorOpens(name)
  \/ \E path \in Targets : Cd(path)
  \/ \E name \in Names, path \in Targets : Warp(name, path)
  \/ WarpAnswered
  \/ CastEnds \/ EditorSaves \/ EditorCloses
  \/ Format
  \/ Restart

Spec == Init /\ [][Next]_vars

-----------------------------------------------------------------------------
(* Properties *)

TypeOK ==
  /\ Nodes \subseteq 0..MaxNodes /\ Root \in Nodes
  /\ \A n \in Nodes : /\ tree[n].type \in {"dir", "file"}
                      /\ Len(tree[n].name) \in 1..NameMax
                      /\ tree[n].text \in {"empty", "carved", "edited"}
                      /\ tree[n].learned => tree[n].type = "file"
  /\ Len(casting) <= ScriptDepth
  /\ kernel \in {"runs", "hung", "wild"} /\ restarts \in 0..MaxRestarts

\* Each node is in the list of its parent, once, in no other list, and below the root: a
\* cycle would make is_ancestor and the save run forever, and a node outside is lost with
\* all below it.
OneTree ==
  /\ \A n \in Nodes :
       /\ \A i \in DOMAIN tree[n].children :
            tree[n].children[i] \in Nodes /\ tree[tree[n].children[i]].parent = n
       /\ IsInjective(tree[n].children)
       /\ n # Root => /\ tree[n].parent \in Nodes
                      /\ Contains(tree[tree[n].parent].children, n)
       /\ Root \in Above(n)
  /\ tree[Root].parent = None

\* g_cwd points into the tree: neither burn nor an overwriting warp frees it, although
\* neither compares the node it frees with g_cwd.
CwdInTree == cwd \in Nodes /\ kernel # "wild"

\* find_child would never reach the second.
NamesUnique ==
  \A n, m \in Nodes : tree[n].parent = tree[m].parent /\ tree[n].name = tree[m].name => n = m

\* The nodes are one tree, with no two nodes of one name in a directory, and the working
\* directory in it, after every sequence of moves, overwrites and deletions, of the shell
\* and of an editor in between (vfs_warp, vfs_burn, vfs_carve).
WholeTree == TypeOK /\ OneTree /\ NamesUnique /\ CwdInTree

\* A warp returns.
WarpReturns == kernel # "hung"

\* A directory in the working directory can be entered by its name.
DirsCanBeEntered ==
  \A i \in DOMAIN tree[cwd].children :
    LET c == tree[cwd].children[i]
    IN  IsDir(c) => Resolve([slash |-> FALSE, parts |-> <<tree[c].name>>]) = c

\* As long as the file that the editor has opened is in the tree, the editor saves to it
\* and to no other.
EditorKeepsItsFile ==
  [][EditorSaves /\ editor.file # Freed => FileAt(editor.name) = editor.file]_vars

\* The text of a script is there as long as its lines are executed.
ScriptTextLives == \A i \in DOMAIN casting : casting[i] # Freed

-----------------------------------------------------------------------------
(* The tree implements the paths of Namespace. *)

PathOf[n \in Nodes] ==
  IF n = Root THEN <<>> ELSE Append(PathOf[tree[n].parent], tree[n].name)

Entry(n) == IF IsDir(n) THEN [type |-> "dir"]
            ELSE [type |-> "file", text |-> tree[n].text, learned |-> tree[n].learned]

Entries ==
  [p \in Range(PathOf) |-> Entry(CHOOSE n \in Nodes : PathOf[n] = p)]

FirstPaths == {<<>>, <<RootDirName>>, <<RootDirName, BaseName>>}

N == INSTANCE Namespace WITH
       entries <- Entries, place <- PathOf[cwd],
       FirstEntries <- [p \in FirstPaths |-> [type |-> "dir"]],
       FirstPlace <- <<RootDirName, BaseName>>

\* Each command changes the paths it is about and no other: creating, writing, burning
\* and moving whole directories, with and without replacing.
ImplementsNamespace == N!Spec
=============================================================================
