------------------------------ MODULE VfsDisk ------------------------------
(***************************************************************************)
(* The file system and its image on the disk (OS/src/fs/vfs.c, the mount   *)
(* in OS/src/kernel/main.c and the saves of OS/src/kernel/shell.c).        *)
(*                                                                         *)
(* The tree is the three fixed directories /P/root/base and a list of      *)
(* files in base; the image is one superblock, the table of the nodes and  *)
(* the files' data packed behind each other.  Sectors hold a small number  *)
(* of nodes or cells of data, and no node lies across two sectors.  No     *)
(* operation yields, so only the disk and the power interfere: a read or   *)
(* a write fails, or the power goes between two sectors, MaxFaults times.  *)
(* Contents are text, which never looks like a node when it is read as one.*)
(***************************************************************************)
EXTENDS Integers, Sequences

CONSTANTS
  Names,            \* file names
  Texts,            \* what is written into files, as sequences of cells
  MaxText,          \* bound on the cells of a text
  NodesPerSector,
  SectorCells,      \* cells of data in a sector
  NodeLimits,       \* values of MAX_NODES_SNAPSHOT, each in behaviours of its own
  MaxFaults,        \* bound on the failures of the disk and the power
  LastLba,          \* bound on the sectors of the image, which none reaches
  FirstDisks        \* what the first sector holds before the first start

ASSUME NodesPerSectorAssumption == NodesPerSector \in Nat /\ NodesPerSector > 2
ASSUME SectorCellsAssumption == SectorCells \in Nat \ {0}
ASSUME TextsAssumption ==
  /\ MaxText \in Nat
  /\ \A text \in Texts : /\ text \in Seq({text[i] : i \in DOMAIN text})
                         /\ Len(text) \in 1..MaxText
ASSUME NodeLimitsAssumption == NodeLimits \subseteq Nat
ASSUME MaxFaultsAssumption == MaxFaults \in Nat
ASSUME FirstDisksAssumption == FirstDisks \subseteq {"none", "other"}

VARIABLES
  power,     \* "off", "fresh" (vfs_load found no file system), "on", "lost"
  files,     \* the file nodes in the order of the list
  dataLba,   \* g_mounted_data_lba
  dirty,     \* g_dirty
  disk,      \* the sectors from VFS_LBA_BASE on
  faults,    \* failures so far
  maxNodes,  \* MAX_NODES_SNAPSHOT
  truth,     \* what each file must be read as; not in the code
  saved      \* the tree of the last save that ended, or Torn; not in the code

vars == <<power, files, dataLba, dirty, disk, faults, maxNodes, truth, saved>>

NoLink == -1
Dirs == 3
Hole == "hole"                    \* a cell that is no part of a text
Torn == <<[name |-> "", data |-> <<Hole>>]>>

SectorsFor(n, size) == (n + size - 1) \div size    \* bytes_to_sectors

\* There is room for the image of every tree that vfs_save does not refuse.
ASSUME LastLbaAssumption ==
  /\ LastLba \in Nat
  /\ \A limit \in NodeLimits :
       limit >= Dirs =>
         SectorsFor(limit, NodesPerSector) + SectorsFor((limit - Dirs) * MaxText, SectorCells)
           <= LastLba

Fault == faults < MaxFaults /\ faults' = faults + 1

-----------------------------------------------------------------------------
\* Definitions named Bug... are mistakes that the properties must notice, not part of
\* the model.

\* load_file_bytes
CellAt(lba, pos) ==
  LET at    == lba + pos \div SectorCells
      cells == IF at \in DOMAIN disk THEN disk[at].cells ELSE <<>>
      i     == (pos % SectorCells) + 1
  IN  IF i <= Len(cells) THEN cells[i] ELSE Hole

Read(f, lba) == [i \in 1..f.size |-> CellAt(lba, f.off + i - 1)]

Loaded(f) ==
  IF f.loaded THEN f ELSE [f EXCEPT !.loaded = TRUE, !.data = Read(f, dataLba)]

\* The data that is not in memory is left out of the image.
BugMaterialized(fs) == fs

\* materialize_all_files when every read succeeds
Materialized(fs) == [i \in DOMAIN fs |-> Loaded(fs[i])]

-----------------------------------------------------------------------------
\* The image that vfs_save writes.
Sector(kind, count, nodes, cells) ==
  [kind |-> kind, count |-> count, nodes |-> nodes, cells |-> cells]

Node(type, name, child, next, off, len) ==
  [type |-> type, name |-> name, child |-> child, next |-> next, off |-> off, len |-> len]

Offset(fs, i) ==
  LET before[j \in 0..Len(fs)] == IF j = 0 THEN 0 ELSE before[j - 1] + Len(fs[j].data)
  IN  before[i - 1]

DirNodes(fs) ==
  <<Node("dir", "P", 1, NoLink, 0, 0), Node("dir", "root", 2, NoLink, 0, 0),
    Node("dir", "base", IF fs = <<>> THEN NoLink ELSE Dirs, NoLink, 0, 0)>>

FileNodes(fs) ==
  [i \in DOMAIN fs |->
     Node("file", fs[i].name, NoLink, IF i < Len(fs) THEN Dirs + i ELSE NoLink,
          IF fs[i].data = <<>> THEN 0 ELSE Offset(fs, i), Len(fs[i].data))]

Blob(fs) ==
  LET off == [i \in 1..Len(fs) + 1 |-> Offset(fs, i)]
  IN  [p \in 1..off[Len(fs) + 1] |->
         LET i == CHOOSE j \in DOMAIN fs : off[j] < p /\ p <= off[j + 1]
         IN  fs[i].data[p - off[i]]]

Chunk(seq, size, s) ==
  SubSeq(seq, (s - 1) * size + 1, IF s * size < Len(seq) THEN s * size ELSE Len(seq))

Image(fs) ==
  LET nodes == DirNodes(fs) \o FileNodes(fs)
      blob  == Blob(fs)
      table == SectorsFor(Len(nodes), NodesPerSector)
  IN  <<Sector("super", Len(nodes), <<>>, <<>>)>>
      \o [s \in 1..table |-> Sector("nodes", 0, Chunk(nodes, NodesPerSector, s), <<>>)]
      \o [s \in 1..SectorsFor(Len(blob), SectorCells) |->
            Sector("data", 0, <<>>, Chunk(blob, SectorCells, s))]

\* The first k sectors of an image reach the disk.
WritePrefix(image, k) ==
  disk' = [lba \in DOMAIN disk |-> IF lba < k THEN image[lba + 1] ELSE disk[lba]]

PowerOff ==
  /\ power' = "off" /\ files' = <<>> /\ truth' = <<>> /\ dataLba' = 0 /\ dirty' = FALSE

\* The tree in memory after an operation
Return(fs, t, d) ==
  power' = "on" /\ files' = fs /\ truth' = t /\ dirty' = d /\ UNCHANGED dataLba

\* A save that failed counts as one that ended.
BugAfterError(d) == FALSE

AfterError(d) == d    \* what a failed save leaves of the dirty flag

\* vfs_save of the files fs, which must read as t, when the dirty flag is d
ReadFails(fs, t, d) ==
  \E i \in DOMAIN fs :
    /\ ~fs[i].loaded /\ fs[i].size > 0 /\ Fault
    /\ Return([j \in DOMAIN fs |-> IF j < i THEN Loaded(fs[j]) ELSE fs[j]], t, AfterError(d))
    /\ UNCHANGED <<disk, saved>>

TooManyNodes(fs) == Len(fs) + Dirs > maxNodes

WholeImage(image, t) ==
  WritePrefix(image, Len(image)) /\ saved' = t /\ UNCHANGED faults

\* A write fails, after which the sector may be written or not, or the power goes.
PartOfImage(image) ==
  /\ Fault
  /\ \E k \in 0..Len(image) : /\ WritePrefix(image, k)
                              /\ saved' = IF k = 0 THEN saved ELSE Torn

Save(fs, t, d) ==
  LET all   == Materialized(fs)
      image == Image(all)
  IN  \/ ReadFails(fs, t, d)
      \/ /\ TooManyNodes(fs)
         /\ Return(all, t, AfterError(d))
         /\ UNCHANGED <<disk, saved, faults>>
      \/ ~TooManyNodes(fs) /\ WholeImage(image, t) /\ Return(all, t, FALSE)
      \/ /\ ~TooManyNodes(fs) /\ PartOfImage(image)
         /\ Return(all, t, AfterError(d)) \/ PowerOff

-----------------------------------------------------------------------------
\* The commands of the shell end with: if (vfs_is_dirty()) vfs_save();
SaveIfDirty(fs, t, d) ==
  IF d THEN Save(fs, t, d) ELSE Return(fs, t, d) /\ UNCHANGED <<disk, saved, faults>>

\* find_child: the first one of that name
Index(n) ==
  IF \E i \in DOMAIN files : files[i].name = n
    THEN CHOOSE i \in DOMAIN files : /\ files[i].name = n
                                     /\ \A j \in 1..i - 1 : files[j].name # n
    ELSE 0

NewFile(n) == [name |-> n, size |-> 0, off |-> 0, loaded |-> FALSE, data |-> <<>>]

Fabbed(n) == <<NewFile(n)>> \o files
FabbedTruth(n) == <<[name |-> n, data |-> <<>>]>> \o truth

Carved(i, text) ==
  [files EXCEPT ![i].data = text, ![i].size = Len(text), ![i].loaded = TRUE]
CarvedTruth(i, text) == [truth EXCEPT ![i].data = text]

Without(seq, i) == SubSeq(seq, 1, i - 1) \o SubSeq(seq, i + 1, Len(seq))

\* vfs_fab, vfs_carve and vfs_burn from the shell; one that fails still saves what
\* an earlier save left dirty.
ShellFab(n) ==
  IF Index(n) = 0 THEN SaveIfDirty(Fabbed(n), FabbedTruth(n), TRUE)
                  ELSE SaveIfDirty(files, truth, dirty)

ShellCarve(n, text) ==
  IF Index(n) # 0 THEN SaveIfDirty(Carved(Index(n), text), CarvedTruth(Index(n), text), TRUE)
                  ELSE SaveIfDirty(files, truth, dirty)

ShellBurn(n) ==
  IF Index(n) # 0 THEN SaveIfDirty(Without(files, Index(n)), Without(truth, Index(n)), TRUE)
                  ELSE SaveIfDirty(files, truth, dirty)

ShellSync == dirty /\ Save(files, truth, dirty)

\* formatfs: vfs_init drops the tree and leaves the dirty flag alone.
Format == Save(<<>>, <<>>, dirty)

\* exit: what the save returns does not matter any more.
ShellExit ==
  LET image == Image(Materialized(files))
  IN  /\ PowerOff
      /\ \/ /\ dirty => TooManyNodes(files)
            /\ UNCHANGED <<disk, saved, faults>>
         \/ /\ dirty /\ ~TooManyNodes(files)
            /\ WholeImage(image, truth) \/ PartOfImage(image)

\* scribe, the glyph editors and shape create and write files but leave the saving to
\* the next command.
AppFab(n) ==
  /\ Index(n) = 0
  /\ Return(Fabbed(n), FabbedTruth(n), TRUE)
  /\ UNCHANGED <<disk, saved, faults>>

AppCarve(n, text) ==
  /\ Index(n) # 0
  /\ Return(Carved(Index(n), text), CarvedTruth(Index(n), text), TRUE)
  /\ UNCHANGED <<disk, saved, faults>>

\* vfs_insp_bytes loads the file; when a read fails nothing changes.
Insp(n) ==
  /\ Index(n) # 0
  /\ Return([files EXCEPT ![Index(n)] = Loaded(@)], truth, dirty)
  /\ UNCHANGED <<disk, saved, faults>>

PowerCut ==
  power # "off" /\ PowerOff /\ UNCHANGED <<disk, saved, faults>>

-----------------------------------------------------------------------------
\* kmain: vfs_init, vfs_load, and vfs_save when there is no file system.
NodeAt(i) ==
  LET at    == 1 + i \div NodesPerSector
      table == IF at \in DOMAIN disk THEN disk[at].nodes ELSE <<>>
      j     == (i % NodesPerSector) + 1
  IN  IF j <= Len(table) THEN table[j] ELSE Node("none", "", NoLink, NoLink, 0, 0)

Count == disk[0].count

\* A sector that is not full is not counted.
BugTableSectors == Count \div NodesPerSector

TableSectors == SectorsFor(Count, NodesPerSector)

FileAt(i) ==
  [name |-> NodeAt(i).name, size |-> NodeAt(i).len, off |-> NodeAt(i).off,
   loaded |-> NodeAt(i).len = 0, data |-> <<>>]

\* The files from node i on, for links that lead to later nodes of the table
Listed ==
  LET from[i \in NoLink..Count - 1] ==
        IF i = NoLink THEN <<>> ELSE <<FileAt(i)>> \o from[NodeAt(i).next]
  IN  from[NodeAt(Dirs - 1).child]

Empty(status) == power' = status /\ files' = <<>> /\ truth' = <<>> /\ dirty' = FALSE

NodeTypesOK == \A i \in 0..Count - 1 : NodeAt(i).type \in {"dir", "file"}
LinksOK == \A i \in 0..Count - 1 : NodeAt(i).next < Count /\ NodeAt(i).child < Count

\* Where the data starts on the disk that is mounted
MountedDataLba == 1 + TableSectors

NoSuperblock ==          \* it cannot be read, or it is none
  /\ \/ Fault
     \/ disk[0].kind = "none" /\ UNCHANGED faults
  /\ Empty("fresh") /\ dataLba' = 0

OtherVersion ==
  /\ disk[0].kind = "other"
  /\ Empty("on") /\ dataLba' = 0
  /\ UNCHANGED faults

NodeTableUnread ==
  /\ disk[0].kind = "super"
  /\ Fault
  /\ Empty("on") /\ dataLba' = MountedDataLba

BadImage ==
  /\ disk[0].kind = "super" /\ ~NodeTypesOK
  /\ Empty("fresh") /\ dataLba' = MountedDataLba
  /\ UNCHANGED faults

\* A link beyond the table is followed beyond the array of nodes: what comes of it is
\* left open.
LinkAstray ==
  /\ disk[0].kind = "super" /\ NodeTypesOK /\ ~LinksOK
  /\ Empty("lost") /\ dataLba' = MountedDataLba
  /\ UNCHANGED faults

Mounted ==
  /\ disk[0].kind = "super" /\ NodeTypesOK /\ LinksOK
  /\ power' = "on" /\ files' = Listed /\ dirty' = FALSE /\ dataLba' = MountedDataLba
  /\ truth' = [i \in DOMAIN Listed |->
                 [name |-> Listed[i].name, data |-> Read(Listed[i], MountedDataLba)]]
  /\ UNCHANGED faults

Boot ==
  /\ power = "off"
  /\ \/ NoSuperblock \/ OtherVersion \/ NodeTableUnread \/ BadImage \/ LinkAstray \/ Mounted
  /\ UNCHANGED <<disk, saved>>

SaveFresh == power = "fresh" /\ Save(<<>>, <<>>, FALSE)

Init ==
  /\ power = "off" /\ files = <<>> /\ truth = <<>> /\ dataLba = 0 /\ dirty = FALSE
  /\ \E kind \in FirstDisks :
       disk = [lba \in 0..LastLba |->
                 Sector(IF lba = 0 THEN kind ELSE "none", 0, <<>>, <<>>)]
  /\ saved = Torn
  /\ faults = 0
  /\ maxNodes \in NodeLimits

Command ==
  \/ \E n \in Names : ShellFab(n) \/ ShellBurn(n) \/ AppFab(n) \/ Insp(n)
  \/ \E n \in Names, text \in Texts : ShellCarve(n, text) \/ AppCarve(n, text)
  \/ ShellSync
  \/ Format
  \/ ShellExit

Next ==
  \/ power = "on" /\ Command
  \/ Boot
  \/ SaveFresh
  \/ PowerCut

Spec == Init /\ [][Next /\ UNCHANGED maxNodes]_vars

-----------------------------------------------------------------------------
TypeOK ==
  /\ power \in {"off", "fresh", "on", "lost"}
  /\ \A i \in DOMAIN files :
       /\ files[i].name \in Names /\ files[i].loaded \in BOOLEAN
       /\ files[i].size \in Nat /\ files[i].off \in Nat
       /\ files[i].loaded => Len(files[i].data) = files[i].size
  /\ dataLba \in Nat
  /\ dirty \in BOOLEAN
  /\ faults \in 0..MaxFaults

\* Whatever was read, written, saved, failed to be saved or not yet loaded: a file in
\* memory reads as what was last written into it, or as what was mounted.
ReadsReturnContents ==
  /\ TypeOK
  /\ Len(files) = Len(truth)
  /\ \A i \in DOMAIN files : /\ files[i].name = truth[i].name
                             /\ Loaded(files[i]).data = truth[i].data

\* The dirty flag is cleared only by a save that brought the tree in memory to the
\* disk as a whole.
CleanedOnlyBySaving ==
  [][power = "on" /\ power' = "on" /\ dirty /\ ~dirty' => saved' = truth']_vars

\* A start without a failure brings back the tree of the last save, file by file.
RestartRestores ==
  [][power = "off" /\ saved # Torn /\ faults' = faults => power' = "on" /\ truth' = saved]_vars

-----------------------------------------------------------------------------
\* vfs.h says that vfs_is_dirty tells whether there are unsaved changes.
ChangesAreSavedOrDirty ==
  [][power = "on" /\ power' = "on" /\ truth' # truth => dirty' \/ saved' = truth']_vars

\* kmain: "no fs present, make fresh one".  An image whose save ended is one that is
\* present.
FreshOnlyIfAbsent ==
  [][power = "off" /\ power' = "fresh" => saved = Torn]_vars

\* kmain, when the mount has failed: "Run formatfs to create a new filesystem."
ForeignDiskIsKept ==
  [][power = "on" /\ disk[0].kind = "other" /\ disk' # disk => Format]_vars

=============================================================================
