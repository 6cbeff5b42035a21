---------------------------- MODULE VfsDiskProofs ----------------------------
(***************************************************************************)
(* Proofs about the files and their image, for every number of files, size *)
(* of a sector and number of failures:                                     *)
(*   - only a save of the whole tree clears the dirty flag; this needs no  *)
(*     invariant;                                                          *)
(*   - a file reads as what was written into it.  The invariant Inv says   *)
(*     so of the tree in memory, and of every sector on the disk, torn     *)
(*     images included, that its nodes are at their places of the table;   *)
(*   - a start brings back the tree of the last save.  SavedInv adds that  *)
(*     the disk holds the image of the files that were saved last, and the *)
(*     lemmas about the image show that the mount undoes it: a node and a  *)
(*     cell are found in the sector they were cut into, a file's cells at  *)
(*     its offset, and the links lead through all the files.               *)
(* What the recursive functions of the model are is shown by induction     *)
(* from the well-foundedness of the naturals.                              *)
(***************************************************************************)
EXTENDS VfsDisk, WellFoundedInduction, SequenceTheorems, TLAPS

-----------------------------------------------------------------------------
\* The dirty flag.

Cleaning == power = "on" /\ power' = "on" /\ dirty /\ ~dirty'

LEMMA SavesClean ==
  ASSUME NEW fs, NEW t, Save(fs, t, TRUE), Cleaning
  PROVE  saved' = truth'
<1>1. ~ReadFails(fs, t, TRUE)
  BY DEF Cleaning, ReadFails, Return, AfterError
<1>2. CASE TooManyNodes(fs) /\ Return(Materialized(fs), t, AfterError(TRUE))
  BY <1>2 DEF Cleaning, Return, AfterError
<1>3. CASE WholeImage(Image(Materialized(fs)), t) /\ Return(Materialized(fs), t, FALSE)
  BY <1>3 DEF WholeImage, Return
<1>4. CASE Return(Materialized(fs), t, AfterError(TRUE)) \/ PowerOff
  BY <1>4 DEF Cleaning, Return, PowerOff, AfterError
<1> QED BY <1>1, <1>2, <1>3, <1>4 DEF Save

LEMMA SavesIfDirtyClean ==
  ASSUME NEW fs, NEW t, SaveIfDirty(fs, t, TRUE), Cleaning
  PROVE  saved' = truth'
BY SavesClean DEF SaveIfDirty

LEMMA CommandsClean == Command /\ Cleaning => saved' = truth'
<1> SUFFICES ASSUME Command, Cleaning PROVE saved' = truth'
  OBVIOUS
<1>1. dirty = TRUE
  BY DEF Cleaning
<1>2. ASSUME NEW n \in Names, ShellFab(n) \/ ShellBurn(n) PROVE saved' = truth'
  BY <1>1, <1>2, SavesIfDirtyClean DEF ShellFab, ShellBurn
<1>3. ASSUME NEW n \in Names, AppFab(n) \/ Insp(n) PROVE saved' = truth'
  BY <1>3 DEF AppFab, Insp, Return, Cleaning
<1>4. ASSUME NEW n \in Names, NEW text \in Texts, ShellCarve(n, text) PROVE saved' = truth'
  BY <1>1, <1>4, SavesIfDirtyClean DEF ShellCarve
<1>5. ASSUME NEW n \in Names, NEW text \in Texts, AppCarve(n, text) PROVE saved' = truth'
  BY <1>5 DEF AppCarve, Return, Cleaning
<1>6. CASE ShellSync \/ Format
  BY <1>1, <1>6, SavesClean DEF ShellSync, Format
<1>7. CASE ShellExit
  BY <1>7 DEF ShellExit, PowerOff, Cleaning
<1> QED BY <1>2, <1>3, <1>4, <1>5, <1>6, <1>7 DEF Command

\* Whatever is read, written or fails, in any order: a dirty flag that is gone while the
\* power is on means that the tree in memory was saved as a whole (g_dirty in vfs_save;
\* a failed read, a tree with too many nodes and a failed write leave it).
THEOREM OnlySavesClean == Spec => CleanedOnlyBySaving
<1>1. [Next /\ UNCHANGED maxNodes]_vars => (Cleaning => saved' = truth')
  <2> SUFFICES ASSUME [Next /\ UNCHANGED maxNodes]_vars, Cleaning PROVE saved' = truth'
    OBVIOUS
  <2>1. CASE power = "on" /\ Command
    BY <2>1, CommandsClean
  <2>2. CASE Boot
    BY <2>2 DEF Boot, Cleaning
  <2>3. CASE SaveFresh
    BY <2>3 DEF SaveFresh, Cleaning
  <2>4. CASE PowerCut
    BY <2>4 DEF PowerCut, PowerOff, Cleaning
  <2>5. CASE UNCHANGED vars
    BY <2>5 DEF vars, Cleaning
  <2> QED BY <2>1, <2>2, <2>3, <2>4, <2>5 DEF Next
<1>2. [Next /\ UNCHANGED maxNodes]_vars =>
        [power = "on" /\ power' = "on" /\ dirty /\ ~dirty' => saved' = truth']_vars
  BY <1>1 DEF Cleaning
<1> QED BY <1>2, PTL DEF Spec, CleanedOnlyBySaving

-----------------------------------------------------------------------------
\* Every set of naturals that is not empty has a least element, from which induction
\* follows.
LEMMA LeastOfSome ==
  ASSUME NEW S \in SUBSET Nat, S # {}
  PROVE  \E n \in S : \A m \in S : n <= m
<1>1. PICK n \in S : \A m \in S : <<m, n>> \notin OpToRel(<, Nat)
  BY NatLessThanWellFounded, WFMin, Zenon
<1>2. \A m \in S : ~(m < n)
  BY <1>1 DEF OpToRel
<1> QED BY <1>2

LEMMA Induction ==
  ASSUME NEW S \in SUBSET Nat, 0 \in S, \A n \in S : n + 1 \in S
  PROVE  S = Nat
<1>1. SUFFICES ASSUME Nat \ S # {} PROVE FALSE
  OBVIOUS
<1>2. PICK n \in Nat \ S : \A m \in Nat \ S : n <= m
  BY <1>1, LeastOfSome
<1>3. n - 1 \in S
  BY <1>2
<1> QED BY <1>2, <1>3

-----------------------------------------------------------------------------
\* Sequences that are cut into sectors.

LEMMA Appended ==
  ASSUME NEW S, NEW s \in Seq(S), NEW t \in Seq(S)
  PROVE  /\ s \o t \in Seq(S) /\ Len(s \o t) = Len(s) + Len(t)
         /\ \A i \in 1..Len(s) : (s \o t)[i] = s[i]
         /\ \A i \in 1..Len(t) : (s \o t)[Len(s) + i] = t[i]
<1>1. /\ Len(s) \in Nat /\ Len(t) \in Nat
      /\ s \o t \in Seq(S) /\ Len(s \o t) = Len(s) + Len(t)
      /\ \A i \in 1..Len(s) + Len(t) :
           (s \o t)[i] = IF i <= Len(s) THEN s[i] ELSE t[i - Len(s)]
  BY ConcatProperties
<1>2. ASSUME NEW i \in 1..Len(s) PROVE (s \o t)[i] = s[i]
  BY <1>1
<1>3. ASSUME NEW i \in 1..Len(t) PROVE (s \o t)[Len(s) + i] = t[i]
  <2>1. /\ Len(s) + i \in 1..Len(s) + Len(t) /\ ~(Len(s) + i <= Len(s))
        /\ (Len(s) + i) - Len(s) = i
    BY <1>1
  <2> QED BY <1>1, <2>1
<1> QED BY <1>1, <1>2, <1>3

LEMMA Divided ==
  ASSUME NEW n \in Nat, NEW d \in Nat \ {0}
  PROVE  /\ n \div d \in Nat /\ n % d \in 0..d - 1
         /\ n = (n \div d) * d + (n % d)
OBVIOUS

LEMMA Products ==
  ASSUME NEW q \in Nat, NEW r \in Nat, NEW d \in Nat \ {0}
  PROVE  /\ q * d \in Nat /\ r * d \in Nat
         /\ q <= r => q * d <= r * d
         /\ q * d < r * d => q < r
         /\ (q + 1) * d = q * d + d
<1>1. q * d \in Nat /\ r * d \in Nat /\ (q + 1) * d = q * d + d
  OBVIOUS
<1>2. q <= r => q * d <= r * d
  OBVIOUS
<1>3. r <= q => r * d <= q * d
  OBVIOUS
<1> QED BY <1>1, <1>2, <1>3

\* A sector lies before the end if it begins before it.
LEMMA SectorsReach ==
  ASSUME NEW n \in Nat, NEW d \in Nat \ {0}
  PROVE  /\ SectorsFor(n, d) \in Nat
         /\ \A q \in Nat : q < SectorsFor(n, d) <=> q * d < n
<1> DEFINE m == n + d - 1
           all == m \div d
<1>1. m \in Nat /\ SectorsFor(n, d) = all
  BY DEF SectorsFor
<1>2. all \in Nat /\ m % d \in 0..d - 1 /\ m = all * d + (m % d)
  BY <1>1, Divided
<1> HIDE DEF all
<1>3. ASSUME NEW q \in Nat, q < all PROVE q * d < n
  <2>1. q + 1 <= all /\ q + 1 \in Nat
    BY <1>2, <1>3
  <2>2. (q + 1) * d <= all * d /\ (q + 1) * d = q * d + d /\ q * d \in Nat /\ all * d \in Nat
    BY <1>2, <2>1, Products
  <2> QED BY <1>2, <2>2
<1>4. ASSUME NEW q \in Nat, q * d < n PROVE q < all
  <2>1. q * d \in Nat /\ all * d \in Nat /\ (q * d < all * d => q < all)
    BY <1>2, Products
  <2> QED BY <1>2, <1>4, <2>1
<1> QED BY <1>1, <1>2, <1>3, <1>4

\* What a sector holds
LEMMA ChunkIsPart ==
  ASSUME NEW S, NEW seq \in Seq(S), NEW size \in Nat \ {0}, NEW q \in Nat,
         q < SectorsFor(Len(seq), size)
  PROVE  /\ Chunk(seq, size, q + 1) \in Seq(S)
         /\ Len(Chunk(seq, size, q + 1)) \in 0..size
         /\ \A j \in 1..size : 
              /\ j <= Len(Chunk(seq, size, q + 1)) <=> q * size + j <= Len(seq)
              /\ j <= Len(Chunk(seq, size, q + 1)) =>
                   Chunk(seq, size, q + 1)[j] = seq[q * size + j]
<1> DEFINE first == q * size + 1
           end == IF (q + 1) * size < Len(seq) THEN (q + 1) * size ELSE Len(seq)
<1>1. /\ q * size \in Nat /\ Len(seq) \in Nat /\ q * size < Len(seq)
      /\ (q + 1) * size = q * size + size
  BY SectorsReach, Products
<1>2. Chunk(seq, size, q + 1) = SubSeq(seq, first, end)
  <2>1. ((q + 1) - 1) * size = q * size
    OBVIOUS
  <2> QED BY <2>1 DEF Chunk
<1>3. first \in 1..Len(seq) + 1 /\ end \in 0..Len(seq) /\ first <= end
  BY <1>1
<1>4. end - first + 1 \in 0..size
  BY <1>1
<1>5. \A j \in 1..size : j <= end - first + 1 <=> q * size + j <= Len(seq)
  BY <1>1
<1>6. \A j \in 1..size : first + j - 1 = q * size + j
  BY <1>1
<1> HIDE DEF first, end
<1>7. /\ SubSeq(seq, first, end) \in Seq(S) /\ Len(SubSeq(seq, first, end)) = end - first + 1
      /\ \A j \in 1..end - first + 1 : SubSeq(seq, first, end)[j] = seq[first + j - 1]
  BY <1>3, SubSeqProperties
<1> DEFINE chunk == Chunk(seq, size, q + 1)
<1>8. chunk \in Seq(S) /\ Len(chunk) \in 0..size /\ Len(chunk) = end - first + 1
  BY <1>2, <1>4, <1>7
<1>9. ASSUME NEW j \in 1..size
      PROVE  /\ j <= Len(chunk) <=> q * size + j <= Len(seq)
             /\ j <= Len(chunk) => chunk[j] = seq[q * size + j]
  <2>1. j <= Len(chunk) <=> q * size + j <= Len(seq)
    BY <1>5, <1>8
  <2>2. j <= Len(chunk) => j \in 1..end - first + 1
    BY <1>3, <1>8
  <2>3. j <= Len(chunk) => chunk[j] = seq[first + j - 1]
    BY <1>2, <1>7, <2>2
  <2> QED BY <1>6, <2>1, <2>3
<1> QED BY <1>8, <1>9

LEMMA Placed ==
  ASSUME NEW n \in Nat, NEW size \in Nat \ {0}, NEW i \in 0..n - 1
  PROVE  /\ i \div size \in Nat /\ i \div size < SectorsFor(n, size)
         /\ (i % size) + 1 \in 1..size /\ (i \div size) * size + ((i % size) + 1) = i + 1
<1> DEFINE q == i \div size
           r == i % size
<1>1. i \in Nat /\ i + 1 <= n
  OBVIOUS
<1>2. q \in Nat /\ r \in 0..size - 1 /\ i = q * size + r
  BY <1>1, Divided
<1> HIDE DEF q, r
<1>3. q * size \in Nat
  BY <1>2, Products
<1>4. r + 1 \in 1..size /\ q * size + (r + 1) = i + 1
  BY <1>1, <1>2, <1>3
<1>5. q * size < n
  BY <1>1, <1>2, <1>3
<1>6. q < SectorsFor(n, size)
  BY <1>2, <1>5, SectorsReach
<1> QED BY <1>2, <1>4, <1>6 DEF q, r

-----------------------------------------------------------------------------
\* What files, nodes and sectors are.

Cells == {Hole} \cup UNION {{text[i] : i \in DOMAIN text} : text \in Texts}

File ==
  {f \in [name : Names, size : 0..MaxText, off : Nat, loaded : BOOLEAN, data : Seq(Cells)] :
     Len(f.data) <= MaxText /\ (f.loaded => Len(f.data) = f.size)}

Content == [name : Names, data : Seq(Cells)]

DiskNode ==
  [type : {"none", "dir", "file"}, name : Names \cup {"P", "root", "base", ""},
   child : Nat \cup {NoLink}, next : Nat \cup {NoLink}, off : Nat, len : 0..MaxText]

DiskSector ==
  [kind : {"none", "other", "super", "nodes", "data"}, count : Nat,
   nodes : Seq(DiskNode), cells : Seq(Cells)]

\* What is at place i of a table of nodes: the fixed directories, and files whose links
\* lead to the next node or nowhere.
InPlace(i, node) ==
  IF i < Dirs
  THEN node.type = "dir" /\ node.next = NoLink /\ node.child \in {i + 1, NoLink}
  ELSE /\ node.type = "file" /\ node.next \in {i + 1, NoLink} /\ node.child = NoLink
       /\ node.name \in Names

\* The sector at lba of an image
SectorOK(lba, sector) ==
  /\ sector \in DiskSector
  /\ lba = 0 => /\ sector.kind \in {"none", "other", "super"}
                /\ sector.kind = "super" => sector.count >= Dirs
  /\ lba > 0 => /\ Len(sector.nodes) <= NodesPerSector
                /\ \A j \in 1..Len(sector.nodes) :
                     InPlace((lba - 1) * NodesPerSector + (j - 1), sector.nodes[j])

LEMMA TextsAreCells == \A text \in Texts : text \in Seq(Cells) /\ Len(text) \in 1..MaxText
<1> TAKE text \in Texts
<1>1. text \in Seq({text[i] : i \in DOMAIN text}) /\ Len(text) \in 1..MaxText
  BY TextsAssumption
<1>2. {text[i] : i \in DOMAIN text} \subseteq Cells
  BY DEF Cells
<1> QED BY <1>1, <1>2

LEMMA FilesOfList ==
  ASSUME NEW fs \in Seq(File), NEW i \in 1..Len(fs)
  PROVE  /\ fs[i] \in File /\ fs[i].name \in Names /\ fs[i].data \in Seq(Cells)
         /\ fs[i].size \in 0..MaxText /\ fs[i].off \in Nat /\ fs[i].loaded \in BOOLEAN
         /\ Len(fs[i].data) \in 0..MaxText /\ Len(fs[i].data) \in Nat
         /\ fs[i].loaded => Len(fs[i].data) = fs[i].size
<1>1. fs[i] \in File /\ Len(fs[i].data) \in Nat
  BY DEF File
<1> QED BY <1>1, TextsAssumption DEF File

-----------------------------------------------------------------------------
\* Where the data of a file lie behind each other.

Sums(fs, n, g) == g = [j \in 0..n |-> IF j = 0 THEN 0 ELSE g[j - 1] + Len(fs[j].data)]

LEMMA SumsExist ==
  ASSUME NEW fs \in Seq(File)
  PROVE  \E g : Sums(fs, Len(fs), g)
<1> DEFINE Some == {n \in Nat : \E g : Sums(fs, n, g)}
<1>1. 0 \in Some
  <2>1. Sums(fs, 0, [j \in 0..0 |-> 0])
    BY DEF Sums
  <2> QED BY <2>1
<1>2. ASSUME NEW n \in Some PROVE n + 1 \in Some
  <2>1. PICK g : Sums(fs, n, g)
    OBVIOUS
  <2> DEFINE h == [j \in 0..n + 1 |-> IF j \in 0..n THEN g[j] ELSE g[n] + Len(fs[n + 1].data)]
             s == [j \in 0..n + 1 |-> IF j = 0 THEN 0 ELSE h[j - 1] + Len(fs[j].data)]
  <2>2. ASSUME NEW j \in 0..n + 1 PROVE h[j] = s[j]
    <3>1. CASE j = 0
      BY <2>1, <3>1 DEF Sums
    <3>2. CASE j \in 1..n
      <4>1. g[j] = g[j - 1] + Len(fs[j].data)
        BY <2>1, <3>2 DEF Sums
      <4> QED BY <3>2, <4>1
    <3>3. CASE j = n + 1
      BY <3>3
    <3> QED BY <3>1, <3>2, <3>3
  <2>3. h = s
    BY <2>2
  <2>4. Sums(fs, n + 1, h)
    BY <2>3 DEF Sums
  <2> QED BY <2>4
<1>3. Some = Nat
  <2> HIDE DEF Some
  <2>1. Some \in SUBSET Nat
    BY DEF Some
  <2> QED BY <1>1, <1>2, <2>1, Induction
<1> HIDE DEF Some
<1>4. Len(fs) \in Some
  BY <1>3
<1> QED BY <1>4 DEF Some

LEMMA OffsetsAdd ==
  ASSUME NEW fs \in Seq(File)
  PROVE  /\ Offset(fs, 1) = 0
         /\ \A i \in 1..Len(fs) : Offset(fs, i + 1) = Offset(fs, i) + Len(fs[i].data)
<1> DEFINE before == CHOOSE g : Sums(fs, Len(fs), g)
<1>1. Sums(fs, Len(fs), before)
  BY SumsExist
<1>2. \A i \in Int : Offset(fs, i) = before[i - 1]
  BY DEF Offset, Sums
<1> HIDE DEF before
<1>3. before = [j \in 0..Len(fs) |-> IF j = 0 THEN 0 ELSE before[j - 1] + Len(fs[j].data)]
  BY <1>1 DEF Sums
<1>4. before[0] = 0
  BY <1>3
<1>5. \A i \in 1..Len(fs) : before[i] = before[i - 1] + Len(fs[i].data)
  BY <1>3
<1>6. Offset(fs, 1) = 0
  BY <1>2, <1>4
<1>7. \A i \in 1..Len(fs) : Offset(fs, i) = before[i - 1] /\ Offset(fs, i + 1) = before[i]
  <2> TAKE i \in 1..Len(fs)
  <2>1. i \in Int /\ i + 1 \in Int /\ (i + 1) - 1 = i
    OBVIOUS
  <2>2. Offset(fs, i + 1) = before[(i + 1) - 1]
    BY <1>2, <2>1
  <2> QED BY <1>2, <2>1, <2>2
<1> QED BY <1>5, <1>6, <1>7

LEMMA OffsetsGrow ==
  ASSUME NEW fs \in Seq(File)
  PROVE  \A j \in 1..Len(fs) + 1 :
           /\ Offset(fs, j) \in Nat
           /\ \A i \in 1..j : Offset(fs, i) \in Nat /\ Offset(fs, i) <= Offset(fs, j)
<1> DEFINE Grows(j) == 
             /\ Offset(fs, j) \in Nat
             /\ \A i \in 1..j : Offset(fs, i) \in Nat /\ Offset(fs, i) <= Offset(fs, j)
           Some == {n \in Nat : n <= Len(fs) => Grows(n + 1)}
<1>1. 0 \in Some
  BY OffsetsAdd
<1>2. ASSUME NEW n \in Some PROVE n + 1 \in Some
  <2> SUFFICES ASSUME n + 1 <= Len(fs) PROVE Grows(n + 2)
    OBVIOUS
  <2>1. Grows(n + 1)
    OBVIOUS
  <2>2. n + 1 \in 1..Len(fs)
    OBVIOUS
  <2>3. Offset(fs, n + 2) = Offset(fs, n + 1) + Len(fs[n + 1].data) /\ Len(fs[n + 1].data) \in Nat
    BY <2>2, OffsetsAdd, FilesOfList, n + 1 + 1 = n + 2
  <2>4. ASSUME NEW i \in 1..n + 2
        PROVE  Offset(fs, i) \in Nat /\ Offset(fs, i) <= Offset(fs, n + 2)
    <3>1. i \in 1..n + 1 => Offset(fs, i) <= Offset(fs, n + 1) /\ Offset(fs, i) \in Nat
      BY <2>1
    <3> QED BY <2>1, <2>3, <3>1
  <2> QED BY <2>1, <2>3, <2>4
<1>3. Some = Nat
  <2> HIDE DEF Some
  <2>1. Some \in SUBSET Nat
    BY DEF Some
  <2> QED BY <1>1, <1>2, <2>1, Induction
<1>4. ASSUME NEW j \in 1..Len(fs) + 1 PROVE Grows(j)
  <2>1. j - 1 \in Nat /\ j - 1 <= Len(fs) /\ (j - 1) + 1 = j
    OBVIOUS
  <2>2. j - 1 \in Some
    BY <1>3, <2>1
  <2> QED BY <2>1, <2>2
<1> QED BY <1>4

\* The cells of all files, each file's at its offset
LEMMA BlobHolds ==
  ASSUME NEW fs \in Seq(File)
  PROVE  /\ Blob(fs) \in Seq(Cells)
         /\ Len(Blob(fs)) = Offset(fs, Len(fs) + 1)
         /\ \A i \in 1..Len(fs) : \A k \in 1..Len(fs[i].data) :
              /\ Offset(fs, i) + k \in 1..Len(Blob(fs))
              /\ Blob(fs)[Offset(fs, i) + k] = fs[i].data[k]
<1> DEFINE n == Len(fs)
           off == [i \in 1..n + 1 |-> Offset(fs, i)]
           Of(p, j) == off[j] < p /\ p <= off[j + 1]
           at(p) == CHOOSE j \in DOMAIN fs : off[j] < p /\ p <= off[j + 1]
           all == off[n + 1]
<1>1. Blob(fs) = [p \in 1..all |-> fs[at(p)].data[p - off[at(p)]]]
  BY DEF Blob
<1>2. /\ n \in Nat /\ DOMAIN fs = 1..n /\ off[1] = 0
      /\ \A j \in 1..n + 1 : off[j] \in Nat /\ \A i \in 1..j : off[i] <= off[j]
  BY OffsetsGrow, OffsetsAdd
<1>3. ASSUME NEW j \in 1..n
      PROVE  j + 1 \in 1..n + 1 /\ off[j + 1] = off[j] + Len(fs[j].data) /\ Len(fs[j].data) \in Nat
  BY OffsetsAdd, FilesOfList
<1>4. all \in Nat /\ all = Offset(fs, Len(fs) + 1)
  BY <1>2
<1> HIDE DEF off
<1>5. ASSUME NEW p \in 1..all PROVE \E j \in 1..n : Of(p, j)
  <2> DEFINE Ends == {j \in 1..n : p <= off[j + 1]}
  <2>1. n \in Ends
    <3>1. n # 0
      BY <1>2
    <3> QED BY <1>2, <3>1
  <2>2. Ends \in SUBSET Nat /\ Ends # {}
    BY <2>1
  <2> HIDE DEF Ends
  <2>3. PICK j \in Ends : \A m \in Ends : j <= m
    BY <2>2, LeastOfSome
  <2>4. j \in 1..n /\ p <= off[j + 1]
    BY DEF Ends
  <2>5. off[j] < p
    <3>1. CASE j = 1
      BY <1>2, <3>1
    <3>2. CASE j # 1
      <4>1. j - 1 \in 1..n /\ j - 1 < j /\ (j - 1) + 1 = j
        BY <1>2, <2>4, <3>2
      <4>2. j - 1 \notin Ends
        BY <2>3, <4>1
      <4>3. ~(p <= off[j])
        BY <4>1, <4>2 DEF Ends
      <4>4. off[j] \in Nat
        BY <1>2, <2>4
      <4> QED BY <1>4, <4>3, <4>4
    <3> QED BY <3>1, <3>2
  <2> QED BY <2>4, <2>5
<1>6. ASSUME NEW p \in 1..all PROVE at(p) \in 1..n /\ Of(p, at(p))
  BY <1>2, <1>5
<1>7. ASSUME NEW i \in 1..n, NEW j \in 1..n, NEW p \in Int, Of(p, i), Of(p, j) PROVE i = j
  <2>1. ASSUME NEW a \in 1..n, NEW b \in 1..n, a < b, Of(p, a), Of(p, b) PROVE FALSE
    <3>1. a + 1 \in 1..b /\ b \in 1..n + 1 /\ a + 1 \in 1..n + 1
      BY <1>2, <2>1
    <3>2. off[a + 1] <= off[b] /\ off[a + 1] \in Nat /\ off[b] \in Nat
      BY <1>2, <3>1
    <3> QED BY <2>1, <3>2
  <2> QED BY <1>7, <2>1
<1> HIDE DEF at
<1>8. ASSUME NEW p \in 1..all PROVE fs[at(p)].data[p - off[at(p)]] \in Cells
  <2>1. at(p) \in 1..n /\ Of(p, at(p))
    BY <1>6
  <2>2. off[at(p)] \in Nat /\ off[at(p) + 1] = off[at(p)] + Len(fs[at(p)].data)
    BY <1>2, <1>3, <2>1
  <2>3. fs[at(p)].data \in Seq(Cells)
    BY <2>1, FilesOfList
  <2>4. p - off[at(p)] \in 1..Len(fs[at(p)].data)
    BY <1>4, <2>1, <2>2, <2>3
  <2> QED BY <2>3, <2>4
<1>9. Blob(fs) \in Seq(Cells) /\ Len(Blob(fs)) = all
  BY <1>1, <1>4, <1>8
<1>10. ASSUME NEW i \in 1..n, NEW k \in 1..Len(fs[i].data)
       PROVE  off[i] + k \in 1..all /\ Blob(fs)[off[i] + k] = fs[i].data[k]
  <2> DEFINE p == off[i] + k
  <2>1. i + 1 \in 1..n + 1 /\ i \in 1..n + 1 /\ n + 1 \in 1..n + 1 /\ i + 1 \in 1..n + 1
    BY <1>2
  <2>2. /\ off[i] \in Nat /\ off[i + 1] \in Nat /\ off[i + 1] <= all
        /\ off[i + 1] = off[i] + Len(fs[i].data) /\ Len(fs[i].data) \in Nat
    BY <1>2, <1>3, <2>1
  <2>3. p \in 1..all /\ p \in Int /\ Of(p, i)
    <3>1. k \in Nat /\ 1 <= k /\ k <= Len(fs[i].data)
      BY <2>2
    <3>2. p \in Int /\ off[i] < p /\ p <= off[i + 1]
      BY <2>2, <3>1
    <3> HIDE DEF p, all, off
    <3>3. p >= 1 /\ p <= all
      BY <1>4, <2>2, <3>2
    <3> QED BY <1>4, <3>2, <3>3
  <2>4. at(p) = i
    BY <1>6, <1>7, <2>3
  <2>5. p - off[i] = k
    BY <2>2
  <2> HIDE DEF p
  <2>6. Blob(fs)[p] = fs[i].data[k]
    BY <1>1, <2>3, <2>4, <2>5
  <2> QED BY <2>3, <2>6 DEF p
<1>11. \A i \in 1..n : off[i] = Offset(fs, i)
  BY <1>2 DEF off
<1> QED BY <1>4, <1>9, <1>10, <1>11

-----------------------------------------------------------------------------
\* The image of a list of files.

TableOf(fs) == DirNodes(fs) \o FileNodes(fs)

LEMMA NodesOfFiles ==
  ASSUME NEW fs \in Seq(File)
  PROVE  /\ FileNodes(fs) \in Seq(DiskNode) /\ Len(FileNodes(fs)) = Len(fs)
         /\ \A i \in 1..Len(fs) : InPlace(Dirs + i - 1, FileNodes(fs)[i])
<1> DEFINE node(i) == Node("file", fs[i].name, NoLink, IF i < Len(fs) THEN Dirs + i ELSE NoLink,
                           IF fs[i].data = <<>> THEN 0 ELSE Offset(fs, i), Len(fs[i].data))
<1>1. ASSUME NEW i \in 1..Len(fs)
      PROVE  node(i) \in DiskNode /\ InPlace(Dirs + i - 1, node(i))
  <2>1. fs[i].name \in Names /\ Len(fs[i].data) \in 0..MaxText /\ Offset(fs, i) \in Nat
    BY FilesOfList, OffsetsGrow
  <2>2. Dirs + i - 1 >= Dirs /\ Dirs + i = (Dirs + i - 1) + 1 /\ Dirs + i \in Nat
    BY DEF Dirs
  <2>3. node(i) \in DiskNode
    BY <2>1, <2>2 DEF Node, DiskNode
  <2>4. /\ node(i).type = "file" /\ node(i).name = fs[i].name /\ node(i).child = NoLink
        /\ node(i).next \in {Dirs + i, NoLink}
    BY DEF Node
  <2> HIDE DEF node
  <2> DEFINE j == Dirs + i - 1
  <2>5. j >= Dirs /\ Dirs + i = j + 1 /\ j \in Int /\ ~(j < Dirs)
    BY <2>2 DEF Dirs
  <2> HIDE DEF j
  <2>6. InPlace(j, node(i))
    BY <2>1, <2>4, <2>5 DEF InPlace
  <2> QED BY <2>3, <2>6 DEF j
<1>2. FileNodes(fs) = [i \in 1..Len(fs) |-> node(i)]
  BY DEF FileNodes
<1> HIDE DEF node
<1> QED BY <1>1, <1>2

LEMMA NodesOfDirs ==
  ASSUME NEW fs
  PROVE  /\ DirNodes(fs) \in Seq(DiskNode) /\ Len(DirNodes(fs)) = Dirs
         /\ \A i \in 1..Dirs : InPlace(i - 1, DirNodes(fs)[i])
         /\ DirNodes(fs)[Dirs].child = IF fs = <<>> THEN NoLink ELSE Dirs
<1>1. \A name \in {"P", "root", "base"}, child \in Nat \cup {NoLink} :
        Node("dir", name, child, NoLink, 0, 0) \in DiskNode
  <2>1. 0 \in 0..MaxText /\ 0 \in Nat
    BY TextsAssumption
  <2> QED BY <2>1 DEF Node, DiskNode
<1> QED BY <1>1 DEF DirNodes, Dirs, InPlace, Node, NoLink

LEMMA TableHolds ==
  ASSUME NEW fs \in Seq(File)
  PROVE  /\ TableOf(fs) \in Seq(DiskNode) /\ Len(TableOf(fs)) = Dirs + Len(fs)
         /\ \A i \in 0..Dirs + Len(fs) - 1 : InPlace(i, TableOf(fs)[i + 1])
         /\ TableOf(fs)[Dirs].child = IF fs = <<>> THEN NoLink ELSE Dirs
         /\ \A i \in 1..Len(fs) : TableOf(fs)[Dirs + i] = FileNodes(fs)[i]
<1> DEFINE a == DirNodes(fs)
           b == FileNodes(fs)
<1>1. /\ a \in Seq(DiskNode) /\ Len(a) = Dirs /\ b \in Seq(DiskNode) /\ Len(b) = Len(fs)
      /\ Len(fs) \in Nat
  BY NodesOfDirs, NodesOfFiles
<1>2. /\ TableOf(fs) \in Seq(DiskNode) /\ Len(TableOf(fs)) = Dirs + Len(fs)
      /\ \A i \in 1..Dirs : TableOf(fs)[i] = a[i]
      /\ \A i \in 1..Len(fs) : TableOf(fs)[Dirs + i] = b[i]
  <2> HIDE DEF a, b
  <2>1. TableOf(fs) = a \o b
    BY DEF TableOf, a, b
  <2>2. \A s, r \in Seq(DiskNode) :
          /\ s \o r \in Seq(DiskNode) /\ Len(s \o r) = Len(s) + Len(r)
          /\ \A i \in 1..Len(s) : (s \o r)[i] = s[i]
          /\ \A i \in 1..Len(r) : (s \o r)[Len(s) + i] = r[i]
    BY Appended
  <2>3. /\ a \o b \in Seq(DiskNode) /\ Len(a \o b) = Len(a) + Len(b)
        /\ \A i \in 1..Len(a) : (a \o b)[i] = a[i]
        /\ \A i \in 1..Len(b) : (a \o b)[Len(a) + i] = b[i]
    BY <1>1, <2>2, Zenon
  <2> QED BY <1>1, <2>1, <2>3
<1>3. ASSUME NEW i \in 0..Dirs + Len(fs) - 1 PROVE InPlace(i, TableOf(fs)[i + 1])
  <2>1. CASE i < Dirs
    <3>1. i + 1 \in 1..Dirs /\ (i + 1) - 1 = i
      BY <2>1 DEF Dirs
    <3>2. TableOf(fs)[i + 1] = a[i + 1] /\ InPlace((i + 1) - 1, a[i + 1])
      BY <1>2, <3>1, NodesOfDirs
    <3> QED BY <3>1, <3>2
  <2>2. CASE ~(i < Dirs)
    <3> DEFINE j == i + 1 - Dirs
    <3>1. j \in 1..Len(fs) /\ Dirs + j = i + 1 /\ Dirs + j - 1 = i
      BY <1>1, <2>2 DEF Dirs
    <3> HIDE DEF j
    <3>2. TableOf(fs)[Dirs + j] = b[j] /\ InPlace(Dirs + j - 1, b[j])
      BY <1>2, <3>1, NodesOfFiles
    <3> QED BY <3>1, <3>2
  <2> QED BY <2>1, <2>2
<1>4. Dirs \in 1..Dirs
  BY DEF Dirs
<1> QED BY <1>2, <1>3, <1>4, NodesOfDirs

TableSize(fs) == SectorsFor(Dirs + Len(fs), NodesPerSector)
DataSize(fs) == SectorsFor(Len(Blob(fs)), SectorCells)

LEMMA SizesAreNat ==
  ASSUME NEW fs \in Seq(File)
  PROVE  /\ TableSize(fs) \in Nat \ {0} /\ DataSize(fs) \in Nat
         /\ NodesPerSector \in Nat \ {0} /\ SectorCells \in Nat \ {0}
         /\ Dirs + Len(fs) \in Nat \ {0} /\ Len(Blob(fs)) \in Nat
<1>1. /\ NodesPerSector \in Nat \ {0} /\ SectorCells \in Nat \ {0}
      /\ Dirs + Len(fs) \in Nat \ {0} /\ Len(Blob(fs)) \in Nat
  BY NodesPerSectorAssumption, SectorCellsAssumption, BlobHolds DEF Dirs
<1>2. 0 * NodesPerSector < Dirs + Len(fs)
  BY <1>1
<1> QED BY <1>1, <1>2, SectorsReach DEF TableSize, DataSize

LEMMA ImageHolds ==
  ASSUME NEW fs \in Seq(File)
  PROVE  LET t == TableSize(fs)
             image == Image(fs)
         IN  /\ image \in Seq(DiskSector) /\ Len(image) = 1 + t + DataSize(fs)
             /\ image[1] = Sector("super", Dirs + Len(fs), <<>>, <<>>)
             /\ \A q \in 0..t - 1 :
                  image[1 + q + 1] =
                    Sector("nodes", 0, Chunk(TableOf(fs), NodesPerSector, q + 1), <<>>)
             /\ \A q \in 0..DataSize(fs) - 1 :
                  image[1 + t + q + 1] =
                    Sector("data", 0, <<>>, Chunk(Blob(fs), SectorCells, q + 1))
<1> DEFINE t == TableSize(fs)
           d == DataSize(fs)
           super == Sector("super", Dirs + Len(fs), <<>>, <<>>)
           node(s) == Sector("nodes", 0, Chunk(TableOf(fs), NodesPerSector, s), <<>>)
           cell(s) == Sector("data", 0, <<>>, Chunk(Blob(fs), SectorCells, s))
           nodes == [s \in 1..t |-> node(s)]
           cells == [s \in 1..d |-> cell(s)]
<1>1. t \in Nat /\ d \in Nat /\ Dirs + Len(fs) \in Nat
  BY SizesAreNat
<1>2. Image(fs) = <<super>> \o nodes \o cells
  BY TableHolds DEF Image, TableOf, TableSize, DataSize
<1>3. super \in DiskSector
  BY <1>1 DEF Sector, DiskSector
<1>4. ASSUME NEW s \in 1..t PROVE node(s) \in DiskSector
  <2>1. s - 1 \in Nat /\ s - 1 < t /\ (s - 1) + 1 = s
    BY <1>1
  <2>2. Chunk(TableOf(fs), NodesPerSector, s) \in Seq(DiskNode)
    BY <2>1, TableHolds, SizesAreNat, ChunkIsPart DEF TableSize
  <2> QED BY <2>2 DEF Sector, DiskSector
<1>5. ASSUME NEW s \in 1..d PROVE cell(s) \in DiskSector
  <2>1. s - 1 \in Nat /\ s - 1 < d /\ (s - 1) + 1 = s
    BY <1>1
  <2>2. Chunk(Blob(fs), SectorCells, s) \in Seq(Cells)
    BY <2>1, BlobHolds, SizesAreNat, ChunkIsPart DEF DataSize
  <2> QED BY <2>2 DEF Sector, DiskSector
<1> HIDE DEF super, node, cell, t, d
<1>6. nodes \in Seq(DiskSector) /\ Len(nodes) = t
  BY <1>1, <1>4
<1>7. cells \in Seq(DiskSector) /\ Len(cells) = d
  BY <1>1, <1>5
<1>8. \A s \in 1..t : nodes[s] = node(s)
  OBVIOUS
<1>9. \A s \in 1..d : cells[s] = cell(s)
  OBVIOUS
<1> HIDE DEF nodes, cells
<1> DEFINE head == <<super>> \o nodes
<1>10. /\ head \in Seq(DiskSector) /\ Len(head) = 1 + t /\ head[1] = super
       /\ \A s \in 1..t : head[s + 1] = nodes[s]
  BY <1>1, <1>3, <1>6
<1> HIDE DEF head
<1>11. /\ head \o cells \in Seq(DiskSector) /\ Len(head \o cells) = 1 + t + d
       /\ \A i \in 1..1 + t : (head \o cells)[i] = head[i]
       /\ \A s \in 1..d : (head \o cells)[1 + t + s] = cells[s]
  <2>1. \A s, r \in Seq(DiskSector) :
          /\ s \o r \in Seq(DiskSector) /\ Len(s \o r) = Len(s) + Len(r)
          /\ \A i \in 1..Len(s) : (s \o r)[i] = s[i]
          /\ \A i \in 1..Len(r) : (s \o r)[Len(s) + i] = r[i]
    BY Appended
  <2>2. /\ head \o cells \in Seq(DiskSector) /\ Len(head \o cells) = Len(head) + Len(cells)
        /\ \A i \in 1..Len(head) : (head \o cells)[i] = head[i]
        /\ \A i \in 1..Len(cells) : (head \o cells)[Len(head) + i] = cells[i]
    BY <1>7, <1>10, <2>1, Zenon
  <2> QED BY <1>1, <1>7, <1>10, <2>2
<1>12. Image(fs) = head \o cells
  BY <1>2 DEF head
<1>13. ASSUME NEW q \in 0..t - 1 PROVE Image(fs)[1 + q + 1] = node(q + 1)
  <2>1. q + 1 \in 1..t /\ 1 + q + 1 = (q + 1) + 1 /\ 1 + q + 1 \in 1..1 + t
    BY <1>1
  <2> QED BY <1>8, <1>10, <1>11, <1>12, <2>1
<1>14. ASSUME NEW q \in 0..d - 1 PROVE Image(fs)[1 + t + q + 1] = cell(q + 1)
  <2>1. q + 1 \in 1..d /\ 1 + t + q + 1 = 1 + t + (q + 1)
    BY <1>1
  <2> QED BY <1>9, <1>11, <1>12, <2>1
<1>15. Image(fs)[1] = super
  BY <1>1, <1>10, <1>11, <1>12
<1> QED BY <1>11, <1>12, <1>13, <1>14, <1>15 DEF t, d, super, node, cell

LEMMA ImageIsGood ==
  ASSUME NEW fs \in Seq(File), NEW lba \in 0..Len(Image(fs)) - 1
  PROVE  SectorOK(lba, Image(fs)[lba + 1])
<1> DEFINE t == TableSize(fs)
<1>1. /\ t \in Nat /\ DataSize(fs) \in Nat /\ Len(Image(fs)) = 1 + t + DataSize(fs)
      /\ NodesPerSector \in Nat \ {0} /\ Len(fs) \in Nat
      /\ Image(fs)[lba + 1] \in DiskSector
  BY SizesAreNat, ImageHolds
<1>2. CASE lba = 0
  <2>1. Image(fs)[lba + 1] = Sector("super", Dirs + Len(fs), <<>>, <<>>)
    BY <1>2, ImageHolds
  <2>2. Image(fs)[lba + 1].kind = "super" /\ Image(fs)[lba + 1].count = Dirs + Len(fs)
    BY <2>1 DEF Sector
  <2> QED BY <1>1, <1>2, <2>2 DEF SectorOK, Dirs
<1>3. CASE lba \in 1..t
  <2> DEFINE q == lba - 1
             chunk == Chunk(TableOf(fs), NodesPerSector, q + 1)
  <2>1. q \in 0..t - 1 /\ q \in Nat /\ lba + 1 = 1 + q + 1
    BY <1>1, <1>3
  <2>2. Image(fs)[lba + 1] = Sector("nodes", 0, chunk, <<>>)
    BY <2>1, ImageHolds
  <2>3. Image(fs)[lba + 1].nodes = chunk
    BY <2>2 DEF Sector
  <2>4. Len(chunk) \in 0..NodesPerSector
    BY <1>1, <2>1, TableHolds, ChunkIsPart DEF TableSize
  <2>5. ASSUME NEW j \in 1..Len(chunk) PROVE InPlace(q * NodesPerSector + (j - 1), chunk[j])
    <3>1. j \in 1..NodesPerSector
      BY <1>1, <2>4
    <3>2. /\ q * NodesPerSector + j <= Dirs + Len(fs)
          /\ chunk[j] = TableOf(fs)[q * NodesPerSector + j]
      <4>0. q < SectorsFor(Len(TableOf(fs)), NodesPerSector)
        BY <1>1, <2>1, TableHolds DEF TableSize
      <4>1. /\ j <= Len(chunk) <=> q * NodesPerSector + j <= Len(TableOf(fs))
            /\ j <= Len(chunk) => chunk[j] = TableOf(fs)[q * NodesPerSector + j]
        <5>1. TableOf(fs) \in Seq(DiskNode) /\ NodesPerSector \in Nat \ {0} /\ q \in Nat
          BY <1>1, <2>1, TableHolds
        <5> HIDE DEF q
        <5>2. \A i \in 1..NodesPerSector :
                /\ i <= Len(chunk) <=> q * NodesPerSector + i <= Len(TableOf(fs))
                /\ i <= Len(chunk) => chunk[i] = TableOf(fs)[q * NodesPerSector + i]
          BY <4>0, <5>1, ChunkIsPart, ZenonT(30)
        <5> QED BY <3>1, <5>2, Zenon
      <4>2. Len(TableOf(fs)) = Dirs + Len(fs) /\ j <= Len(chunk)
        BY <2>4, TableHolds
      <4> HIDE DEF chunk, q
      <4> QED BY <4>1, <4>2
    <3>3. q * NodesPerSector \in Nat
      BY <1>1, <2>1, Products
    <3>4. /\ q * NodesPerSector + (j - 1) \in 0..Dirs + Len(fs) - 1
          /\ q * NodesPerSector + j = q * NodesPerSector + (j - 1) + 1
      BY <1>1, <3>1, <3>2, <3>3 DEF Dirs
    <3> QED BY <3>2, <3>4, TableHolds
  <2> HIDE DEF chunk
  <2> QED BY <1>1, <1>3, <2>3, <2>4, <2>5 DEF SectorOK
<1>4. CASE lba \in 1 + t..t + DataSize(fs)
  <2> DEFINE q == lba - (1 + t)
  <2>1. q \in 0..DataSize(fs) - 1 /\ lba + 1 = 1 + t + q + 1
    BY <1>1, <1>4
  <2>2. Image(fs)[lba + 1].nodes = <<>>
    <3>1. Image(fs)[lba + 1] = Sector("data", 0, <<>>, Chunk(Blob(fs), SectorCells, q + 1))
      BY <2>1, ImageHolds
    <3> QED BY <3>1 DEF Sector
  <2> QED BY <1>1, <1>4, <2>2 DEF SectorOK
<1>5. lba = 0 \/ lba \in 1..t \/ lba \in 1 + t..t + DataSize(fs)
  BY <1>1
<1> QED BY <1>2, <1>3, <1>4, <1>5

-----------------------------------------------------------------------------
\* What is read back from a disk.

CellIn(d, lba, pos) ==
  LET at    == lba + pos \div SectorCells
      cells == IF at \in DOMAIN d THEN d[at].cells ELSE <<>>
      i     == (pos % SectorCells) + 1
  IN  IF i <= Len(cells) THEN cells[i] ELSE Hole

DataIn(d, lba, f) == [i \in 1..f.size |-> CellIn(d, lba, f.off + i - 1)]

LoadedFrom(d, lba, f) ==
  IF f.loaded THEN f ELSE [f EXCEPT !.loaded = TRUE, !.data = DataIn(d, lba, f)]

\* What files read as when the data of those that are not loaded are on the disk d
Contents(d, lba, fs) ==
  [i \in DOMAIN fs |-> [name |-> fs[i].name, data |-> LoadedFrom(d, lba, fs[i]).data]]

DiskOK(d) ==
  d \in [0..LastLba -> DiskSector] /\ \A lba \in 0..LastLba : SectorOK(lba, d[lba])

AllLoaded(fs) == \A i \in 1..Len(fs) : fs[i].loaded

LEMMA CellsOfDisks ==
  ASSUME NEW d, DiskOK(d), NEW lba \in Nat, NEW pos \in Nat
  PROVE  CellIn(d, lba, pos) \in Cells
<1> DEFINE at == lba + pos \div SectorCells
           cells == IF at \in DOMAIN d THEN d[at].cells ELSE <<>>
           i == (pos % SectorCells) + 1
<1>1. cells \in Seq(Cells)
  <2>1. CASE at \in DOMAIN d
    <3>1. d[at] \in DiskSector
      BY <2>1 DEF DiskOK, SectorOK
    <3> QED BY <2>1, <3>1 DEF DiskSector
  <2> QED BY <2>1
<1>2. i \in Nat /\ 1 <= i
  <2>1. pos % SectorCells \in 0..SectorCells - 1
    BY SectorCellsAssumption, Divided
  <2> QED BY <2>1, SectorCellsAssumption
<1>3. CellIn(d, lba, pos) = IF i <= Len(cells) THEN cells[i] ELSE Hole
  BY DEF CellIn
<1> HIDE DEF cells, i
<1>4. i <= Len(cells) => cells[i] \in Cells
  BY <1>1, <1>2
<1> QED BY <1>3, <1>4 DEF Cells

LEMMA LoadedIsFile ==
  ASSUME NEW d, DiskOK(d), NEW lba \in Nat, NEW f \in File
  PROVE  /\ LoadedFrom(d, lba, f) \in File /\ LoadedFrom(d, lba, f).loaded
         /\ LoadedFrom(d, lba, f).name = f.name
<1>1. CASE f.loaded
  BY <1>1 DEF LoadedFrom
<1>2. CASE ~f.loaded
  <2>1. f.size \in Nat /\ f.off \in Nat
    BY TextsAssumption DEF File
  <2>2. ASSUME NEW i \in 1..f.size PROVE CellIn(d, lba, f.off + i - 1) \in Cells
    <3>1. f.off + i - 1 \in Nat
      BY <2>1
    <3> QED BY <3>1, CellsOfDisks
  <2>3. DataIn(d, lba, f) \in Seq(Cells) /\ Len(DataIn(d, lba, f)) = f.size
    BY <2>1, <2>2 DEF DataIn
  <2>4. LoadedFrom(d, lba, f) = [f EXCEPT !.loaded = TRUE, !.data = DataIn(d, lba, f)]
    BY <1>2 DEF LoadedFrom
  <2> DEFINE data == DataIn(d, lba, f)
             new == [f EXCEPT !.loaded = TRUE, !.data = data]
  <2>5. f \in [name : Names, size : 0..MaxText, off : Nat, loaded : BOOLEAN, data : Seq(Cells)]
    BY DEF File
  <2> HIDE DEF data
  <2>6. /\ new \in [name : Names, size : 0..MaxText, off : Nat, loaded : BOOLEAN, data : Seq(Cells)]
        /\ new.data = data /\ new.size = f.size /\ new.name = f.name /\ new.loaded
    BY <2>3, <2>5 DEF data
  <2>7. Len(data) <= MaxText /\ Len(data) = f.size
    BY <2>1, <2>3, <2>5, TextsAssumption DEF data
  <2> HIDE DEF new
  <2>8. new \in File
    BY <2>6, <2>7 DEF File
  <2> QED BY <2>4, <2>6, <2>8 DEF new, data
<1> QED BY <1>1, <1>2 DEF File

LEMMA LoadedStays ==
  ASSUME NEW f \in File, f.loaded, NEW d, NEW lba
  PROVE  LoadedFrom(d, lba, f) = f
BY DEF LoadedFrom

LEMMA LoadingIsKept ==
  ASSUME NEW d, DiskOK(d), NEW lba \in Nat, NEW f \in File
  PROVE  LoadedFrom(d, lba, LoadedFrom(d, lba, f)) = LoadedFrom(d, lba, f)
BY LoadedIsFile, LoadedStays

\* Read and Loaded are those of the disk that is mounted.
LEMMA LoadedFromDisk ==
  /\ \A f : Loaded(f) = LoadedFrom(disk, dataLba, f)
  /\ \A f, lba : Read(f, lba) = DataIn(disk, lba, f)
BY DEF Loaded, LoadedFrom, Read, DataIn, CellAt, CellIn

-----------------------------------------------------------------------------
\* The invariant.
Inv ==
  /\ power \in {"off", "fresh", "on", "lost"} /\ dirty \in BOOLEAN /\ dataLba \in Nat
  /\ faults \in 0..MaxFaults
  /\ DiskOK(disk)
  /\ files \in Seq(File)
  /\ truth = Contents(disk, dataLba, files)
  /\ power # "on" => files = <<>>

LEMMA InvReads == Inv => ReadsReturnContents
<1> SUFFICES ASSUME Inv PROVE ReadsReturnContents
  OBVIOUS
<1>1. files \in Seq(File) /\ DOMAIN files = 1..Len(files)
  BY DEF Inv
<1>2. TypeOK
  <2>1. \A n \in 0..MaxText : n \in Nat
    BY TextsAssumption
  <2> QED BY <1>1, <2>1, FilesOfList DEF Inv, TypeOK
<1>3. truth = [i \in 1..Len(files) |->
                 [name |-> files[i].name, data |-> Loaded(files[i]).data]]
  BY <1>1, LoadedFromDisk DEF Inv, Contents
<1> QED BY <1>1, <1>2, <1>3 DEF ReadsReturnContents

-----------------------------------------------------------------------------
\* Lists of files and what they read as.

Content1(d, lba, f) == [name |-> f.name, data |-> LoadedFrom(d, lba, f).data]

LEMMA ContentsAre ==
  ASSUME NEW d, NEW lba, NEW fs \in Seq(File)
  PROVE  /\ Contents(d, lba, fs) = [i \in 1..Len(fs) |-> Content1(d, lba, fs[i])]
         /\ DOMAIN Contents(d, lba, fs) = 1..Len(fs) /\ Len(Contents(d, lba, fs)) = Len(fs)
         /\ \A i \in 1..Len(fs) : Contents(d, lba, fs)[i] = Content1(d, lba, fs[i])
BY DEF Contents, Content1

LEMMA ContentsAreSeq ==
  ASSUME NEW d, DiskOK(d), NEW lba \in Nat, NEW fs \in Seq(File)
  PROVE  Contents(d, lba, fs) \in Seq(Content)
<1>1. ASSUME NEW i \in 1..Len(fs) PROVE Content1(d, lba, fs[i]) \in Content
  <2>1. fs[i] \in File
    BY FilesOfList
  <2>2. LoadedFrom(d, lba, fs[i]) \in File
    BY <2>1, LoadedIsFile
  <2> QED BY <2>1, <2>2 DEF Content1, Content, File
<1> QED BY <1>1, ContentsAre

\* Loading some files of a list changes nothing about what they read as.
SomeLoaded(d, lba, fs, some) ==
  [i \in 1..Len(fs) |-> IF i \in some THEN LoadedFrom(d, lba, fs[i]) ELSE fs[i]]

LEMMA LoadingKeepsContents ==
  ASSUME NEW d, DiskOK(d), NEW lba \in Nat, NEW fs \in Seq(File), NEW some
  PROVE  /\ SomeLoaded(d, lba, fs, some) \in Seq(File)
         /\ Len(SomeLoaded(d, lba, fs, some)) = Len(fs)
         /\ Contents(d, lba, SomeLoaded(d, lba, fs, some)) = Contents(d, lba, fs)
         /\ 1..Len(fs) \subseteq some => AllLoaded(SomeLoaded(d, lba, fs, some))
<1> DEFINE now == SomeLoaded(d, lba, fs, some)
           it(i) == IF i \in some THEN LoadedFrom(d, lba, fs[i]) ELSE fs[i]
<1>1. ASSUME NEW i \in 1..Len(fs)
      PROVE  /\ it(i) \in File /\ it(i).name = fs[i].name
             /\ LoadedFrom(d, lba, it(i)) = LoadedFrom(d, lba, fs[i])
             /\ i \in some => it(i).loaded
  <2>1. fs[i] \in File
    BY FilesOfList
  <2> QED BY <2>1, LoadedIsFile, LoadingIsKept
<1>0. now = [i \in 1..Len(fs) |-> it(i)]
  BY DEF SomeLoaded
<1> HIDE DEF it, now
<1>2. now \in Seq(File) /\ Len(now) = Len(fs) /\ \A i \in 1..Len(fs) : now[i] = it(i)
  BY <1>0, <1>1
<1>3. Contents(d, lba, now) = Contents(d, lba, fs)
  <2>1. ASSUME NEW i \in 1..Len(fs) PROVE Content1(d, lba, now[i]) = Content1(d, lba, fs[i])
    BY <1>1, <1>2 DEF Content1
  <2> QED BY <1>2, <2>1, ContentsAre
<1>4. 1..Len(fs) \subseteq some => AllLoaded(now)
  BY <1>1, <1>2 DEF AllLoaded
<1> QED BY <1>2, <1>3, <1>4 DEF now

LEMMA LoadedLists ==
  ASSUME NEW fs \in Seq(File), AllLoaded(fs), NEW d, NEW lba, NEW e, NEW lbb
  PROVE  Contents(d, lba, fs) = Contents(e, lbb, fs)
<1>1. ASSUME NEW i \in 1..Len(fs) PROVE Content1(d, lba, fs[i]) = Content1(e, lbb, fs[i])
  BY FilesOfList, LoadedStays DEF AllLoaded, Content1
<1> QED BY <1>1, ContentsAre

LEMMA MaterializedHolds ==
  ASSUME Inv, NEW fs \in Seq(File)
  PROVE  /\ Materialized(fs) \in Seq(File) /\ AllLoaded(Materialized(fs))
         /\ Len(Materialized(fs)) = Len(fs)
         /\ Contents(disk, dataLba, Materialized(fs)) = Contents(disk, dataLba, fs)
<1>1. Materialized(fs) = SomeLoaded(disk, dataLba, fs, Nat)
  BY LoadedFromDisk DEF Materialized, SomeLoaded
<1>2. 1..Len(fs) \subseteq Nat
  OBVIOUS
<1>3. DiskOK(disk) /\ dataLba \in Nat
  BY DEF Inv
<1> QED BY <1>1, <1>2, <1>3, LoadingKeepsContents

LEMMA FabbedHolds ==
  ASSUME Inv, NEW n \in Names
  PROVE  /\ Fabbed(n) \in Seq(File)
         /\ FabbedTruth(n) = Contents(disk, dataLba, Fabbed(n))
<1> DEFINE C(f) == Content1(disk, dataLba, f)
           new == NewFile(n)
           c == [name |-> n, data |-> <<>>]
<1>1. files \in Seq(File) /\ truth = Contents(disk, dataLba, files) /\ Len(files) \in Nat
  BY DEF Inv
<1>2. new \in File
  BY TextsAssumption DEF NewFile, File
<1>3. C(new) = c
  <2>1. DataIn(disk, dataLba, new) = <<>>
    BY DEF DataIn, NewFile
  <2> QED BY <2>1 DEF Content1, LoadedFrom, NewFile
<1>4. Fabbed(n) = <<new>> \o files /\ FabbedTruth(n) = <<c>> \o truth
  BY DEF Fabbed, FabbedTruth
<1> HIDE DEF new, c
<1>5. /\ Fabbed(n) \in Seq(File) /\ Len(Fabbed(n)) = Len(files) + 1 /\ Fabbed(n)[1] = new
      /\ \A i \in 1..Len(files) : Fabbed(n)[i + 1] = files[i]
  BY <1>1, <1>2, <1>4
<1>6. /\ truth \in Seq(Content) /\ Len(truth) = Len(files)
      /\ \A i \in 1..Len(files) : truth[i] = C(files[i])
  BY <1>1, ContentsAre, ContentsAreSeq DEF Inv
<1>7. /\ DOMAIN FabbedTruth(n) = 1..Len(files) + 1 /\ FabbedTruth(n)[1] = c
      /\ \A i \in 1..Len(files) : FabbedTruth(n)[i + 1] = truth[i]
      /\ FabbedTruth(n) = [i \in 1..Len(files) + 1 |-> FabbedTruth(n)[i]]
  <2> DEFINE S == Content \cup {c}
  <2>1. <<c>> \in Seq(S) /\ truth \in Seq(S)
    BY <1>6
  <2> HIDE DEF S
  <2> QED BY <1>1, <1>4, <1>6, <2>1
<1>8. ASSUME NEW i \in 1..Len(files) + 1 PROVE FabbedTruth(n)[i] = C(Fabbed(n)[i])
  <2>1. CASE i = 1
    BY <1>3, <1>5, <1>7, <2>1
  <2>2. CASE i # 1
    <3>1. i - 1 \in 1..Len(files) /\ (i - 1) + 1 = i
      BY <1>1, <2>2
    <3> QED BY <1>5, <1>6, <1>7, <3>1
  <2> QED BY <2>1, <2>2
<1>9. Contents(disk, dataLba, Fabbed(n)) = [i \in 1..Len(files) + 1 |-> C(Fabbed(n)[i])]
  BY <1>5, ContentsAre
<1> HIDE DEF C
<1>10. FabbedTruth(n) = Contents(disk, dataLba, Fabbed(n))
  BY <1>7, <1>8, <1>9
<1> QED BY <1>5, <1>10

LEMMA IndexHolds ==
  ASSUME Inv, NEW n
  PROVE  Index(n) # 0 => Index(n) \in 1..Len(files)
<1> DEFINE First(i) == files[i].name = n /\ \A j \in 1..i - 1 : files[j].name # n
           Of == {i \in DOMAIN files : files[i].name = n}
<1>1. DOMAIN files = 1..Len(files) /\ Len(files) \in Nat
  BY DEF Inv
<1>2. ASSUME Of # {} PROVE \E i \in DOMAIN files : First(i)
  <2>1. Of \in SUBSET Nat
    BY <1>1
  <2> HIDE DEF Of
  <2>2. PICK i \in Of : \A m \in Of : i <= m
    BY <1>2, <2>1, LeastOfSome
  <2>3. i \in DOMAIN files /\ files[i].name = n
    BY DEF Of
  <2>4. ASSUME NEW j \in 1..i - 1 PROVE files[j].name # n
    <3>1. j \in DOMAIN files /\ ~(i <= j)
      BY <1>1, <2>3
    <3> QED BY <2>2, <3>1 DEF Of
  <2> QED BY <2>3, <2>4
<1> QED BY <1>1, <1>2 DEF Index

LEMMA Rewritten ==
  ASSUME NEW f \in File, NEW text \in Texts
  PROVE  LET new == [f EXCEPT !.data = text, !.size = Len(text), !.loaded = TRUE]
         IN  new \in File /\ new.loaded /\ new.name = f.name /\ new.data = text
<1> DEFINE size == Len(text)
           new == [f EXCEPT !.data = text, !.size = size, !.loaded = TRUE]
<1>1. f \in [name : Names, size : 0..MaxText, off : Nat, loaded : BOOLEAN, data : Seq(Cells)]
  BY DEF File
<1>2. size \in 0..MaxText /\ size <= MaxText /\ text \in Seq(Cells)
  BY TextsAreCells, TextsAssumption
<1> HIDE DEF size
<1>3. new \in [name : Names, size : 0..MaxText, off : Nat, loaded : BOOLEAN, data : Seq(Cells)]
  BY <1>1, <1>2
<1>4. new.loaded /\ new.name = f.name /\ new.data = text /\ new.size = size
  BY <1>1
<1> HIDE DEF new
<1>5. new \in File
  BY <1>3, <1>4 DEF File, size
<1> QED BY <1>4, <1>5 DEF new, size

LEMMA CarvedHolds ==
  ASSUME Inv, NEW k \in 1..Len(files), NEW text \in Texts
  PROVE  /\ Carved(k, text) \in Seq(File)
         /\ CarvedTruth(k, text) = Contents(disk, dataLba, Carved(k, text))
<1> DEFINE C(f) == Content1(disk, dataLba, f)
           old == files[k]
           new == [files[k] EXCEPT !.data = text, !.size = Len(text), !.loaded = TRUE]
<1>1. files \in Seq(File) /\ truth = Contents(disk, dataLba, files) /\ Len(files) \in Nat
  BY DEF Inv
<1>2. old \in File /\ text \in Seq(Cells)
  BY <1>1, FilesOfList, TextsAreCells
<1>3. new \in File /\ new.loaded /\ new.name = old.name /\ new.data = text
  BY <1>2, Rewritten
<1>4. C(new) = [name |-> old.name, data |-> text]
  BY <1>3 DEF Content1, LoadedFrom
<1>5. Carved(k, text) = [files EXCEPT ![k] = new]
  BY <1>1 DEF Carved
<1>6. /\ Carved(k, text) \in Seq(File) /\ Len(Carved(k, text)) = Len(files)
      /\ Carved(k, text)[k] = new
      /\ \A i \in 1..Len(files) : i # k => Carved(k, text)[i] = files[i]
  <2> HIDE DEF new
  <2> QED BY <1>1, <1>3, <1>5
<1>7. /\ DOMAIN truth = 1..Len(files) /\ \A i \in 1..Len(files) : truth[i] = C(files[i])
      /\ truth = [i \in 1..Len(files) |-> C(files[i])]
  BY <1>1, ContentsAre
<1>8. /\ truth[k].name = old.name
      /\ truth[k] = [name |-> old.name, data |-> LoadedFrom(disk, dataLba, old).data]
  BY <1>7 DEF Content1
<1>9. [truth[k] EXCEPT !.data = text] = C(new)
  BY <1>4, <1>8
<1>10. CarvedTruth(k, text) = [truth EXCEPT ![k] = C(new)]
  BY <1>7, <1>9 DEF CarvedTruth
<1> HIDE DEF new, C
<1>11. CarvedTruth(k, text) = [i \in 1..Len(files) |-> C(Carved(k, text)[i])]
  BY <1>6, <1>7, <1>10
<1>12. Contents(disk, dataLba, Carved(k, text)) = [i \in 1..Len(files) |-> C(Carved(k, text)[i])]
  BY <1>6, ContentsAre DEF C
<1> QED BY <1>6, <1>11, <1>12

LEMMA WithoutHolds ==
  ASSUME NEW S, NEW seq \in Seq(S), NEW k \in 1..Len(seq)
  PROVE  /\ Without(seq, k) \in Seq(S) /\ Len(Without(seq, k)) = Len(seq) - 1
         /\ \A i \in 1..Len(seq) - 1 : Without(seq, k)[i] = seq[IF i < k THEN i ELSE i + 1]
<1> DEFINE a == SubSeq(seq, 1, k - 1)
           b == SubSeq(seq, k + 1, Len(seq))
<1>1. Len(seq) \in Nat /\ k \in Nat /\ 1 <= k /\ k <= Len(seq)
  OBVIOUS
<1>2. /\ a \in Seq(S) /\ Len(a) = k - 1
      /\ \A i \in 1..k - 1 : a[i] = seq[i]
  BY <1>1, SubSeqProperties
<1>3. /\ b \in Seq(S) /\ Len(b) = Len(seq) - k
      /\ \A i \in 1..Len(seq) - k : b[i] = seq[k + i]
  BY <1>1, SubSeqProperties
<1> HIDE DEF a, b
<1>4. Without(seq, k) = a \o b
  BY DEF Without, a, b
<1>5. /\ a \o b \in Seq(S) /\ Len(a \o b) = Len(a) + Len(b)
      /\ \A i \in 1..Len(a) : (a \o b)[i] = a[i]
      /\ \A i \in 1..Len(b) : (a \o b)[Len(a) + i] = b[i]
  <2>1. \A x, y \in Seq(S) :
          /\ x \o y \in Seq(S) /\ Len(x \o y) = Len(x) + Len(y)
          /\ \A i \in 1..Len(x) : (x \o y)[i] = x[i]
          /\ \A i \in 1..Len(y) : (x \o y)[Len(x) + i] = y[i]
    BY Appended
  <2> QED BY <1>2, <1>3, <2>1, Zenon
<1>6. Len(a \o b) = Len(seq) - 1
  BY <1>1, <1>2, <1>3, <1>5
<1>7. ASSUME NEW i \in 1..Len(seq) - 1 PROVE (a \o b)[i] = seq[IF i < k THEN i ELSE i + 1]
  <2>1. CASE i < k
    <3>1. i \in 1..k - 1
      BY <1>1, <2>1
    <3> QED BY <1>2, <1>5, <2>1, <3>1
  <2>2. CASE ~(i < k)
    <3> DEFINE j == i - (k - 1)
    <3>1. j \in 1..Len(seq) - k /\ (k - 1) + j = i /\ k + j = i + 1
      BY <1>1, <2>2
    <3> HIDE DEF j
    <3>2. (a \o b)[(k - 1) + j] = b[j] /\ b[j] = seq[k + j]
      BY <1>2, <1>3, <1>5, <3>1
    <3> QED BY <2>2, <3>1, <3>2
  <2> QED BY <2>1, <2>2
<1> QED BY <1>4, <1>5, <1>6, <1>7

LEMMA BurntHolds ==
  ASSUME Inv, NEW k \in 1..Len(files)
  PROVE  /\ Without(files, k) \in Seq(File)
         /\ Without(truth, k) = Contents(disk, dataLba, Without(files, k))
<1> DEFINE C(f) == Content1(disk, dataLba, f)
           n == Len(files) - 1
           from(i) == IF i < k THEN i ELSE i + 1
<1>1. files \in Seq(File) /\ Len(files) \in Nat /\ truth = Contents(disk, dataLba, files)
  BY DEF Inv
<1>2. /\ truth \in Seq(Content) /\ Len(truth) = Len(files)
      /\ \A i \in 1..Len(files) : truth[i] = C(files[i])
  BY <1>1, ContentsAre, ContentsAreSeq DEF Inv
<1>3. /\ Without(files, k) \in Seq(File) /\ Len(Without(files, k)) = n
      /\ \A i \in 1..n : Without(files, k)[i] = files[from(i)]
  BY <1>1, WithoutHolds
<1>4. /\ Without(truth, k) \in Seq(Content) /\ Len(Without(truth, k)) = n
      /\ \A i \in 1..n : Without(truth, k)[i] = truth[from(i)]
  <2>1. k \in 1..Len(truth)
    BY <1>2
  <2> QED BY <1>2, <2>1, WithoutHolds
<1> HIDE DEF C
<1>5. ASSUME NEW i \in 1..n PROVE Without(truth, k)[i] = C(Without(files, k)[i])
  <2>1. from(i) \in 1..Len(files)
    BY <1>1
  <2> QED BY <1>2, <1>3, <1>4, <2>1
<1>6. Contents(disk, dataLba, Without(files, k)) = [i \in 1..n |-> C(Without(files, k)[i])]
  BY <1>3, ContentsAre DEF C
<1>7. n \in Int /\ Without(truth, k) = [i \in 1..n |-> Without(truth, k)[i]]
  BY <1>1, <1>4
<1> QED BY <1>3, <1>5, <1>6, <1>7

LEMMA InspHolds ==
  ASSUME Inv, NEW k \in 1..Len(files)
  PROVE  /\ [files EXCEPT ![k] = Loaded(@)] \in Seq(File)
         /\ truth = Contents(disk, dataLba, [files EXCEPT ![k] = Loaded(@)])
<1> DEFINE now == SomeLoaded(disk, dataLba, files, {k})
           it == LoadedFrom(disk, dataLba, files[k])
<1>1. /\ files \in Seq(File) /\ truth = Contents(disk, dataLba, files)
      /\ DiskOK(disk) /\ dataLba \in Nat
  BY DEF Inv
<1>2. [files EXCEPT ![k] = Loaded(@)] = [files EXCEPT ![k] = it]
  BY <1>1, LoadedFromDisk
<1>3. now = [i \in 1..Len(files) |-> IF i = k THEN it ELSE files[i]]
  BY DEF SomeLoaded
<1>4. now \in Seq(File) /\ Contents(disk, dataLba, now) = Contents(disk, dataLba, files)
  BY <1>1, LoadingKeepsContents
<1> HIDE DEF now, it
<1>5. now = [files EXCEPT ![k] = it]
  BY <1>1, <1>3
<1> QED BY <1>1, <1>2, <1>4, <1>5

-----------------------------------------------------------------------------
\* The steps.

LEMMA ReturnKeeps ==
  ASSUME Inv, NEW fs \in Seq(File), NEW t, t = Contents(disk, dataLba, fs),
         NEW d \in BOOLEAN, Return(fs, t, d), UNCHANGED disk, faults' \in 0..MaxFaults
  PROVE  Inv'
BY DEF Inv, Return

LEMMA ReturnAllKeeps ==
  ASSUME Inv, NEW fs \in Seq(File), AllLoaded(fs), NEW t, t = Contents(disk, dataLba, fs),
         NEW d \in BOOLEAN, Return(fs, t, d), DiskOK(disk'), faults' \in 0..MaxFaults
  PROVE  Inv'
<1>1. t = Contents(disk', dataLba', fs)
  BY LoadedLists
<1> QED BY <1>1 DEF Inv, Return

LEMMA OffKeeps ==
  ASSUME Inv, PowerOff, DiskOK(disk'), faults' \in 0..MaxFaults
  PROVE  Inv'
<1>1. Contents(disk', dataLba', files') = <<>> /\ files' \in Seq(File)
  BY DEF Contents, PowerOff
<1>2. truth' = Contents(disk', dataLba', files')
  BY <1>1 DEF PowerOff
<1> QED BY <1>1, <1>2 DEF Inv, PowerOff

LEMMA FaultCounts == Inv /\ (Fault \/ UNCHANGED faults) => faults' \in 0..MaxFaults
BY MaxFaultsAssumption DEF Inv, Fault

LEMMA WritesKeepDisk ==
  ASSUME Inv, NEW fs \in Seq(File), NEW k \in Nat, k <= Len(Image(fs)),
         WritePrefix(Image(fs), k)
  PROVE  DiskOK(disk')
<1>1. DiskOK(disk) /\ Len(Image(fs)) \in Nat
  BY ImageHolds DEF Inv
<1>2. ASSUME NEW lba \in 0..LastLba PROVE SectorOK(lba, disk'[lba])
  <2>1. disk'[lba] = IF lba < k THEN Image(fs)[lba + 1] ELSE disk[lba]
    BY <1>1 DEF WritePrefix, DiskOK
  <2>2. CASE lba < k
    <3>1. lba \in 0..Len(Image(fs)) - 1
      BY <1>1, <2>2
    <3> QED BY <2>1, <2>2, <3>1, ImageIsGood
  <2>3. CASE ~(lba < k)
    BY <1>1, <2>1, <2>3 DEF DiskOK
  <2> QED BY <2>2, <2>3
<1>3. \A lba \in 0..LastLba : disk'[lba] \in DiskSector
  BY <1>2 DEF SectorOK
<1> QED BY <1>1, <1>2, <1>3 DEF WritePrefix, DiskOK

LEMMA SaveKeeps ==
  ASSUME Inv, NEW fs \in Seq(File), NEW t, t = Contents(disk, dataLba, fs),
         NEW d \in BOOLEAN, Save(fs, t, d)
  PROVE  Inv'
<1> DEFINE all == Materialized(fs)
           image == Image(all)
<1>1. /\ all \in Seq(File) /\ AllLoaded(all) /\ Len(all) = Len(fs)
      /\ t = Contents(disk, dataLba, all)
  BY MaterializedHolds
<1>2. Len(image) \in Nat
  BY <1>1, ImageHolds
<1>3. AfterError(d) \in BOOLEAN /\ FALSE \in BOOLEAN
  BY DEF AfterError
<1> HIDE DEF all
<1>4. CASE ReadFails(fs, t, d)
  <2>1. PICK i \in DOMAIN fs :
          /\ Fault /\ UNCHANGED disk
          /\ Return([j \in DOMAIN fs |-> IF j < i THEN Loaded(fs[j]) ELSE fs[j]], t,
                    AfterError(d))
    BY <1>4 DEF ReadFails
  <2> DEFINE now == SomeLoaded(disk, dataLba, fs, 1..i - 1)
  <2>2. [j \in DOMAIN fs |-> IF j < i THEN Loaded(fs[j]) ELSE fs[j]] = now
    BY LoadedFromDisk DEF SomeLoaded
  <2>3. now \in Seq(File) /\ t = Contents(disk, dataLba, now)
    BY LoadingKeepsContents DEF Inv
  <2>4. Return(now, t, AfterError(d)) /\ UNCHANGED disk /\ faults' \in 0..MaxFaults
    BY <2>1, <2>2, FaultCounts
  <2> HIDE DEF now
  <2> QED BY <1>3, <2>3, <2>4, ReturnKeeps
<1>5. CASE Return(all, t, AfterError(d)) /\ UNCHANGED <<disk, faults>>
  BY <1>1, <1>3, <1>5, FaultCounts, ReturnKeeps
<1>6. CASE WholeImage(image, t) /\ Return(all, t, FALSE)
  <2>1. DiskOK(disk') /\ faults' \in 0..MaxFaults
    BY <1>1, <1>2, <1>6, WritesKeepDisk, FaultCounts DEF WholeImage
  <2> QED BY <1>1, <1>3, <1>6, <2>1, ReturnAllKeeps
<1>7. CASE PartOfImage(image) /\ (Return(all, t, AfterError(d)) \/ PowerOff)
  <2>1. PICK k \in 0..Len(image) : WritePrefix(image, k)
    BY <1>7 DEF PartOfImage
  <2>2. k \in Nat /\ k <= Len(image)
    BY <1>2
  <2>3. DiskOK(disk') /\ faults' \in 0..MaxFaults
    BY <1>1, <1>7, <2>1, <2>2, WritesKeepDisk, FaultCounts DEF PartOfImage
  <2> QED BY <1>1, <1>3, <1>7, <2>3, ReturnAllKeeps, OffKeeps
<1> QED BY <1>4, <1>5, <1>6, <1>7 DEF Save, all

-----------------------------------------------------------------------------
\* The mount.

LEMMA NodesInPlace ==
  ASSUME DiskOK(disk), NEW i \in Nat, NodeAt(i).type # "none"
  PROVE  NodeAt(i) \in DiskNode /\ InPlace(i, NodeAt(i))
<1> DEFINE q == i \div NodesPerSector
           at == 1 + q
           table == IF at \in DOMAIN disk THEN disk[at].nodes ELSE <<>>
           r == i % NodesPerSector
           j == r + 1
<1>1. NodeAt(i) = IF j <= Len(table) THEN table[j] ELSE Node("none", "", NoLink, NoLink, 0, 0)
  BY DEF NodeAt
<1>2. /\ q \in Nat /\ j \in 1..NodesPerSector /\ i = q * NodesPerSector + (j - 1)
  <2>1. NodesPerSector \in Nat \ {0}
    BY NodesPerSectorAssumption
  <2>2. q \in Nat /\ r \in 0..NodesPerSector - 1 /\ i = q * NodesPerSector + r
    BY <2>1, Divided
  <2>3. q * NodesPerSector \in Nat
    BY <2>1, <2>2, Products
  <2> HIDE DEF q, r, at, table
  <2> QED BY <2>1, <2>2, <2>3
<1> HIDE DEF table, j, q
<1>3. j <= Len(table)
  <2>1. SUFFICES ASSUME ~(j <= Len(table)) PROVE FALSE
    OBVIOUS
  <2>2. NodeAt(i) = Node("none", "", NoLink, NoLink, 0, 0)
    BY <1>1, <2>1
  <2>3. Node("none", "", NoLink, NoLink, 0, 0).type = "none"
    BY DEF Node
  <2> QED BY <2>2, <2>3, Zenon
<1>4. j \in 1..Len(table) /\ NodeAt(i) = table[j]
  <2>1. Len(table) \in Int
    <3>1. at \in DOMAIN disk => disk[at] \in DiskSector
      BY DEF DiskOK, SectorOK
    <3> QED BY <3>1 DEF table, DiskSector
  <2> QED BY <1>1, <1>2, <1>3, <2>1
<1>5. at \in 0..LastLba /\ at > 0 /\ at - 1 = q /\ table = disk[at].nodes
  BY <1>2, <1>4 DEF DiskOK, table
<1>6. SectorOK(at, disk[at])
  BY <1>5 DEF DiskOK
<1> HIDE DEF at
<1>7. disk[at].nodes \in Seq(DiskNode) /\ disk[at] \in DiskSector
  BY <1>6 DEF SectorOK, DiskSector
<1>8. InPlace((at - 1) * NodesPerSector + (j - 1), table[j])
  BY <1>4, <1>5, <1>6 DEF SectorOK
<1> QED BY <1>2, <1>4, <1>5, <1>7, <1>8

\* Nodes that are linked to the next one or to none make a list.
Follows(n, next, item, g) ==
  g = [i \in NoLink..n - 1 |-> IF i = NoLink THEN <<>> ELSE <<item[i]>> \o g[next[i]]]

LEMMA ListsExist ==
  ASSUME NEW n \in Nat, NEW item, NEW next,
         \A i \in 0..n - 1 : next[i] \in {i + 1, NoLink} /\ next[i] < n
  PROVE  \E g : Follows(n, next, item, g)
<1> DEFINE dom(k) == {NoLink} \cup n - k..n - 1
           Eq(k, g) == g = [i \in dom(k) |->
                              IF i = NoLink THEN <<>> ELSE <<item[i]>> \o g[next[i]]]
           Some == {k \in Nat : k <= n => \E g : Eq(k, g)}
<1>1. 0 \in Some
  <2>1. dom(0) = {NoLink}
    OBVIOUS
  <2>2. Eq(0, [i \in {NoLink} |-> <<>>])
    BY <2>1
  <2> QED BY <2>2
<1> HIDE DEF Eq
<1>2. ASSUME NEW k \in Some PROVE k + 1 \in Some
  <2> SUFFICES ASSUME k + 1 <= n PROVE \E g : Eq(k + 1, g)
    BY <1>2
  <2>0. k \in Nat /\ k <= n
    OBVIOUS
  <2>1. PICK g : Eq(k, g)
    BY <2>0
  <2> DEFINE new == n - (k + 1)
             h == [i \in dom(k + 1) |->
                     IF i = new THEN <<item[i]>> \o g[next[i]] ELSE g[i]]
             s == [i \in dom(k + 1) |->
                     IF i = NoLink THEN <<>> ELSE <<item[i]>> \o h[next[i]]]
  <2>2. /\ new \in 0..n - 1 /\ new + 1 = n - k /\ new \notin dom(k)
        /\ dom(k + 1) = dom(k) \cup {new}
    BY DEF NoLink
  <2>3. ASSUME NEW i \in dom(k + 1), i # NoLink PROVE next[i] \in dom(k) /\ i \in 0..n - 1
    <3>1. i \in 0..n - 1 /\ i >= n - (k + 1)
      BY <2>3, <2>2
    <3>2. next[i] \in {i + 1, NoLink} /\ next[i] < n
      BY <3>1
    <3> QED BY <3>1, <3>2
  <2> HIDE DEF new, dom
  <2>4. ASSUME NEW i \in dom(k + 1) PROVE h[i] = s[i]
    <3>1. CASE i = NoLink
      <4>1. NoLink \in dom(k) /\ NoLink # new
        BY <2>2 DEF dom
      <4>2. g[NoLink] = <<>>
        BY <2>1, <4>1 DEF Eq
      <4> QED BY <3>1, <4>1, <4>2
    <3>2. CASE i # NoLink
      <4>1. next[i] \in dom(k) /\ next[i] # new
        BY <2>2, <2>3, <3>2
      <4>2. h[next[i]] = g[next[i]]
        BY <2>2, <4>1
      <4>3. i # new => g[i] = <<item[i]>> \o g[next[i]]
        BY <2>1, <2>2, <3>2 DEF Eq
      <4> QED BY <3>2, <4>2, <4>3
    <3> QED BY <3>1, <3>2
  <2>5. h = s
    BY <2>4
  <2>6. Eq(k + 1, h)
    BY <2>5 DEF Eq
  <2> QED BY <2>6
<1>3. Some = Nat
  <2> HIDE DEF Some
  <2>1. Some \in SUBSET Nat
    BY DEF Some
  <2> QED BY <1>1, <1>2, <2>1, Induction
<1>4. \E g : Eq(n, g)
  <2>1. n <= n
    OBVIOUS
  <2> HIDE DEF Some
  <2>2. n \in Some
    BY <1>3
  <2> QED BY <2>1, <2>2 DEF Some
<1>5. dom(n) = NoLink..n - 1
  BY DEF NoLink
<1> QED BY <1>4, <1>5 DEF Follows, Eq

\* What such a list consists of
LEMMA ListsHold ==
  ASSUME NEW n \in Nat, NEW item, NEW next, NEW S, NEW first \in Nat,
         \A i \in 0..n - 1 : next[i] \in {i + 1, NoLink} /\ next[i] < n,
         \A i \in first..n - 1 : item[i] \in S,
         NEW g, Follows(n, next, item, g)
  PROVE  /\ g[NoLink] = <<>>
         /\ \A i \in first..n - 1 : g[i] \in Seq(S)
<1> DEFINE Some == {k \in Nat : \A i \in first..n - 1 : i >= n - k => g[i] \in Seq(S)}
<1>1. /\ g[NoLink] = <<>>
      /\ \A i \in 0..n - 1 : g[i] = <<item[i]>> \o g[next[i]]
  <2>1. /\ NoLink \in NoLink..n - 1
        /\ \A i \in 0..n - 1 : i \in NoLink..n - 1 /\ i # NoLink
    BY DEF NoLink
  <2> QED BY <2>1 DEF Follows
<1>2. 0 \in Some
  OBVIOUS
<1>3. ASSUME NEW k \in Some PROVE k + 1 \in Some
  <2> SUFFICES ASSUME NEW i \in first..n - 1, i >= n - (k + 1) PROVE g[i] \in Seq(S)
    OBVIOUS
  <2>0. k \in Nat /\ i \in Nat /\ i >= n - (k + 1)
    OBVIOUS
  <2>1. i \in 0..n - 1
    OBVIOUS
  <2>2. next[i] \in {i + 1, NoLink} /\ next[i] < n /\ item[i] \in S
    BY <2>1
  <2>3. g[next[i]] \in Seq(S)
    <3>1. CASE next[i] = NoLink
      <4>1. g[NoLink] \in Seq(S)
        BY <1>1
      <4> QED BY <3>1, <4>1
    <3>2. CASE next[i] = i + 1
      <4>1. i + 1 \in first..n - 1 /\ i + 1 >= n - k
        BY <2>0, <2>2, <3>2
      <4> QED BY <3>2, <4>1
    <3> QED BY <2>2, <3>1, <3>2
  <2>4. g[i] = <<item[i]>> \o g[next[i]]
    BY <1>1, <2>1
  <2> HIDE DEF Some
  <2> QED BY <2>2, <2>3, <2>4
<1>4. Some = Nat
  <2> HIDE DEF Some
  <2>1. Some \in SUBSET Nat
    BY DEF Some
  <2> QED BY <1>2, <1>3, <2>1, Induction
<1>5. ASSUME NEW i \in first..n - 1 PROVE g[i] \in Seq(S)
  <2>1. n \in Some /\ i >= n - n
    BY <1>4
  <2> QED BY <2>1
<1> QED BY <1>1, <1>5

\* Files of which nothing is in memory
FileOnDisk == {f \in File : f.data = <<>>}

\* The nodes of a disk that can be mounted
LEMMA MountedNodes ==
  ASSUME DiskOK(disk), disk[0].kind = "super", NodeTypesOK, LinksOK
  PROVE  /\ Count \in Nat /\ Count >= Dirs /\ MountedDataLba \in Nat
         /\ \A i \in 0..Count - 1 :
              /\ NodeAt(i) \in DiskNode /\ NodeAt(i).next \in {i + 1, NoLink}
              /\ NodeAt(i).next < Count
         /\ \A i \in Dirs..Count - 1 : FileAt(i) \in FileOnDisk
         /\ NodeAt(Dirs - 1).child \in {Dirs, NoLink} /\ NodeAt(Dirs - 1).child < Count
<1>1. SectorOK(0, disk[0])
  BY LastLbaAssumption DEF DiskOK
<1>2. Count \in Nat /\ Count >= Dirs
  BY <1>1 DEF SectorOK, DiskSector, Count
<1>3. ASSUME NEW i \in 0..Count - 1
      PROVE  NodeAt(i) \in DiskNode /\ InPlace(i, NodeAt(i)) /\ i \in Nat
  <2>1. i \in Nat /\ NodeAt(i).type # "none"
    BY <1>2 DEF NodeTypesOK
  <2> QED BY <2>1, NodesInPlace
<1>4. ASSUME NEW i \in 0..Count - 1
      PROVE  NodeAt(i).next \in {i + 1, NoLink} /\ NodeAt(i).next < Count
  <2>1. NodeAt(i).next \in {i + 1, NoLink}
    BY <1>3 DEF InPlace
  <2> QED BY <2>1 DEF LinksOK
<1>5. ASSUME NEW i \in Dirs..Count - 1 PROVE FileAt(i) \in FileOnDisk
  <2>1. i \in 0..Count - 1 /\ ~(i < Dirs)
    BY <1>2 DEF Dirs
  <2> DEFINE node == NodeAt(i)
  <2>2. node \in DiskNode /\ node.name \in Names
    BY <1>3, <2>1 DEF InPlace
  <2>3. FileAt(i) = [name |-> node.name, size |-> node.len, off |-> node.off,
                     loaded |-> node.len = 0, data |-> <<>>]
    BY DEF FileAt
  <2> HIDE DEF node
  <2>4. node.len \in 0..MaxText /\ node.off \in Nat
    BY <2>2 DEF DiskNode
  <2>5. CASE node.len = 0
    <3>1. FileAt(i) = [name |-> node.name, size |-> 0, off |-> node.off, loaded |-> TRUE,
                       data |-> <<>>]
      BY <2>3, <2>5
    <3> QED BY <2>2, <2>4, <3>1, TextsAssumption DEF File, FileOnDisk
  <2>6. CASE node.len # 0
    <3>1. FileAt(i) = [name |-> node.name, size |-> node.len, off |-> node.off,
                       loaded |-> FALSE, data |-> <<>>]
      BY <2>3, <2>6
    <3> QED BY <2>2, <2>4, <3>1, TextsAssumption DEF File, FileOnDisk
  <2> QED BY <2>5, <2>6
<1>6. NodeAt(Dirs - 1).child \in {Dirs, NoLink} /\ NodeAt(Dirs - 1).child < Count
  <2>1. Dirs - 1 \in 0..Count - 1 /\ Dirs - 1 < Dirs /\ (Dirs - 1) + 1 = Dirs
    BY <1>2 DEF Dirs
  <2>2. NodeAt(Dirs - 1).child \in {Dirs, NoLink}
    BY <1>3, <2>1 DEF InPlace
  <2> QED BY <2>1, <2>2 DEF LinksOK
<1>7. MountedDataLba \in Nat
  <2>1. NodesPerSector \in Nat \ {0}
    BY NodesPerSectorAssumption
  <2> QED BY <1>2, <2>1, SectorsReach DEF MountedDataLba, TableSectors
<1> QED BY <1>2, <1>3, <1>4, <1>5, <1>6, <1>7

\* Where the links of the mounted nodes lead
LEMMA ListedFollows ==
  ASSUME DiskOK(disk), disk[0].kind = "super", NodeTypesOK, LinksOK
  PROVE  LET item == [i \in 0..Count - 1 |-> FileAt(i)]
             next == [i \in 0..Count - 1 |-> NodeAt(i).next]
         IN  \E g : Follows(Count, next, item, g) /\ Listed = g[NodeAt(Dirs - 1).child]
<1> DEFINE item == [i \in 0..Count - 1 |-> FileAt(i)]
           next == [i \in 0..Count - 1 |-> NodeAt(i).next]
           Linked(g) == g = [i \in NoLink..Count - 1 |->
                               IF i = NoLink THEN <<>> ELSE <<FileAt(i)>> \o g[NodeAt(i).next]]
           from == CHOOSE g : Linked(g)
<1>1. Count \in Nat /\ \A i \in 0..Count - 1 : next[i] \in {i + 1, NoLink} /\ next[i] < Count
  BY MountedNodes
<1>2. \A g : Follows(Count, next, item, g) <=> Linked(g)
  <2>1. ASSUME NEW i \in NoLink..Count - 1, i # NoLink
        PROVE  item[i] = FileAt(i) /\ next[i] = NodeAt(i).next
    <3>1. i \in 0..Count - 1
      BY <1>1, <2>1 DEF NoLink
    <3> QED BY <3>1
  <2>2. ASSUME NEW g
        PROVE  [i \in NoLink..Count - 1 |-> IF i = NoLink THEN <<>> ELSE <<item[i]>> \o g[next[i]]]
             = [i \in NoLink..Count - 1 |->
                  IF i = NoLink THEN <<>> ELSE <<FileAt(i)>> \o g[NodeAt(i).next]]
    <3> HIDE DEF item, next
    <3> QED BY <2>1
  <2> HIDE DEF item, next
  <2> QED BY <2>2 DEF Follows
<1>3. \E g : Linked(g)
  <2> HIDE DEF next, item, Linked
  <2>1. \E g : Follows(Count, next, item, g)
    BY <1>1, ListsExist
  <2> QED BY <1>2, <2>1
<1>4. Linked(from)
  <2> HIDE DEF Linked
  <2> QED BY <1>3
<1>5. Listed = from[NodeAt(Dirs - 1).child]
  BY DEF Listed
<1>6. Follows(Count, next, item, from)
  <2> HIDE DEF Linked, from, next, item
  <2> QED BY <1>2, <1>4
<1> HIDE DEF from
<1> QED BY <1>5, <1>6

LEMMA ListedIsFiles ==
  ASSUME DiskOK(disk), disk[0].kind = "super", NodeTypesOK, LinksOK
  PROVE  Listed \in Seq(FileOnDisk)
<1> DEFINE item == [i \in 0..Count - 1 |-> FileAt(i)]
           next == [i \in 0..Count - 1 |-> NodeAt(i).next]
           first == NodeAt(Dirs - 1).child
<1>1. PICK g : Follows(Count, next, item, g) /\ Listed = g[first]
  BY ListedFollows
<1>2. Count \in Nat /\ \A i \in 0..Count - 1 : next[i] \in {i + 1, NoLink} /\ next[i] < Count
  BY MountedNodes
<1>3. Dirs \in Nat /\ \A i \in Dirs..Count - 1 : item[i] \in FileOnDisk
  <2>1. \A i \in Dirs..Count - 1 : i \in 0..Count - 1
    BY <1>2 DEF Dirs
  <2> QED BY <2>1, MountedNodes DEF Dirs
<1> HIDE DEF item, next
<1>4. g[NoLink] = <<>> /\ \A i \in Dirs..Count - 1 : g[i] \in Seq(FileOnDisk)
  BY <1>1, <1>2, <1>3, ListsHold
<1>5. first \in {Dirs, NoLink} /\ first < Count
  BY MountedNodes
<1>6. CASE first = NoLink
  <2>1. <<>> \in Seq(FileOnDisk)
    OBVIOUS
  <2> QED BY <1>1, <1>4, <1>6, <2>1
<1>7. CASE first = Dirs
  <2>1. Dirs \in Dirs..Count - 1
    BY <1>2, <1>5, <1>7 DEF Dirs
  <2> QED BY <1>1, <1>4, <1>7, <2>1
<1> QED BY <1>5, <1>6, <1>7

LEMMA EmptyKeeps ==
  ASSUME Inv, NEW status \in {"fresh", "on", "lost"}, Empty(status), dataLba' \in Nat,
         UNCHANGED disk, faults' \in 0..MaxFaults
  PROVE  Inv'
<1>1. Contents(disk', dataLba', files') = <<>> /\ files' \in Seq(File)
  BY DEF Contents, Empty
<1>2. truth' = Contents(disk', dataLba', files')
  BY <1>1 DEF Empty
<1> QED BY <1>1, <1>2 DEF Inv, Empty

LEMMA BootKeeps ==
  ASSUME Inv, Boot
  PROVE  Inv'
<1>1. DiskOK(disk) /\ UNCHANGED disk
  BY DEF Inv, Boot
<1>2. disk[0].kind = "super" => MountedDataLba \in Nat
  <2> SUFFICES ASSUME disk[0].kind = "super" PROVE MountedDataLba \in Nat
    OBVIOUS
  <2>1. SectorOK(0, disk[0])
    BY <1>1, LastLbaAssumption DEF DiskOK
  <2>2. Count \in Nat
    BY <2>1 DEF SectorOK, DiskSector, Count
  <2>3. NodesPerSector \in Nat \ {0}
    BY NodesPerSectorAssumption
  <2> QED BY <2>2, <2>3, SectorsReach DEF MountedDataLba, TableSectors
<1>3. CASE NoSuperblock
  BY <1>1, <1>3, FaultCounts, EmptyKeeps DEF NoSuperblock
<1>4. CASE OtherVersion
  BY <1>1, <1>4, FaultCounts, EmptyKeeps DEF OtherVersion
<1>5. CASE NodeTableUnread
  BY <1>1, <1>2, <1>5, FaultCounts, EmptyKeeps DEF NodeTableUnread
<1>6. CASE BadImage
  BY <1>1, <1>2, <1>6, FaultCounts, EmptyKeeps DEF BadImage
<1>7. CASE LinkAstray
  BY <1>1, <1>2, <1>7, FaultCounts, EmptyKeeps DEF LinkAstray
<1>8. CASE Mounted
  <2>1. Listed \in Seq(FileOnDisk) /\ MountedDataLba \in Nat
    BY <1>1, <1>2, <1>8, ListedIsFiles DEF Mounted
  <2>0. Listed \in Seq(File)
    BY <2>1 DEF FileOnDisk
  <2>2. truth' = Contents(disk, MountedDataLba, Listed)
    <3>1. ASSUME NEW i \in 1..Len(Listed)
          PROVE  Read(Listed[i], MountedDataLba) = LoadedFrom(disk, MountedDataLba, Listed[i]).data
      <4> DEFINE f == Listed[i]
      <4>1. f \in File /\ f.data = <<>>
        BY <2>1 DEF FileOnDisk
      <4>2. Read(f, MountedDataLba) = DataIn(disk, MountedDataLba, f)
        BY LoadedFromDisk
      <4> HIDE DEF f
      <4> SUFFICES DataIn(disk, MountedDataLba, f) = LoadedFrom(disk, MountedDataLba, f).data
        BY <4>2 DEF f
      <4>3. CASE f.loaded
        <5>1. f.size = 0 /\ LoadedFrom(disk, MountedDataLba, f) = f
          BY <4>1, <4>3 DEF File, LoadedFrom
        <5>2. DataIn(disk, MountedDataLba, f) = <<>>
          BY <5>1 DEF DataIn
        <5> QED BY <4>1, <5>1, <5>2
      <4>4. CASE ~f.loaded
        <5>1. LoadedFrom(disk, MountedDataLba, f) =
                [f EXCEPT !.loaded = TRUE, !.data = DataIn(disk, MountedDataLba, f)]
          BY <4>4 DEF LoadedFrom
        <5> QED BY <4>1, <5>1 DEF File
      <4> QED BY <4>3, <4>4
    <3> QED BY <1>8, <2>0, <3>1 DEF Mounted, Contents
  <2> QED BY <1>1, <1>8, <2>0, <2>1, <2>2, FaultCounts DEF Inv, Mounted
<1> QED BY <1>3, <1>4, <1>5, <1>6, <1>7, <1>8 DEF Boot

LEMMA CommandKeeps ==
  ASSUME Inv, power = "on", Command
  PROVE  Inv'
<1>1. /\ dirty \in BOOLEAN /\ TRUE \in BOOLEAN /\ files \in Seq(File)
      /\ truth = Contents(disk, dataLba, files)
  BY DEF Inv
<1>2. ASSUME NEW fs \in Seq(File), NEW t, t = Contents(disk, dataLba, fs),
             NEW d \in BOOLEAN, SaveIfDirty(fs, t, d)
      PROVE  Inv'
  BY <1>2, SaveKeeps, ReturnKeeps, FaultCounts DEF SaveIfDirty
<1>3. ASSUME NEW n \in Names, ShellFab(n) PROVE Inv'
  BY <1>1, <1>2, <1>3, FabbedHolds DEF ShellFab
<1>4. ASSUME NEW n \in Names, ShellBurn(n) PROVE Inv'
  BY <1>1, <1>2, <1>4, IndexHolds, BurntHolds DEF ShellBurn
<1>5. ASSUME NEW n \in Names, AppFab(n) PROVE Inv'
  BY <1>1, <1>5, FabbedHolds, ReturnKeeps, FaultCounts DEF AppFab
<1>6. ASSUME NEW n \in Names, Insp(n) PROVE Inv'
  BY <1>1, <1>6, IndexHolds, InspHolds, ReturnKeeps, FaultCounts DEF Insp
<1>7. ASSUME NEW n \in Names, NEW text \in Texts, ShellCarve(n, text) PROVE Inv'
  BY <1>1, <1>2, <1>7, IndexHolds, CarvedHolds DEF ShellCarve
<1>8. ASSUME NEW n \in Names, NEW text \in Texts, AppCarve(n, text) PROVE Inv'
  BY <1>1, <1>8, IndexHolds, CarvedHolds, ReturnKeeps, FaultCounts DEF AppCarve
<1>9. CASE ShellSync
  BY <1>1, <1>9, SaveKeeps DEF ShellSync
<1>10. CASE Format
  <2>1. <<>> \in Seq(File) /\ Contents(disk, dataLba, <<>>) = <<>>
    BY DEF Contents
  <2> QED BY <1>1, <1>10, <2>1, SaveKeeps DEF Format
<1>11. CASE ShellExit
  <2> DEFINE all == Materialized(files)
             image == Image(all)
  <2>1. all \in Seq(File) /\ Len(image) \in Nat
    BY <1>1, MaterializedHolds, ImageHolds
  <2>2. CASE UNCHANGED <<disk, saved, faults>>
    BY <1>11, <2>2, OffKeeps, FaultCounts DEF ShellExit, Inv
  <2> HIDE DEF all
  <2>3. CASE WholeImage(image, truth)
    <3>1. DiskOK(disk') /\ faults' \in 0..MaxFaults
      BY <2>1, <2>3, WritesKeepDisk, FaultCounts DEF WholeImage
    <3> QED BY <1>11, <3>1, OffKeeps DEF ShellExit
  <2>4. CASE PartOfImage(image)
    <3>1. PICK k \in 0..Len(image) : WritePrefix(image, k)
      BY <2>4 DEF PartOfImage
    <3>2. k \in Nat /\ k <= Len(image)
      BY <2>1
    <3>3. DiskOK(disk') /\ faults' \in 0..MaxFaults
      BY <2>1, <2>4, <3>1, <3>2, WritesKeepDisk, FaultCounts DEF PartOfImage
    <3> QED BY <1>11, <3>3, OffKeeps DEF ShellExit
  <2> QED BY <1>11, <2>2, <2>3, <2>4 DEF ShellExit, all
<1> QED BY <1>3, <1>4, <1>5, <1>6, <1>7, <1>8, <1>9, <1>10, <1>11 DEF Command

LEMMA NextKeeps == Inv /\ [Next /\ UNCHANGED maxNodes]_vars => Inv'
<1> SUFFICES ASSUME Inv, [Next /\ UNCHANGED maxNodes]_vars PROVE Inv'
  OBVIOUS
<1>1. CASE power = "on" /\ Command
  BY <1>1, CommandKeeps
<1>2. CASE Boot
  BY <1>2, BootKeeps
<1>3. CASE SaveFresh
  <2>1. <<>> \in Seq(File) /\ Contents(disk, dataLba, <<>>) = <<>> /\ FALSE \in BOOLEAN
    BY DEF Contents
  <2> QED BY <1>3, <2>1, SaveKeeps DEF SaveFresh
<1>4. CASE PowerCut
  BY <1>4, OffKeeps, FaultCounts DEF PowerCut, Inv
<1>5. CASE UNCHANGED vars
  BY <1>5 DEF vars, Inv
<1> QED BY <1>1, <1>2, <1>3, <1>4, <1>5 DEF Next

LEMMA InitHolds == Init => Inv
<1> SUFFICES ASSUME Init PROVE Inv
  OBVIOUS
<1>1. PICK kind \in FirstDisks :
        disk = [lba \in 0..LastLba |-> Sector(IF lba = 0 THEN kind ELSE "none", 0, <<>>, <<>>)]
  BY DEF Init
<1>2. kind \in {"none", "other"}
  BY FirstDisksAssumption
<1>3. ASSUME NEW lba \in 0..LastLba PROVE SectorOK(lba, disk[lba])
  <2>1. disk[lba] = Sector(IF lba = 0 THEN kind ELSE "none", 0, <<>>, <<>>)
    BY <1>1
  <2> DEFINE sector == disk[lba]
  <2>2. /\ sector.kind \in {"none", "other"} /\ sector.nodes = <<>>
        /\ sector \in DiskSector
    BY <1>2, <2>1 DEF Sector, DiskSector
  <2> HIDE DEF sector
  <2>3. SectorOK(lba, sector)
    BY <2>2, NodesPerSectorAssumption DEF SectorOK
  <2> QED BY <2>3 DEF sector
<1>4. DiskOK(disk)
  <2>1. \A lba \in 0..LastLba : disk[lba] \in DiskSector
    BY <1>3 DEF SectorOK
  <2> QED BY <1>1, <1>3, <2>1 DEF DiskOK
<1>5. files \in Seq(File) /\ truth = Contents(disk, dataLba, files)
  BY DEF Init, Contents
<1>6. faults \in 0..MaxFaults
  <2>1. faults = 0
    BY DEF Init
  <2> QED BY <2>1, MaxFaultsAssumption
<1>8. dataLba \in Nat /\ power = "off"
  BY DEF Init
<1>9. dirty \in BOOLEAN
  BY DEF Init
<1>7. files = <<>>
  BY DEF Init
<1> QED BY <1>4, <1>5, <1>6, <1>7, <1>8, <1>9 DEF Inv

\* Inv holds in every state, after torn images and failed reads too.
THEOREM AlwaysInv == Spec => []Inv
BY InitHolds, NextKeeps, PTL DEF Spec

\* Whatever was read, written, saved, torn or only half saved before, in any order: a file
\* in memory reads as what was last written into it or as what was mounted
\* (load_file_bytes reads from the disk that was mounted, and vfs_save loads every file
\* before it writes the first sector).
THEOREM ReadsReturn == Spec => []ReadsReturnContents
BY AlwaysInv, InvReads, PTL

-----------------------------------------------------------------------------
\* Every image that is written fits on the disk.

LEMMA SectorsGrow ==
  ASSUME NEW m \in Nat, NEW n \in Nat, m <= n, NEW d \in Nat \ {0}
  PROVE  SectorsFor(m, d) <= SectorsFor(n, d)
<1> DEFINE q == SectorsFor(n, d)
<1>1. q \in Nat /\ SectorsFor(m, d) \in Nat /\ q * d \in Nat
  BY SectorsReach, Products
<1>2. ~(q < SectorsFor(n, d))
  BY <1>1
<1>3. ~(q * d < n)
  BY <1>1, <1>2, SectorsReach
<1>4. ~(q * d < m)
  BY <1>1, <1>3
<1> HIDE DEF q
<1>5. ~(q < SectorsFor(m, d))
  BY <1>1, <1>4, SectorsReach
<1> QED BY <1>1, <1>5 DEF q

LEMMA OffsetsAreBounded ==
  ASSUME NEW fs \in Seq(File)
  PROVE  \A k \in 0..Len(fs) : Offset(fs, k + 1) <= k * MaxText
<1> DEFINE Some == {k \in Nat : k <= Len(fs) => Offset(fs, k + 1) <= k * MaxText}
<1>1. MaxText \in Nat /\ Len(fs) \in Nat
  BY TextsAssumption
<1>2. 0 \in Some
  <2>1. Offset(fs, 0 + 1) = 0 /\ 0 * MaxText = 0
    BY <1>1, OffsetsAdd
  <2> QED BY <2>1
<1>3. ASSUME NEW k \in Some PROVE k + 1 \in Some
  <2> SUFFICES ASSUME k + 1 <= Len(fs) PROVE Offset(fs, (k + 1) + 1) <= (k + 1) * MaxText
    BY <1>3
  <2>1. k \in Nat /\ Offset(fs, k + 1) <= k * MaxText /\ k + 1 \in 1..Len(fs)
    BY <1>1
  <2>2. /\ Offset(fs, (k + 1) + 1) = Offset(fs, k + 1) + Len(fs[k + 1].data)
        /\ Len(fs[k + 1].data) \in 0..MaxText
    BY <2>1, OffsetsAdd, FilesOfList
  <2>3. (k + 1) * MaxText = k * MaxText + MaxText /\ k * MaxText \in Nat
    BY <1>1, <2>1
  <2>4. Offset(fs, k + 1) \in Nat
    <3>1. k + 1 \in 1..Len(fs) + 1
      BY <1>1, <2>1
    <3> QED BY <3>1, OffsetsGrow
  <2> QED BY <1>1, <2>1, <2>2, <2>3, <2>4
<1>4. Some = Nat
  <2> HIDE DEF Some
  <2>1. Some \in SUBSET Nat
    BY DEF Some
  <2> QED BY <1>2, <1>3, <2>1, Induction
<1>5. ASSUME NEW k \in 0..Len(fs) PROVE Offset(fs, k + 1) <= k * MaxText
  <2>1. k \in Nat /\ k <= Len(fs)
    BY <1>1
  <2> HIDE DEF Some
  <2>2. k \in Some
    BY <1>4, <2>1
  <2> QED BY <2>1, <2>2 DEF Some
<1> QED BY <1>5

LEMMA ImagesFit ==
  ASSUME NEW fs \in Seq(File), maxNodes \in NodeLimits, ~TooManyNodes(fs)
  PROVE  Len(Image(fs)) \in Nat /\ Len(Image(fs)) <= LastLba + 1
<1> DEFINE n == Len(fs)
           most == maxNodes - Dirs
<1>1. /\ Len(Image(fs)) = 1 + TableSize(fs) + DataSize(fs)
      /\ TableSize(fs) \in Nat /\ DataSize(fs) \in Nat
      /\ NodesPerSector \in Nat \ {0} /\ SectorCells \in Nat \ {0}
      /\ Dirs + n \in Nat \ {0} /\ Len(Blob(fs)) \in Nat
  BY SizesAreNat, ImageHolds
<1>2. /\ n \in Nat /\ maxNodes \in Nat /\ MaxText \in Nat /\ n + Dirs <= maxNodes
      /\ n <= most /\ most \in Nat /\ maxNodes >= Dirs /\ Dirs \in Nat
  BY TextsAssumption, NodeLimitsAssumption DEF TooManyNodes, Dirs
<1>3. TableSize(fs) <= SectorsFor(maxNodes, NodesPerSector)
  <2>1. Dirs + n <= maxNodes
    BY <1>2 DEF Dirs
  <2> HIDE DEF n
  <2>2. SectorsFor(Dirs + n, NodesPerSector) <= SectorsFor(maxNodes, NodesPerSector)
    BY <1>1, <1>2, <2>1, SectorsGrow
  <2> QED BY <2>2 DEF TableSize, n
<1>4. DataSize(fs) <= SectorsFor(most * MaxText, SectorCells)
  <2>1. Len(Blob(fs)) <= n * MaxText
    <3>1. n \in 0..Len(fs)
      BY <1>2
    <3> QED BY <3>1, BlobHolds, OffsetsAreBounded
  <2> HIDE DEF n, most
  <2>2. n * MaxText \in Nat /\ most * MaxText \in Nat /\ n * MaxText <= most * MaxText
    <3>1. CASE MaxText = 0
      BY <1>2, <3>1
    <3>2. CASE MaxText # 0
      <4>1. MaxText \in Nat \ {0}
        BY <1>2, <3>2
      <4> QED BY <1>2, <4>1, Products
    <3> QED BY <3>1, <3>2
  <2>3. Len(Blob(fs)) <= most * MaxText
    BY <1>1, <2>1, <2>2
  <2> QED BY <1>1, <2>2, <2>3, SectorsGrow DEF DataSize
<1>5. SectorsFor(maxNodes, NodesPerSector) + SectorsFor(most * MaxText, SectorCells) <= LastLba
  BY <1>2, LastLbaAssumption
<1>6. /\ SectorsFor(maxNodes, NodesPerSector) \in Nat
      /\ SectorsFor(most * MaxText, SectorCells) \in Nat
  <2>1. most * MaxText \in Nat
    BY <1>2
  <2> QED BY <1>1, <1>2, <2>1, SectorsReach
<1> QED BY <1>1, <1>3, <1>4, <1>5, <1>6, LastLbaAssumption

-----------------------------------------------------------------------------
\* A disk that holds the image of a list of files is mounted as that list.

Holds(d, fs) ==
  /\ Len(Image(fs)) <= LastLba + 1
  /\ \A lba \in 0..Len(Image(fs)) - 1 : d[lba] = Image(fs)[lba + 1]

Plain(fs) == [i \in DOMAIN fs |-> [name |-> fs[i].name, data |-> fs[i].data]]

LEMMA HeldSectors ==
  ASSUME DiskOK(disk), NEW fs \in Seq(File), Holds(disk, fs)
  PROVE  /\ disk[0].kind = "super" /\ Count = Dirs + Len(fs)
         /\ MountedDataLba = 1 + TableSize(fs)
         /\ \A q \in 0..TableSize(fs) - 1 :
              /\ 1 + q \in DOMAIN disk
              /\ disk[1 + q].nodes = Chunk(TableOf(fs), NodesPerSector, q + 1)
         /\ \A q \in 0..DataSize(fs) - 1 :
              /\ 1 + TableSize(fs) + q \in DOMAIN disk
              /\ disk[1 + TableSize(fs) + q].cells = Chunk(Blob(fs), SectorCells, q + 1)
<1> DEFINE t == TableSize(fs)
           d == DataSize(fs)
           image == Image(fs)
<1>1. t \in Nat /\ d \in Nat /\ Len(image) = 1 + t + d
  BY SizesAreNat, ImageHolds
<1>2. \A lba \in 0..t + d : lba \in DOMAIN disk /\ disk[lba] = image[lba + 1]
  BY <1>1, LastLbaAssumption DEF Holds, DiskOK
<1>3. /\ image[1] = Sector("super", Dirs + Len(fs), <<>>, <<>>)
      /\ \A q \in 0..t - 1 :
           image[1 + q + 1] = Sector("nodes", 0, Chunk(TableOf(fs), NodesPerSector, q + 1), <<>>)
      /\ \A q \in 0..d - 1 :
           image[1 + t + q + 1] = Sector("data", 0, <<>>, Chunk(Blob(fs), SectorCells, q + 1))
  BY ImageHolds
<1> HIDE DEF t, d, image
<1>4. disk[0].kind = "super" /\ disk[0].count = Dirs + Len(fs)
  <2>1. 0 \in 0..t + d /\ 0 + 1 = 1
    BY <1>1
  <2>2. disk[0] = image[1]
    BY <1>2, <2>1
  <2> QED BY <1>3, <2>2 DEF Sector
<1>5. ASSUME NEW q \in 0..t - 1
      PROVE  1 + q \in DOMAIN disk /\ disk[1 + q].nodes = Chunk(TableOf(fs), NodesPerSector, q + 1)
  <2>1. 1 + q \in 0..t + d
    BY <1>1
  <2>2. disk[1 + q] = image[1 + q + 1]
    BY <1>2, <2>1
  <2> DEFINE chunk == Chunk(TableOf(fs), NodesPerSector, q + 1)
  <2>3. image[1 + q + 1] = Sector("nodes", 0, chunk, <<>>)
    BY <1>3
  <2> HIDE DEF chunk
  <2>4. Sector("nodes", 0, chunk, <<>>).nodes = chunk
    BY DEF Sector
  <2> QED BY <1>2, <2>1, <2>2, <2>3, <2>4 DEF chunk
<1>6. ASSUME NEW q \in 0..d - 1
      PROVE  /\ 1 + t + q \in DOMAIN disk
             /\ disk[1 + t + q].cells = Chunk(Blob(fs), SectorCells, q + 1)
  <2>1. 1 + t + q \in 0..t + d
    BY <1>1
  <2>2. disk[1 + t + q] = image[1 + t + q + 1]
    BY <1>2, <2>1
  <2> DEFINE chunk == Chunk(Blob(fs), SectorCells, q + 1)
  <2>3. image[1 + t + q + 1] = Sector("data", 0, <<>>, chunk)
    BY <1>3
  <2> HIDE DEF chunk
  <2>4. Sector("data", 0, <<>>, chunk).cells = chunk
    BY DEF Sector
  <2> QED BY <1>2, <2>1, <2>2, <2>3, <2>4 DEF chunk
<1> QED BY <1>4, <1>5, <1>6 DEF t, d, Count, MountedDataLba, TableSectors, TableSize

LEMMA HeldNodes ==
  ASSUME DiskOK(disk), NEW fs \in Seq(File), Holds(disk, fs), NEW i \in 0..Dirs + Len(fs) - 1
  PROVE  NodeAt(i) = TableOf(fs)[i + 1]
<1> DEFINE q == i \div NodesPerSector
           at == 1 + q
           j == (i % NodesPerSector) + 1
           table == IF at \in DOMAIN disk THEN disk[at].nodes ELSE <<>>
           chunk == Chunk(TableOf(fs), NodesPerSector, q + 1)
<1>1. q \in Nat /\ q < TableSize(fs) /\ j \in 1..Len(chunk) /\ chunk[j] = TableOf(fs)[i + 1]
  <2>1. /\ TableOf(fs) \in Seq(DiskNode) /\ NodesPerSector \in Nat \ {0}
        /\ Len(TableOf(fs)) = Dirs + Len(fs) /\ Dirs + Len(fs) \in Nat
    BY TableHolds, SizesAreNat
  <2> DEFINE n == Dirs + Len(fs)
  <2>4. n \in Nat /\ i \in 0..n - 1
    BY <2>1 DEF Dirs
  <2> HIDE DEF n
  <2>2. /\ q \in Nat /\ q < SectorsFor(n, NodesPerSector)
        /\ j \in 1..NodesPerSector /\ q * NodesPerSector + j = i + 1
    BY <2>1, <2>4, Placed
  <2> HIDE DEF q, j
  <2>5. n = Len(TableOf(fs)) /\ TableSize(fs) = SectorsFor(n, NodesPerSector)
    BY <2>1 DEF n, TableSize
  <2>3. /\ Len(chunk) \in Nat
        /\ j <= Len(chunk) <=> q * NodesPerSector + j <= Len(TableOf(fs))
        /\ j <= Len(chunk) => chunk[j] = TableOf(fs)[q * NodesPerSector + j]
    BY <2>1, <2>2, <2>5, ChunkIsPart
  <2> QED BY <2>1, <2>2, <2>3, <2>4, <2>5
<1>2. NodeAt(i) = IF j <= Len(table) THEN table[j] ELSE Node("none", "", NoLink, NoLink, 0, 0)
  BY DEF NodeAt
<1>3. q \in 0..TableSize(fs) - 1
  BY <1>1, SizesAreNat
<1> HIDE DEF q, j
<1>4. at \in DOMAIN disk /\ disk[at].nodes = chunk
  BY <1>3, HeldSectors
<1>5. table = chunk
  BY <1>4
<1> HIDE DEF table, chunk
<1> QED BY <1>1, <1>2, <1>5

LEMMA HeldCells ==
  ASSUME DiskOK(disk), NEW fs \in Seq(File), Holds(disk, fs), NEW p \in 0..Len(Blob(fs)) - 1
  PROVE  CellAt(1 + TableSize(fs), p) = Blob(fs)[p + 1]
<1> DEFINE lba == 1 + TableSize(fs)
           q == p \div SectorCells
           at == lba + q
           i == (p % SectorCells) + 1
           cells == IF at \in DOMAIN disk THEN disk[at].cells ELSE <<>>
           chunk == Chunk(Blob(fs), SectorCells, q + 1)
<1>1. q \in Nat /\ q < DataSize(fs) /\ i \in 1..Len(chunk) /\ chunk[i] = Blob(fs)[p + 1]
  <2>1. Blob(fs) \in Seq(Cells) /\ SectorCells \in Nat \ {0} /\ Len(Blob(fs)) \in Nat
    BY BlobHolds, SizesAreNat
  <2>2. /\ q \in Nat /\ q < SectorsFor(Len(Blob(fs)), SectorCells)
        /\ i \in 1..SectorCells /\ q * SectorCells + i = p + 1
    BY <2>1, Placed
  <2> HIDE DEF q, i
  <2>3. /\ Len(chunk) \in Nat
        /\ i <= Len(chunk) <=> q * SectorCells + i <= Len(Blob(fs))
        /\ i <= Len(chunk) => chunk[i] = Blob(fs)[q * SectorCells + i]
    BY <2>1, <2>2, ChunkIsPart
  <2> QED BY <2>1, <2>2, <2>3 DEF DataSize
<1>2. CellAt(lba, p) = IF i <= Len(cells) THEN cells[i] ELSE Hole
  BY DEF CellAt
<1>3. q \in 0..DataSize(fs) - 1
  BY <1>1, SizesAreNat
<1> HIDE DEF q, i
<1>4. at \in DOMAIN disk /\ disk[at].cells = chunk
  BY <1>3, HeldSectors
<1>5. cells = chunk
  BY <1>4
<1> HIDE DEF cells, chunk
<1> QED BY <1>1, <1>2, <1>5

\* The items from i on
From(n, item, i) == [k \in 1..n - i |-> item[i + k - 1]]

\* Nodes each of which is linked to the next one make the list of them all.
LEMMA ListsAreWhole ==
  ASSUME NEW n \in Nat, NEW item, NEW next, NEW S, NEW first \in Nat,
         \A i \in first..n - 1 : /\ i < n - 1 => next[i] = i + 1
                                 /\ i = n - 1 => next[i] = NoLink,
         \A i \in first..n - 1 : item[i] \in S,
         NEW g, Follows(n, next, item, g)
  PROVE  /\ g[NoLink] = <<>>
         /\ \A i \in first..n - 1 : g[i] = From(n, item, i)
<1> DEFINE All(i) == [k \in 1..n - i |-> item[i + k - 1]]
           Some == {k \in Nat : \A i \in first..n - 1 : i >= n - k => g[i] = All(i)}
<1>1. /\ g[NoLink] = <<>>
      /\ \A i \in first..n - 1 : g[i] = <<item[i]>> \o g[next[i]]
  <2>1. /\ NoLink \in NoLink..n - 1
        /\ \A i \in first..n - 1 : i \in NoLink..n - 1 /\ i # NoLink
    BY DEF NoLink
  <2> QED BY <2>1 DEF Follows
<1>2. ASSUME NEW i \in first..n - 1 PROVE All(i) \in Seq(S) /\ Len(All(i)) = n - i
  <2>1. i \in Nat /\ n - i \in Nat
    OBVIOUS
  <2>2. ASSUME NEW k \in 1..n - i PROVE item[i + k - 1] \in S
    <3>1. i + k - 1 \in first..n - 1
      BY <2>1
    <3> QED BY <3>1
  <2> QED BY <2>1, <2>2
<1>3. 0 \in Some
  OBVIOUS
<1>4. ASSUME NEW k \in Some PROVE k + 1 \in Some
  <2> HIDE DEF All
  <2> SUFFICES ASSUME NEW i \in first..n - 1, i >= n - (k + 1) PROVE g[i] = All(i)
    BY <1>4
  <2>1. k \in Nat /\ i \in Nat /\ i <= n - 1
    BY <1>4
  <2> USE DEF All
  <2>2. g[i] = <<item[i]>> \o g[next[i]] /\ item[i] \in S
    BY <1>1
  <2>3. CASE i = n - 1
    <3>1. next[i] = NoLink
      BY <2>3
    <3>2. g[i] = <<item[i]>> \o <<>>
      BY <1>1, <2>2, <3>1
    <3>3. g[i] = <<item[i]>>
      <4>1. <<item[i]>> \in Seq({item[i]})
        OBVIOUS
      <4> QED BY <3>2, <4>1, ConcatEmptySeq
    <3>4. n - i = 1 /\ i + 1 - 1 = i
      BY <2>1, <2>3
    <3>5. All(i) = [m \in 1..1 |-> item[i]]
      BY <3>4
    <3> QED BY <3>3, <3>5
  <2>4. CASE i # n - 1
    <3>1. next[i] = i + 1 /\ i + 1 \in first..n - 1 /\ i + 1 >= n - k
      BY <2>1, <2>4
    <3>2. g[i + 1] = All(i + 1)
      BY <1>4, <3>1
    <3>3. All(i + 1) \in Seq(S) /\ Len(All(i + 1)) = n - (i + 1)
      BY <1>2, <3>1
    <3>4. ASSUME NEW m \in 1..n - (i + 1) PROVE All(i + 1)[m] = item[i + m]
      BY <2>1
    <3>5. ASSUME NEW m \in 1..n - i PROVE All(i)[m] = item[i + m - 1]
      OBVIOUS
    <3>6. All(i) \in Seq(S) /\ Len(All(i)) = n - i
      BY <1>2
    <3> DEFINE tail == All(i + 1)
               all == All(i)
    <3> HIDE DEF All
    <3>7. /\ tail \in Seq(S) /\ Len(tail) = n - (i + 1)
          /\ \A m \in 1..n - (i + 1) : tail[m] = item[i + m]
          /\ all \in Seq(S) /\ Len(all) = n - i
          /\ \A m \in 1..n - i : all[m] = item[i + m - 1]
      BY <3>3, <3>4, <3>5, <3>6
    <3> HIDE DEF tail, all
    <3>8. /\ <<item[i]>> \o tail \in Seq(S) /\ Len(<<item[i]>> \o tail) = n - i
          /\ (<<item[i]>> \o tail)[1] = item[i]
          /\ \A m \in 1..Len(tail) : (<<item[i]>> \o tail)[m + 1] = tail[m]
      BY <2>1, <2>2, <3>7
    <3>9. ASSUME NEW m \in 1..n - i PROVE (<<item[i]>> \o tail)[m] = all[m]
      <4>1. CASE m = 1
        <5>1. all[1] = item[i]
          BY <2>1, <3>7, <4>1
        <5> QED BY <3>8, <4>1, <5>1
      <4>2. CASE m # 1
        <5>1. m - 1 \in 1..n - (i + 1) /\ (m - 1) + 1 = m /\ i + (m - 1) = i + m - 1
          BY <2>1, <4>2
        <5>2. (<<item[i]>> \o tail)[m] = tail[m - 1]
          BY <3>7, <3>8, <5>1
        <5>3. tail[m - 1] = item[i + m - 1]
          BY <3>7, <5>1
        <5> QED BY <3>7, <5>2, <5>3
      <4> QED BY <4>1, <4>2
    <3>10. <<item[i]>> \o tail = all
      BY <2>1, <3>7, <3>8, <3>9
    <3> QED BY <2>2, <3>1, <3>2, <3>10 DEF tail, all
  <2> QED BY <2>3, <2>4
<1>5. Some = Nat
  <2> HIDE DEF Some
  <2>1. Some \in SUBSET Nat
    BY DEF Some
  <2> QED BY <1>3, <1>4, <2>1, Induction
<1>6. ASSUME NEW i \in first..n - 1 PROVE g[i] = All(i)
  <2>1. i >= n - n
    OBVIOUS
  <2> HIDE DEF Some
  <2>2. n \in Some
    BY <1>5
  <2> HIDE DEF All
  <2> QED BY <2>1, <2>2 DEF Some
<1> QED BY <1>1, <1>6 DEF From

\* The nodes of the files on such a disk
LEMMA HeldFiles ==
  ASSUME DiskOK(disk), NEW fs \in Seq(File), Holds(disk, fs), NEW k \in 1..Len(fs)
  PROVE  NodeAt(Dirs + k - 1) =
           Node("file", fs[k].name, NoLink, IF k < Len(fs) THEN Dirs + k ELSE NoLink,
                IF fs[k].data = <<>> THEN 0 ELSE Offset(fs, k), Len(fs[k].data))
<1> DEFINE i == Dirs + k - 1
<1>1. i \in 0..Dirs + Len(fs) - 1 /\ i + 1 = Dirs + k
  BY DEF Dirs
<1> HIDE DEF i
<1>2. NodeAt(i) = TableOf(fs)[Dirs + k]
  BY <1>1, HeldNodes
<1>3. TableOf(fs)[Dirs + k] = FileNodes(fs)[k]
  BY TableHolds
<1> QED BY <1>2, <1>3 DEF i, FileNodes

LEMMA HeldLinks ==
  ASSUME DiskOK(disk), NEW fs \in Seq(File), Holds(disk, fs)
  PROVE  /\ NodeTypesOK /\ LinksOK
         /\ NodeAt(Dirs - 1).child = IF fs = <<>> THEN NoLink ELSE Dirs
         /\ \A i \in Dirs..Count - 1 : NodeAt(i).next = IF i < Count - 1 THEN i + 1 ELSE NoLink
<1>1. Count = Dirs + Len(fs) /\ Dirs = 3 /\ Len(fs) \in Nat
  BY HeldSectors DEF Dirs
<1>2. ASSUME NEW i \in 0..Count - 1
      PROVE  NodeAt(i) = TableOf(fs)[i + 1] /\ InPlace(i, NodeAt(i))
  <2>1. i \in 0..Dirs + Len(fs) - 1
    BY <1>1
  <2> QED BY <2>1, HeldNodes, TableHolds
<1>3. NodeAt(Dirs - 1).child = IF fs = <<>> THEN NoLink ELSE Dirs
  <2>1. Dirs - 1 \in 0..Count - 1 /\ (Dirs - 1) + 1 = Dirs
    BY <1>1
  <2> QED BY <1>2, <2>1, TableHolds
<1>4. ASSUME NEW i \in Dirs..Count - 1
      PROVE  NodeAt(i).next = IF i < Count - 1 THEN i + 1 ELSE NoLink
  <2> DEFINE k == i - Dirs + 1
  <2>1. /\ k \in 1..Len(fs) /\ Dirs + k - 1 = i /\ Dirs + k = i + 1
        /\ k < Len(fs) <=> i < Count - 1
    BY <1>1
  <2> HIDE DEF k
  <2> DEFINE node == Node("file", fs[k].name, NoLink, IF k < Len(fs) THEN Dirs + k ELSE NoLink,
                          IF fs[k].data = <<>> THEN 0 ELSE Offset(fs, k), Len(fs[k].data))
  <2>2. NodeAt(Dirs + k - 1) = node
    BY <2>1, HeldFiles
  <2>3. node.next = IF k < Len(fs) THEN Dirs + k ELSE NoLink
    BY DEF Node
  <2> HIDE DEF node
  <2> QED BY <2>1, <2>2, <2>3
<1>5. NodeTypesOK
  BY <1>2 DEF NodeTypesOK, InPlace
<1>6. ASSUME NEW i \in 0..Count - 1 PROVE NodeAt(i).next < Count /\ NodeAt(i).child < Count
  <2>1. CASE i < Dirs
    <3>1. NodeAt(i).next = NoLink /\ NodeAt(i).child \in {i + 1, NoLink}
      BY <1>2, <2>1 DEF InPlace
    <3>2. NoLink < Count
      BY <1>1 DEF NoLink
    <3>3. CASE i < Dirs - 1
      BY <1>1, <3>1, <3>2, <3>3
    <3>4. CASE i = Dirs - 1
      <4>1. fs # <<>> => Len(fs) > 0
        BY <1>1
      <4> QED BY <1>1, <1>3, <3>1, <3>2, <3>4, <4>1
    <3> QED BY <1>1, <2>1, <3>3, <3>4
  <2>2. CASE ~(i < Dirs)
    <3>1. i \in Dirs..Count - 1
      BY <1>1, <2>2
    <3>2. NodeAt(i).child = NoLink
      BY <1>2, <2>2 DEF InPlace
    <3>3. NoLink < Count
      BY <1>1 DEF NoLink
    <3> QED BY <1>1, <1>4, <3>1, <3>2, <3>3
  <2> QED BY <2>1, <2>2
<1> QED BY <1>3, <1>4, <1>5, <1>6 DEF LinksOK

LEMMA HeldListed ==
  ASSUME DiskOK(disk), NEW fs \in Seq(File), Holds(disk, fs)
  PROVE  Listed = [k \in 1..Len(fs) |-> FileAt(Dirs + k - 1)]
<1> DEFINE item == [i \in 0..Count - 1 |-> FileAt(i)]
           next == [i \in 0..Count - 1 |-> NodeAt(i).next]
           first == NodeAt(Dirs - 1).child
<1>1. Count = Dirs + Len(fs) /\ Dirs = 3 /\ Len(fs) \in Nat /\ disk[0].kind = "super"
  BY HeldSectors DEF Dirs
<1>2. NodeTypesOK /\ LinksOK
  BY HeldLinks
<1>3. PICK g : Follows(Count, next, item, g) /\ Listed = g[first]
  BY <1>1, <1>2, ListedFollows
<1>4. ASSUME NEW i \in Dirs..Count - 1
      PROVE  next[i] = (IF i < Count - 1 THEN i + 1 ELSE NoLink) /\ item[i] \in FileOnDisk
             /\ item[i] = FileAt(i)
  <2>1. i \in 0..Count - 1
    BY <1>1
  <2> QED BY <1>1, <1>2, <2>1, HeldLinks, MountedNodes
<1>5. first = IF fs = <<>> THEN NoLink ELSE Dirs
  BY HeldLinks
<1> HIDE DEF item, next
<1>6. /\ g[NoLink] = <<>>
      /\ \A i \in Dirs..Count - 1 : g[i] = From(Count, item, i)
  <2>1. Dirs \in Nat /\ Count \in Nat
    BY <1>1
  <2>2. \A i \in Dirs..Count - 1 : /\ i < Count - 1 => next[i] = i + 1
                                   /\ i = Count - 1 => next[i] = NoLink
    BY <1>1, <1>4
  <2>3. \A i \in Dirs..Count - 1 : item[i] \in FileOnDisk
    BY <1>4
  <2>4. Follows(Count, next, item, g)
    BY <1>3
  <2> QED BY <2>1, <2>2, <2>3, <2>4, ListsAreWhole
<1>7. CASE fs = <<>>
  BY <1>3, <1>5, <1>6, <1>7
<1>8. CASE fs # <<>>
  <2>1. Len(fs) # 0
    BY <1>8
  <2>2. Dirs \in Dirs..Count - 1 /\ Count - Dirs = Len(fs)
    BY <1>1, <2>1
  <2>3. Listed = [k \in 1..Len(fs) |-> item[Dirs + k - 1]]
    BY <1>3, <1>5, <1>6, <1>8, <2>2 DEF From
  <2>4. ASSUME NEW k \in 1..Len(fs) PROVE item[Dirs + k - 1] = FileAt(Dirs + k - 1)
    <3>1. Dirs + k - 1 \in Dirs..Count - 1
      BY <1>1
    <3> QED BY <1>4, <3>1
  <2> QED BY <2>3, <2>4
<1> QED BY <1>7, <1>8

LEMMA HeldData ==
  ASSUME DiskOK(disk), NEW fs \in Seq(File), Holds(disk, fs), NEW k \in 1..Len(fs)
  PROVE  /\ FileAt(Dirs + k - 1).name = fs[k].name
         /\ Read(FileAt(Dirs + k - 1), MountedDataLba) = fs[k].data
<1> DEFINE f == FileAt(Dirs + k - 1)
           node == NodeAt(Dirs + k - 1)
           data == fs[k].data
           at == IF data = <<>> THEN 0 ELSE Offset(fs, k)
           table == TableSize(fs)
<1>1. /\ node.name = fs[k].name /\ node.off = at /\ node.len = Len(data)
  <2> DEFINE next == IF k < Len(fs) THEN Dirs + k ELSE NoLink
             name == fs[k].name
             len == Len(data)
  <2>1. node = Node("file", name, NoLink, next, at, len)
    BY HeldFiles
  <2> HIDE DEF node, name, next, at, len
  <2>2. /\ Node("file", name, NoLink, next, at, len).name = name
        /\ Node("file", name, NoLink, next, at, len).off = at
        /\ Node("file", name, NoLink, next, at, len).len = len
    BY DEF Node
  <2> QED BY <2>1, <2>2 DEF name, len
<1>2. f.name = node.name /\ f.size = node.len /\ f.off = node.off
  BY DEF FileAt
<1>3. data \in Seq(Cells) /\ MountedDataLba = 1 + table
  BY FilesOfList, HeldSectors
<1>4. Read(f, MountedDataLba) = [i \in 1..f.size |-> CellAt(MountedDataLba, f.off + i - 1)]
  BY DEF Read
<1>5. ASSUME NEW i \in 1..Len(data) PROVE CellAt(1 + table, at + i - 1) = data[i]
  <2>1. at = Offset(fs, k) /\ at \in Nat
    <3>1. data # <<>>
      BY <1>3, <1>5
    <3>2. k \in 1..Len(fs) + 1
      OBVIOUS
    <3> QED BY <3>1, <3>2, OffsetsGrow
  <2>2. at + i \in 1..Len(Blob(fs)) /\ Blob(fs)[at + i] = data[i] /\ Len(Blob(fs)) \in Nat
    BY <2>1, BlobHolds
  <2> DEFINE p == at + i - 1
  <2>3. p \in 0..Len(Blob(fs)) - 1 /\ p + 1 = at + i
    BY <2>1, <2>2
  <2> HIDE DEF p
  <2>4. CellAt(1 + table, p) = Blob(fs)[p + 1]
    BY <2>3, HeldCells
  <2> QED BY <2>2, <2>3, <2>4 DEF p
<1> HIDE DEF f, node, at, table, data
<1>6. Read(f, MountedDataLba) = [i \in 1..Len(data) |-> data[i]]
  BY <1>1, <1>2, <1>3, <1>4, <1>5
<1>7. [i \in 1..Len(data) |-> data[i]] = data
  BY <1>3
<1> QED BY <1>1, <1>2, <1>6, <1>7 DEF f, node, data

-----------------------------------------------------------------------------
\* A start without a failure, from a disk that holds what was saved

LEMMA MountsHeld ==
  ASSUME DiskOK(disk), NEW fs \in Seq(File), Holds(disk, fs), Boot, faults' = faults,
         faults \in Nat
  PROVE  power' = "on" /\ truth' = Plain(fs)
<1>1. disk[0].kind = "super" /\ NodeTypesOK /\ LinksOK
  BY HeldSectors, HeldLinks
<1>2. ~Fault
  BY DEF Fault
<1>3. Mounted
  BY <1>1, <1>2 DEF Boot, NoSuperblock, OtherVersion, NodeTableUnread, BadImage, LinkAstray
<1>4. Listed = [k \in 1..Len(fs) |-> FileAt(Dirs + k - 1)]
  BY HeldListed
<1>5. truth' = [k \in 1..Len(fs) |->
                  [name |-> Listed[k].name, data |-> Read(Listed[k], MountedDataLba)]]
  BY <1>3, <1>4 DEF Mounted
<1>6. \A k \in 1..Len(fs) : Listed[k] = FileAt(Dirs + k - 1)
  BY <1>4
<1>7. \A k \in 1..Len(fs) : /\ Listed[k].name = fs[k].name
                            /\ Read(Listed[k], MountedDataLba) = fs[k].data
  BY <1>6, HeldData
<1>8. truth' = [k \in 1..Len(fs) |-> [name |-> fs[k].name, data |-> fs[k].data]]
  BY <1>5, <1>7
<1> QED BY <1>3, <1>8 DEF Mounted, Plain

\* What was saved last as a whole is still on the disk.
Kept ==
  saved # Torn => \E fs \in Seq(File) : Holds(disk, fs) /\ saved = Plain(fs)

SavedInv == Inv /\ maxNodes \in NodeLimits /\ Kept

LEMMA PlainContents ==
  ASSUME NEW fs \in Seq(File), AllLoaded(fs), NEW d, NEW lba
  PROVE  Contents(d, lba, fs) = Plain(fs)
<1>1. \A i \in 1..Len(fs) : LoadedFrom(d, lba, fs[i]) = fs[i]
  BY FilesOfList, LoadedStays DEF AllLoaded
<1> QED BY <1>1 DEF Contents, Plain

LEMMA WholeImageKept ==
  ASSUME Inv, maxNodes \in NodeLimits, NEW fs \in Seq(File), ~TooManyNodes(fs), NEW t,
         t = Contents(disk, dataLba, fs), WholeImage(Image(Materialized(fs)), t)
  PROVE  Kept'
<1> DEFINE all == Materialized(fs)
<1>1. /\ all \in Seq(File) /\ AllLoaded(all) /\ Len(all) = Len(fs)
      /\ t = Contents(disk, dataLba, all)
  BY MaterializedHolds
<1>2. t = Plain(all)
  BY <1>1, PlainContents
<1> HIDE DEF all
<1>3. ~TooManyNodes(all)
  BY <1>1 DEF TooManyNodes
<1>4. Len(Image(all)) \in Nat /\ Len(Image(all)) <= LastLba + 1
  BY <1>1, <1>3, ImagesFit
<1>5. saved' = t /\ WritePrefix(Image(all), Len(Image(all)))
  BY DEF WholeImage, all
<1>6. Holds(disk', all)
  <2>1. ASSUME NEW lba \in 0..Len(Image(all)) - 1 PROVE disk'[lba] = Image(all)[lba + 1]
    <3>1. lba \in DOMAIN disk /\ lba < Len(Image(all))
      BY <1>4, LastLbaAssumption DEF Inv, DiskOK
    <3> QED BY <1>5, <3>1 DEF WritePrefix
  <2> QED BY <1>4, <2>1 DEF Holds
<1> QED BY <1>1, <1>2, <1>5, <1>6 DEF Kept

LEMMA PartOfImageKept ==
  ASSUME Inv, Kept, NEW fs \in Seq(File), PartOfImage(Image(fs))
  PROVE  Kept'
<1>1. PICK k \in 0..Len(Image(fs)) :
        WritePrefix(Image(fs), k) /\ saved' = IF k = 0 THEN saved ELSE Torn
  BY DEF PartOfImage
<1>2. CASE k # 0
  BY <1>1, <1>2 DEF Kept
<1>3. CASE k = 0
  <2>1. disk' = disk
    <3>1. disk \in [0..LastLba -> DiskSector]
      BY DEF Inv, DiskOK
    <3>2. \A lba \in 0..LastLba : ~(lba < 0)
      OBVIOUS
    <3> QED BY <1>1, <1>3, <3>1, <3>2 DEF WritePrefix
  <2> QED BY <1>1, <1>3, <2>1 DEF Kept
<1> QED BY <1>2, <1>3

LEMMA SaveKept ==
  ASSUME Inv, maxNodes \in NodeLimits, Kept, NEW fs \in Seq(File), NEW t,
         t = Contents(disk, dataLba, fs), NEW d, Save(fs, t, d)
  PROVE  Kept'
<1> DEFINE all == Materialized(fs)
           image == Image(all)
<1>1. all \in Seq(File)
  BY MaterializedHolds
<1>2. CASE UNCHANGED <<disk, saved>>
  BY <1>2 DEF Kept
<1>3. CASE ~TooManyNodes(fs) /\ WholeImage(image, t)
  BY <1>3, WholeImageKept
<1>4. CASE PartOfImage(image)
  BY <1>1, <1>4, PartOfImageKept
<1> QED BY <1>2, <1>3, <1>4 DEF Save, ReadFails

LEMMA CommandKept ==
  ASSUME SavedInv, power = "on", Command
  PROVE  Kept'
<1>1. /\ files \in Seq(File) /\ truth = Contents(disk, dataLba, files)
      /\ Inv /\ Kept /\ maxNodes \in NodeLimits
  BY DEF Inv, SavedInv
<1>2. ASSUME NEW fs \in Seq(File), NEW t, t = Contents(disk, dataLba, fs), NEW d,
             SaveIfDirty(fs, t, d)
      PROVE  Kept'
  <2>1. CASE UNCHANGED <<disk, saved>>
    BY <1>1, <2>1 DEF Kept
  <2> QED BY <1>1, <1>2, <2>1, SaveKept DEF SaveIfDirty
<1>3. ASSUME NEW n \in Names, ShellFab(n) PROVE Kept'
  BY <1>1, <1>2, <1>3, FabbedHolds DEF ShellFab
<1>4. ASSUME NEW n \in Names, ShellBurn(n) PROVE Kept'
  BY <1>1, <1>2, <1>4, IndexHolds, BurntHolds DEF ShellBurn
<1>5. CASE UNCHANGED <<disk, saved>>
  BY <1>1, <1>5 DEF Kept
<1>6. ASSUME NEW n \in Names, NEW text \in Texts, ShellCarve(n, text) PROVE Kept'
  BY <1>1, <1>2, <1>6, IndexHolds, CarvedHolds DEF ShellCarve
<1>7. CASE ShellSync
  BY <1>1, <1>7, SaveKept DEF ShellSync
<1>8. CASE Format
  <2>1. <<>> \in Seq(File) /\ Contents(disk, dataLba, <<>>) = <<>>
    BY DEF Contents
  <2> QED BY <1>1, <1>8, <2>1, SaveKept DEF Format
<1>9. CASE ShellExit
  <2>1. Materialized(files) \in Seq(File)
    BY <1>1, MaterializedHolds
  <2>2. CASE ~TooManyNodes(files) /\ WholeImage(Image(Materialized(files)), truth)
    BY <1>1, <2>2, WholeImageKept
  <2>3. CASE PartOfImage(Image(Materialized(files)))
    BY <1>1, <2>1, <2>3, PartOfImageKept
  <2> QED BY <1>5, <1>9, <2>2, <2>3 DEF ShellExit
<1> QED BY <1>3, <1>4, <1>5, <1>6, <1>7, <1>8, <1>9 DEF Command, AppFab, AppCarve, Insp

LEMMA NextKept == SavedInv /\ [Next /\ UNCHANGED maxNodes]_vars => SavedInv'
<1> SUFFICES ASSUME SavedInv, [Next /\ UNCHANGED maxNodes]_vars PROVE SavedInv'
  OBVIOUS
<1>1. Inv' /\ maxNodes' \in NodeLimits
  BY NextKeeps DEF SavedInv, vars
<1> SUFFICES Kept'
  BY <1>1 DEF SavedInv
<1>2. CASE power = "on" /\ Command
  BY <1>2, CommandKept
<1>3. CASE UNCHANGED <<disk, saved>>
  BY <1>3 DEF Kept, SavedInv
<1>4. CASE SaveFresh
  <2>1. <<>> \in Seq(File) /\ Contents(disk, dataLba, <<>>) = <<>>
    BY DEF Contents
  <2> QED BY <1>4, <2>1, SaveKept DEF SaveFresh, SavedInv
<1> QED BY <1>2, <1>3, <1>4 DEF Next, Boot, PowerCut, vars

\* SavedInv holds in every state.
THEOREM AlwaysSavedInv == Spec => []SavedInv
<1>1. Init => SavedInv
  BY InitHolds DEF SavedInv, Init, Kept
<1> QED BY <1>1, NextKept, PTL DEF Spec

\* A start in which no read fails brings back the tree of the last save that ended, file
\* by file and cell by cell, whatever failed after it without reaching the disk (what
\* vfs_save writes is what vfs_load reads).
THEOREM RestartsRestore == Spec => RestartRestores
<1> DEFINE Restored ==
             power = "off" /\ saved # Torn /\ faults' = faults => power' = "on" /\ truth' = saved
<1>1. SavedInv /\ [Next /\ UNCHANGED maxNodes]_vars => [Restored]_vars
  <2> SUFFICES ASSUME SavedInv, Next, power = "off", saved # Torn, faults' = faults
               PROVE  power' = "on" /\ truth' = saved
    BY DEF vars
  <2>1. Boot
    BY DEF Next, SaveFresh, PowerCut
  <2>2. PICK fs \in Seq(File) : Holds(disk, fs) /\ saved = Plain(fs)
    BY DEF SavedInv, Kept
  <2>3. DiskOK(disk) /\ faults \in Nat
    BY MaxFaultsAssumption DEF SavedInv, Inv
  <2> QED BY <2>1, <2>2, <2>3, MountsHeld
<1> QED BY <1>1, AlwaysSavedInv, PTL DEF Spec, RestartRestores
=============================================================================
