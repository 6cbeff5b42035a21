-------------------------------- MODULE Heap --------------------------------
(***************************************************************************)
(* The kernel heap (OS/src/mm/heap.c): a doubly linked list of blocks that *)
(* starts at the end of the kernel image and only grows.                   *)
(*                                                                         *)
(* align16 makes every address and size a multiple of 16 and a header is   *)
(* 16 bytes long on the i386, so addresses and sizes count units of 16     *)
(* bytes; requests are in bytes.  kmalloc and kfree contain no yield and   *)
(* are atomic.  The loop of kmalloc walks the list from its head; the list *)
(* is in the order of the addresses (ListLinked, BlocksInOrder), so the    *)
(* first block that fits is the one with the lowest address.               *)
(***************************************************************************)
EXTENDS Integers

CONSTANTS
  Start,      \* the end of the kernel image
  HeapTop,    \* bound on g_brk; the code has none
  Requests    \* sizes asked for, in bytes

ASSUME StartAssumption == Start \in Nat \ {0}
ASSUME HeapTopAssumption == HeapTop \in Nat
ASSUME RequestsAssumption == Requests \subseteq Nat \ {0}

VARIABLES
  blocks,   \* the headers on the list, by their addresses
  head,     \* g_head
  brk,      \* g_brk
  held      \* for each pointer the callers hold, the bytes they asked for

vars == <<blocks, head, brk, held>>

Null == 0
HEADER == 1     \* sizeof(heap_block_t)

Headers == [size : Nat \ {0}, free : BOOLEAN, next : Nat, prev : Nat]

Units(bytes) == (bytes + 15) \div 16   \* align16
Blocks == DOMAIN blocks
Data(b) == b + HEADER                  \* the pointer to a block's data
End(b) == b + HEADER + blocks[b].size

-----------------------------------------------------------------------------
\* As in the other modules, definitions named Bug... are mistakes that the properties
\* must notice, not part of the model.

\* A block is split although nothing but a header would remain.
BugSplitToNothing(b, want) == blocks[b].size < want + HEADER

\* A block that is taken is split if a block of one unit or more remains.
TooSmallToSplit(b, want) == blocks[b].size < want + HEADER + 1

\* The new header is not paid for.
BugRestSize(b, want) == blocks[b].size - want

RestSize(b, want) == blocks[b].size - want - HEADER

SplitBlock(b, want) ==
  LET rest == Data(b) + want
      next == blocks[b].next
  IN  [a \in Blocks \cup {rest} |->
         CASE a = rest -> [size |-> RestSize(b, want), free |-> TRUE,
                           next |-> next, prev |-> b]
           [] a = b    -> [size |-> want, free |-> FALSE,
                           next |-> rest, prev |-> blocks[b].prev]
           [] a = next /\ a # rest /\ a # b -> [blocks[a] EXCEPT !.prev = rest]
           [] OTHER    -> blocks[a]]

\* The header counts as room.
BugFitsHeader(b, want) == blocks[b].free /\ blocks[b].size + HEADER >= want

Fits(b, want) == blocks[b].free /\ blocks[b].size >= want

FirstFit(b, want) ==
  /\ Fits(b, want)
  /\ \A c \in Blocks : Fits(c, want) => b <= c

Hold(p, bytes) ==
  held' = [q \in DOMAIN held \cup {p} |-> IF q = p THEN bytes ELSE held[q]]

\* kmalloc when a free block fits.
MallocReuses(b, bytes) ==
  /\ FirstFit(b, Units(bytes))
  /\ blocks' = IF TooSmallToSplit(b, Units(bytes))
                 THEN [blocks EXCEPT ![b].free = FALSE]
                 ELSE SplitBlock(b, Units(bytes))
  /\ Hold(Data(b), bytes)
  /\ UNCHANGED <<head, brk>>

\* request_block: the new block's header lies at the break.
NewBlock(want, prev) == [size |-> want, free |-> FALSE, next |-> Null, prev |-> prev]

AppendBlock(tail, want) ==
  [a \in Blocks \cup {brk} |->
     CASE a = brk             -> NewBlock(want, tail)
       [] a = tail /\ a # brk -> [blocks[a] EXCEPT !.next = brk]
       [] OTHER               -> blocks[a]]

\* kmalloc when none fits.
MallocGrows(bytes) ==
  LET want == Units(bytes)
  IN  /\ \A b \in Blocks : ~Fits(b, want)
      /\ brk + HEADER + want <= HeapTop
      /\ brk' = brk + HEADER + want
      /\ Hold(Data(brk), bytes)
      /\ \/ /\ head = Null
            /\ head' = brk
            /\ blocks' = [a \in {brk} |-> NewBlock(want, Null)]
         \/ /\ head # Null
            /\ UNCHANGED head
            /\ \E tail \in Blocks :
                 /\ blocks[tail].next = Null
                 /\ blocks' = AppendBlock(tail, want)

\* Block p takes over its neighbour n: one half of coalesce.
Absorb(table, p, n) ==
  [a \in DOMAIN table \ {n} |->
     CASE a = p -> [table[p] EXCEPT !.size = @ + HEADER + table[n].size,
                                    !.next = table[n].next]
       [] a = table[n].next /\ a # p -> [table[a] EXCEPT !.prev = p]
       [] OTHER -> table[a]]

MergeForward(table, b) ==
  LET n == table[b].next
  IN  IF n # Null /\ table[n].free THEN Absorb(table, b, n) ELSE table

\* A freed block is not merged with the free block before it.
BugNoMerge(table, b) == table

MergeBackward(table, b) ==
  LET p == table[b].prev
  IN  IF p # Null /\ table[p].free THEN Absorb(table, p, b) ELSE table

\* kfree of a pointer kmalloc has handed out.
Free(b) ==
  /\ Data(b) \in DOMAIN held
  /\ blocks' = MergeBackward(MergeForward([blocks EXCEPT ![b].free = TRUE], b), b)
  /\ held' = [q \in DOMAIN held \ {Data(b)} |-> held[q]]
  /\ UNCHANGED <<head, brk>>

\* heap_init
Init ==
  /\ blocks = [a \in {} |-> NewBlock(1, Null)]
  /\ head = Null
  /\ brk = Start
  /\ held = [p \in {} |-> 0]

Next ==
  \/ \E bytes \in Requests : \/ \E b \in Blocks : MallocReuses(b, bytes)
                             \/ MallocGrows(bytes)
  \/ \E b \in Blocks : Free(b)

Spec == Init /\ [][Next]_vars

-----------------------------------------------------------------------------
TypeOK ==
  /\ blocks \in [Blocks -> Headers]
  /\ Blocks \subseteq Nat \ {0}
  /\ head \in Nat
  /\ brk \in Nat \ {0}
  /\ held \in [DOMAIN held -> Requests] /\ DOMAIN held \subseteq Nat

\* The blocks follow each other without gap or overlap from the kernel's end to the
\* break, and next and prev are each other's inverse: what kmalloc, split_block and
\* coalesce leave behind is always one walkable list of the whole heap.
ListLinked ==
  /\ head = Null => Blocks = {} /\ brk = Start
  /\ head # Null => head = Start /\ head \in Blocks
  /\ \A b \in Blocks :
       /\ blocks[b].next = Null => End(b) = brk
       /\ blocks[b].next # Null => /\ blocks[b].next = End(b)
                                   /\ blocks[b].next \in Blocks
                                   /\ blocks[End(b)].prev = b
       /\ blocks[b].prev = Null => b = head
       /\ blocks[b].prev # Null => /\ blocks[b].prev \in Blocks
                                   /\ blocks[blocks[b].prev].next = b

BlocksInOrder ==
  \A b \in Blocks :
    /\ Start <= b /\ End(b) <= brk
    /\ \A c \in Blocks : b < c => End(b) <= c

OneList == TypeOK /\ ListLinked /\ BlocksInOrder

\* Merging is complete: two free blocks are never neighbours, so a free extent is
\* found as a whole and freed memory does not stay in pieces.
NoFreeNeighbours ==
  \A b \in Blocks :
    blocks[b].free /\ blocks[b].next # Null => ~blocks[blocks[b].next].free

\* A block is in use exactly while a caller holds its pointer, and has room for what
\* that caller asked for: nothing is leaked by the list, handed out twice or cut short.
HeldInBlocks ==
  /\ \A p \in DOMAIN held : /\ p - HEADER \in Blocks
                            /\ ~blocks[p - HEADER].free
                            /\ Units(held[p]) <= blocks[p - HEADER].size
  /\ \A b \in Blocks : ~blocks[b].free => Data(b) \in DOMAIN held

\* When everything has been freed the heap is one block again: no memory is lost to
\* fragments, whatever the order of the calls was.
FreedHeapIsWhole ==
  held = [p \in {} |-> 0] => \A b \in Blocks : b = Start /\ End(b) = brk

-----------------------------------------------------------------------------
\* The heap is an allocator: extents handed out are disjoint until they are freed.
Alloc == INSTANCE Allocator WITH Addresses <- Start + HEADER .. HeapTop

ImplementsAllocator == Alloc!Spec

=============================================================================
