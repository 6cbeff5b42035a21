----------------------------- MODULE HeapProofs -----------------------------
(***************************************************************************)
(* Proofs about Heap for every kernel end, bound and set of requests.      *)
(*                                                                         *)
(* kmalloc and kfree build their result in several stages, so the parts of *)
(* the invariant are stated for any table of headers first: Whole says     *)
(* that a table is one list from Start to the break, Separate that no two  *)
(* free blocks are neighbours.  Each stage then has a lemma of its own.    *)
(***************************************************************************)
EXTENDS Heap, TLAPS

Span(t, b) == b + HEADER + t[b].size

Typed(t) == t \in [DOMAIN t -> Headers] /\ DOMAIN t \subseteq Nat \ {0}

NextOK(t, top) ==
  \A b \in DOMAIN t :
    /\ t[b].next = Null => Span(t, b) = top
    /\ t[b].next # Null => /\ t[b].next = Span(t, b)
                           /\ t[b].next \in DOMAIN t
                           /\ t[t[b].next].prev = b

PrevOK(t) ==
  \A b \in DOMAIN t :
    /\ t[b].prev = Null => b = Start
    /\ t[b].prev # Null => /\ t[b].prev \in DOMAIN t
                           /\ t[t[b].prev].next = b

Ordered(t, top) ==
  \A b \in DOMAIN t :
    /\ Start <= b /\ Span(t, b) <= top
    /\ \A c \in DOMAIN t : b < c => Span(t, b) <= c

Whole(t, top) ==
  /\ Typed(t) /\ NextOK(t, top) /\ PrevOK(t) /\ Ordered(t, top)
  /\ Start \in DOMAIN t

Separate(t) ==
  \A b \in DOMAIN t : t[b].free /\ t[b].next # Null => ~t[t[b].next].free

Room == head # Null => brk <= HeapTop

Inv ==
  TypeOK /\ ListLinked /\ BlocksInOrder /\ NoFreeNeighbours /\ HeldInBlocks /\ Room

-----------------------------------------------------------------------------
\* The invariant of the state in terms of its table, and back.
LEMMA InvTable ==
  ASSUME Inv, head # Null
  PROVE  Whole(blocks, brk) /\ Separate(blocks) /\ head = Start
<1>1. Typed(blocks) /\ Start \in DOMAIN blocks /\ head = Start
  BY DEF Inv, TypeOK, ListLinked, Blocks, Typed
<1>2. NextOK(blocks, brk)
  BY DEF Inv, ListLinked, NextOK, Span, End, Blocks
<1>3. PrevOK(blocks)
  BY <1>1 DEF Inv, ListLinked, PrevOK, Blocks
<1>4. Ordered(blocks, brk)
  BY DEF Inv, BlocksInOrder, Ordered, Span, End, Blocks
<1>5. Separate(blocks)
  BY DEF Inv, NoFreeNeighbours, Separate, Blocks
<1> QED
  BY <1>1, <1>2, <1>3, <1>4, <1>5 DEF Whole

LEMMA TableInv ==
  ASSUME Whole(blocks', brk'), Separate(blocks'), head' = Start
  PROVE  ListLinked' /\ BlocksInOrder' /\ NoFreeNeighbours'
<1>1. Start # Null
  BY StartAssumption DEF Null
<1>2. ListLinked'
  BY <1>1 DEF Whole, NextOK, PrevOK, ListLinked, Span, End, Blocks
<1>3. BlocksInOrder'
  BY DEF Whole, Ordered, BlocksInOrder, Span, End, Blocks
<1>4. NoFreeNeighbours'
  BY DEF Separate, NoFreeNeighbours, Blocks
<1> QED
  BY <1>2, <1>3, <1>4

\* A header's fields have their types.
LEMMA HeaderTypes ==
  ASSUME NEW t, Typed(t), NEW b \in DOMAIN t
  PROVE  /\ b \in Nat /\ b # Null
         /\ t[b].size \in Nat /\ t[b].size >= 1
         /\ t[b].free \in BOOLEAN /\ t[b].next \in Nat /\ t[b].prev \in Nat
         /\ Span(t, b) \in Nat /\ Span(t, b) > b
<1>1. t[b] \in Headers /\ b \in Nat \ {0}
  BY DEF Typed
<1> QED
  BY <1>1 DEF Headers, Span, HEADER, Null

-----------------------------------------------------------------------------
\* Half of coalesce: a block takes over the block behind it.
LEMMA AbsorbEffect ==
  ASSUME NEW t, NEW top \in Nat, Whole(t, top),
         NEW p \in DOMAIN t, NEW n \in DOMAIN t, t[p].next = n
  PROVE  /\ DOMAIN Absorb(t, p, n) = DOMAIN t \ {n}
         /\ p # n /\ Absorb(t, p, n)[p].free = t[p].free
         /\ Absorb(t, p, n)[p].next = t[n].next
         /\ \A x \in DOMAIN t \ {n, p} :
              /\ Absorb(t, p, n)[x].free = t[x].free
              /\ Absorb(t, p, n)[x].next = t[x].next
              /\ Absorb(t, p, n)[x].size = t[x].size
         /\ Whole(Absorb(t, p, n), top)
<1> DEFINE u == Absorb(t, p, n)
           m == t[n].next
<1>1. Typed(t) /\ NextOK(t, top) /\ PrevOK(t) /\ Ordered(t, top)
  BY DEF Whole
<1>2. DOMAIN u = DOMAIN t \ {n}
  BY DEF Absorb
<1>3. n = Span(t, p) /\ t[n].prev = p /\ p < n /\ n # Null /\ p # n
  BY <1>1, HeaderTypes DEF NextOK
<1>4. u[p] = [t[p] EXCEPT !.size = @ + HEADER + t[n].size, !.next = m]
  BY <1>3 DEF Absorb
<1>5. \A x \in DOMAIN t \ {n, p} :
        u[x] = IF x = m THEN [t[x] EXCEPT !.prev = p] ELSE t[x]
  BY DEF Absorb
<1>6. \A x \in DOMAIN t : t[x] \in Headers
  BY <1>1 DEF Typed
<1>7. /\ u[p].size = t[p].size + HEADER + t[n].size
      /\ u[p].next = m /\ u[p].free = t[p].free /\ u[p].prev = t[p].prev
  BY <1>4, <1>6 DEF Headers
<1>8. \A x \in DOMAIN t \ {n, p} :
        /\ u[x].size = t[x].size /\ u[x].next = t[x].next /\ u[x].free = t[x].free
        /\ u[x].prev = IF x = m THEN p ELSE t[x].prev
  BY <1>5, <1>6 DEF Headers
<1> HIDE DEF u
<1>9. Typed(u)
  <2>1. u[p] \in Headers
    <3>1. t[p].size + HEADER + t[n].size \in Nat \ {0} /\ m \in Nat
      BY <1>1, HeaderTypes DEF HEADER
    <3>2. t[p] \in Headers
      BY <1>6
    <3> HIDE DEF m
    <3> QED
      BY <1>4, <3>1, <3>2 DEF Headers
  <2>2. ASSUME NEW x \in DOMAIN t \ {n, p} PROVE u[x] \in Headers
    <3>1. p \in Nat
      BY <1>1, HeaderTypes
    <3>2. [t[x] EXCEPT !.prev = p] \in Headers
      BY <1>6, <3>1 DEF Headers
    <3> QED
      BY <1>5, <1>6, <3>2
  <2>3. u \in [DOMAIN u -> Headers]
    <3>1. u = [a \in DOMAIN u |-> u[a]]
      BY DEF u, Absorb
    <3> QED
      BY <1>2, <2>1, <2>2, <3>1
  <2> QED
    BY <1>1, <1>2, <2>3 DEF Typed
<1>10. Span(u, p) = Span(t, n) /\ \A x \in DOMAIN t \ {n, p} : Span(u, x) = Span(t, x)
  BY <1>1, <1>3, <1>7, <1>8, HeaderTypes DEF Span, HEADER
<1>11. NextOK(u, top)
  <2>1. /\ m = Null => Span(u, p) = top
        /\ m # Null => m = Span(u, p) /\ m \in DOMAIN u /\ u[m].prev = p
    <3>1. CASE m = Null
      BY <1>1, <1>10, <3>1 DEF NextOK
    <3>2. CASE m # Null
      <4>1. m = Span(t, n) /\ m \in DOMAIN t /\ m > n
        BY <1>1, <3>2, HeaderTypes DEF NextOK
      <4>2. m \in DOMAIN t \ {n, p}
        BY <1>1, <1>3, <4>1, HeaderTypes
      <4> QED
        BY <1>2, <1>8, <1>10, <3>2, <4>1, <4>2
    <3> QED
      BY <3>1, <3>2
  <2>2. ASSUME NEW b \in DOMAIN t \ {n, p}
        PROVE  /\ u[b].next = Null => Span(u, b) = top
               /\ u[b].next # Null => /\ u[b].next = Span(u, b)
                                      /\ u[b].next \in DOMAIN u
                                      /\ u[u[b].next].prev = b
    <3> DEFINE k == t[b].next
    <3>1. CASE k = Null
      BY <1>1, <1>8, <1>10, <3>1 DEF NextOK
    <3>2. CASE k # Null
      <4>1. k = Span(t, b) /\ k \in DOMAIN t /\ t[k].prev = b
        BY <1>1, <3>2 DEF NextOK
      <4>2. k # n
        BY <1>3, <4>1
      <4>3. k # m
        <5>1. m # Null => t[m].prev = n
          BY <1>1 DEF NextOK
        <5> QED
          BY <3>2, <4>1, <5>1
      <4>4. u[k].prev = b
        BY <1>7, <1>8, <4>1, <4>2, <4>3
      <4>5. u[b].next = k /\ k \in DOMAIN u /\ Span(u, b) = Span(t, b)
        BY <1>2, <1>8, <1>10, <4>1, <4>2
      <4> HIDE DEF k
      <4> QED
        BY <3>2, <4>1, <4>4, <4>5
    <3> QED
      BY <3>1, <3>2
  <2> QED
    BY <1>2, <1>7, <2>1, <2>2 DEF NextOK
<1>12. PrevOK(u)
  <2>1. /\ u[p].prev = Null => p = Start
        /\ u[p].prev # Null => u[p].prev \in DOMAIN u /\ u[u[p].prev].next = p
    <3> DEFINE q == t[p].prev
    <3>1. CASE q = Null
      BY <1>1, <1>7, <3>1 DEF PrevOK
    <3>2. CASE q # Null
      <4>1. q \in DOMAIN t /\ t[q].next = p
        BY <1>1, <3>2 DEF PrevOK
      <4>2. p = Span(t, q) /\ q < p
        BY <1>1, <4>1, HeaderTypes DEF NextOK
      <4>3. q # n /\ q # p
        BY <1>1, <1>3, <4>2, HeaderTypes
      <4>4. u[p].prev = q /\ q \in DOMAIN u /\ u[q].next = p
        BY <1>2, <1>7, <1>8, <4>1, <4>3
      <4> HIDE DEF q
      <4> QED
        BY <3>2, <4>4
    <3> QED
      BY <3>1, <3>2
  <2>2. ASSUME NEW b \in DOMAIN t \ {n, p}
        PROVE  /\ u[b].prev = Null => b = Start
               /\ u[b].prev # Null => u[b].prev \in DOMAIN u /\ u[u[b].prev].next = b
    <3>1. CASE b = m
      BY <1>1, <1>2, <1>3, <1>7, <1>8, <3>1, HeaderTypes
    <3>2. CASE b # m /\ t[b].prev = Null
      BY <1>1, <1>8, <3>2 DEF PrevOK
    <3>3. CASE b # m /\ t[b].prev # Null
      <4> DEFINE q == t[b].prev
      <4>1. q \in DOMAIN t /\ t[q].next = b
        BY <1>1, <3>3 DEF PrevOK
      <4>2. q # n /\ q # p
        BY <3>3, <4>1
      <4> QED
        BY <1>2, <1>8, <3>3, <4>1, <4>2
    <3> QED
      BY <3>1, <3>2, <3>3
  <2> QED
    BY <1>2, <2>1, <2>2 DEF PrevOK
<1>13. Ordered(u, top)
  <2>1. /\ Start <= p /\ Span(u, p) <= top
        /\ \A c \in DOMAIN u : p < c => Span(u, p) <= c
    <3>1. Start <= p /\ Span(u, p) <= top
      BY <1>1, <1>10 DEF Ordered
    <3>2. ASSUME NEW c \in DOMAIN u, p < c PROVE Span(u, p) <= c
      <4>1. c \in DOMAIN t /\ c # n
        BY <1>2
      <4>2. n <= c
        BY <1>1, <1>3, <3>2, <4>1 DEF Ordered
      <4>3. n < c
        BY <1>1, <4>1, <4>2, HeaderTypes
      <4> QED
        BY <1>1, <1>10, <4>1, <4>3 DEF Ordered
    <3> QED
      BY <3>1, <3>2
  <2>2. ASSUME NEW b \in DOMAIN t \ {n, p}
        PROVE  /\ Start <= b /\ Span(u, b) <= top
               /\ \A c \in DOMAIN u : b < c => Span(u, b) <= c
    BY <1>1, <1>2, <1>10 DEF Ordered
  <2> QED
    BY <1>2, <2>1, <2>2 DEF Ordered
<1>14. Start \in DOMAIN u
  <2>1. Start \in DOMAIN t /\ Start <= p
    BY <1>1 DEF Whole, Ordered
  <2>2. Start # n
    BY <1>1, <1>3, <2>1, HeaderTypes, StartAssumption
  <2> QED
    BY <1>2, <2>1, <2>2
<1>15. Whole(u, top)
  BY <1>9, <1>11, <1>12, <1>13, <1>14 DEF Whole
<1> QED
  BY <1>2, <1>3, <1>7, <1>8, <1>15 DEF u

\* Changing the flags of a table leaves it one list.
LEMMA FlagsOnly ==
  ASSUME NEW t, NEW top, Whole(t, top), NEW r, Typed(r), DOMAIN r = DOMAIN t,
         \A x \in DOMAIN t : /\ r[x].size = t[x].size /\ r[x].next = t[x].next
                             /\ r[x].prev = t[x].prev
  PROVE  Whole(r, top)
<1>1. Typed(t) /\ NextOK(t, top) /\ PrevOK(t) /\ Ordered(t, top) /\ Start \in DOMAIN t
  BY DEF Whole
<1>2. \A x \in DOMAIN t : Span(r, x) = Span(t, x)
  BY DEF Span
<1>3. NextOK(r, top)
  <2>1. \A x \in DOMAIN r : r[x].next = Null => Span(r, x) = top
    BY <1>1, <1>2 DEF NextOK
  <2>2. ASSUME NEW x \in DOMAIN r, r[x].next # Null
        PROVE  /\ r[x].next = Span(r, x)
               /\ r[x].next \in DOMAIN r
               /\ r[r[x].next].prev = x
    <3>1. /\ t[x].next = Span(t, x) /\ t[x].next \in DOMAIN t
          /\ t[t[x].next].prev = x
      BY <1>1, <2>2 DEF NextOK
    <3> QED
      BY <1>2, <3>1
  <2> QED
    BY <2>1, <2>2 DEF NextOK
<1>4. PrevOK(r)
  BY <1>1 DEF PrevOK
<1>5. Ordered(r, top)
  BY <1>1, <1>2 DEF Ordered
<1> QED
  BY <1>1, <1>3, <1>4, <1>5 DEF Whole

-----------------------------------------------------------------------------
\* kfree: the freed block and what it is merged with.
LEMMA FreeEffect ==
  ASSUME NEW t, NEW top \in Nat, Whole(t, top), Separate(t),
         NEW b \in DOMAIN t, ~t[b].free
  PROVE  LET r == MergeBackward(MergeForward([t EXCEPT ![b].free = TRUE], b), b)
         IN  /\ Whole(r, top) /\ Separate(r) /\ DOMAIN r \subseteq DOMAIN t
             /\ \A x \in DOMAIN t : x # b /\ ~t[x].free =>
                  x \in DOMAIN r /\ ~r[x].free /\ r[x].size = t[x].size
             /\ \A x \in DOMAIN r : ~r[x].free => x # b /\ ~t[x].free
<1> DEFINE f == [t EXCEPT ![b].free = TRUE]
           r == MergeBackward(MergeForward([t EXCEPT ![b].free = TRUE], b), b)
           g == MergeForward(f, b)
<1>1. Typed(t) /\ NextOK(t, top) /\ PrevOK(t) /\ Ordered(t, top) /\ Start \in DOMAIN t
  BY DEF Whole
<1>2. /\ DOMAIN f = DOMAIN t /\ f[b].free
      /\ \A x \in DOMAIN t : /\ f[x].size = t[x].size /\ f[x].next = t[x].next
                             /\ f[x].prev = t[x].prev /\ f[x] \in Headers
      /\ \A x \in DOMAIN t \ {b} : f[x] = t[x]
  BY <1>1 DEF Typed, Headers
<1> SUFFICES /\ Whole(r, top) /\ Separate(r) /\ DOMAIN r \subseteq DOMAIN t
             /\ \A x \in DOMAIN t : x # b /\ ~t[x].free =>
                  x \in DOMAIN r /\ ~r[x].free /\ r[x].size = t[x].size
             /\ \A x \in DOMAIN r : ~r[x].free => x # b /\ ~t[x].free
  OBVIOUS
<1> HIDE DEF f, g, r
<1>3. Whole(f, top)
  <2>1. Typed(f)
    BY <1>1, <1>2 DEF Typed, f
  <2> QED
    BY <1>2, <2>1, FlagsOnly
\* after the forward merge
<1>4. /\ Whole(g, top) /\ b \in DOMAIN g /\ g[b].free
      /\ DOMAIN g \subseteq DOMAIN t
      /\ \A x \in DOMAIN g \ {b} : g[x].free = t[x].free /\ g[x].next = t[x].next
                                  /\ g[x].size = t[x].size
      /\ \A x \in DOMAIN t : ~t[x].free => x \in DOMAIN g
      /\ g[b].next # Null => ~g[g[b].next].free
  <2> DEFINE n == f[b].next
  <2>1. CASE n # Null /\ f[n].free
    <3>1. n \in DOMAIN t /\ n # b /\ t[n].free /\ t[b].next = n
      BY <1>1, <1>2, <2>1, HeaderTypes DEF NextOK
    <3>2. g = Absorb(f, b, n)
      BY <2>1 DEF MergeForward, g
    <3>3. /\ DOMAIN g = DOMAIN t \ {n} /\ g[b].free /\ g[b].next = f[n].next
          /\ \A x \in DOMAIN t \ {n, b} : /\ g[x].free = f[x].free
                                          /\ g[x].next = f[x].next
                                          /\ g[x].size = f[x].size
          /\ Whole(g, top)
      <4> HIDE DEF n
      <4>1. f[b].next = n /\ n \in DOMAIN f /\ b \in DOMAIN f
        BY <1>2, <3>1 DEF n
      <4>2. /\ DOMAIN Absorb(f, b, n) = DOMAIN f \ {n}
            /\ Absorb(f, b, n)[b].free = f[b].free
            /\ Absorb(f, b, n)[b].next = f[n].next
            /\ \A x \in DOMAIN f \ {n, b} :
                 /\ Absorb(f, b, n)[x].free = f[x].free
                 /\ Absorb(f, b, n)[x].next = f[x].next
                 /\ Absorb(f, b, n)[x].size = f[x].size
            /\ Whole(Absorb(f, b, n), top)
        BY <1>3, <4>1, AbsorbEffect, SMTT(30)
      <4> QED
        BY <1>2, <3>2, <4>2
    <3> DEFINE m == t[n].next
    <3>4. g[b].next = m
      BY <1>2, <3>1, <3>3
    <3>5. m # Null => m \in DOMAIN t /\ ~t[m].free /\ m # n /\ m # b
      BY <1>1, <3>1, HeaderTypes DEF NextOK, Separate
    <3>6. m # Null => ~g[m].free
      BY <1>2, <3>3, <3>5
    <3> HIDE DEF g, n, m
    <3> QED
      BY <1>2, <3>1, <3>3, <3>4, <3>6
  <2>2. CASE ~(n # Null /\ f[n].free)
    <3>1. g = f
      BY <2>2 DEF MergeForward, g
    <3> QED
      BY <1>2, <1>3, <2>2, <3>1
  <2> QED
    BY <2>1, <2>2
<1>5. r = MergeBackward(g, b)
  BY DEF f, g, r
<1>6. Typed(g) /\ NextOK(g, top) /\ PrevOK(g)
  BY <1>4 DEF Whole
<1>7. \A x \in DOMAIN g : x # b /\ g[x].free /\ g[x].next # Null /\ g[x].next # b
        => ~g[g[x].next].free
  <2> SUFFICES ASSUME NEW x \in DOMAIN g, x # b, g[x].free, g[x].next # Null, g[x].next # b
               PROVE  ~g[g[x].next].free
    OBVIOUS
  <2> DEFINE k == g[x].next
  <2>1. k \in DOMAIN g /\ k # b
    BY <1>6 DEF NextOK
  <2>2. x \in DOMAIN t /\ t[x].free /\ t[x].next = k
    BY <1>4
  <2>3. ~t[k].free
    BY <2>2 DEF Separate
  <2> QED
    BY <1>4, <2>1, <2>3
<1> DEFINE p == g[b].prev
<1>8. CASE p # Null /\ g[p].free
  <2>1. p \in DOMAIN g /\ g[p].next = b
    BY <1>4, <1>6, <1>8 DEF PrevOK
  <2>2. r = Absorb(g, p, b)
    BY <1>5, <1>8 DEF MergeBackward
  <2> HIDE DEF p
  <2>3. /\ DOMAIN r = DOMAIN g \ {b} /\ r[p].free = g[p].free /\ r[p].next = g[b].next
        /\ p # b
        /\ \A x \in DOMAIN g \ {b, p} : /\ r[x].free = g[x].free
                                        /\ r[x].next = g[x].next
                                        /\ r[x].size = g[x].size
        /\ Whole(r, top)
    <3>1. Whole(g, top) /\ b \in DOMAIN g
      BY <1>4
    <3>2. /\ DOMAIN Absorb(g, p, b) = DOMAIN g \ {b}
          /\ p # b /\ Absorb(g, p, b)[p].free = g[p].free
          /\ Absorb(g, p, b)[p].next = g[b].next
          /\ \A x \in DOMAIN g \ {b, p} :
               /\ Absorb(g, p, b)[x].free = g[x].free
               /\ Absorb(g, p, b)[x].next = g[x].next
               /\ Absorb(g, p, b)[x].size = g[x].size
          /\ Whole(Absorb(g, p, b), top)
      BY <2>1, <3>1, AbsorbEffect
    <3> QED
      BY <2>2, <3>2
  <2>4. Separate(r)
    <3>1. r[p].next # Null => ~r[r[p].next].free
      <4> DEFINE m == g[b].next
      <4>1. m # Null => m \in DOMAIN g /\ ~g[m].free /\ g[m].prev = b
        BY <1>4, <1>6 DEF NextOK
      <4>2. m # Null => m # b /\ m # p
        BY <1>4, <1>8, <4>1
      <4>3. m # Null => ~r[m].free
        BY <2>3, <4>1, <4>2
      <4> HIDE DEF m
      <4>4. r[p].next = m
        BY <2>3 DEF m
      <4> QED
        BY <4>3, <4>4
    <3>2. ASSUME NEW x \in DOMAIN r, x # p, r[x].free, r[x].next # Null
          PROVE  ~r[r[x].next].free
      <4> DEFINE k == g[x].next
      <4>1. x \in DOMAIN g /\ x # b /\ g[x].free /\ r[x].next = k /\ k # Null
        BY <2>3, <3>2
      <4>2. k \in DOMAIN g /\ g[k].prev = x
        BY <1>6, <4>1 DEF NextOK
      <4>3. k # b
        BY <3>2, <4>2 DEF p
      <4>4. ~g[k].free
        BY <1>7, <4>1, <4>3
      <4>5. k # p
        BY <1>8, <4>4
      <4> QED
        BY <2>3, <4>1, <4>2, <4>3, <4>4, <4>5
    <3>3. \A x \in DOMAIN r : r[x].free /\ r[x].next # Null => ~r[r[x].next].free
      BY <3>1, <3>2
    <3> QED
      BY <3>3 DEF Separate
  <2>5. \A x \in DOMAIN t : x # b /\ ~t[x].free =>
              x \in DOMAIN r /\ ~r[x].free /\ r[x].size = t[x].size
    <3> SUFFICES ASSUME NEW x \in DOMAIN t, x # b, ~t[x].free
                 PROVE  x \in DOMAIN r /\ ~r[x].free /\ r[x].size = t[x].size
      OBVIOUS
    <3>1. x \in DOMAIN g /\ ~g[x].free /\ g[x].size = t[x].size
      BY <1>4
    <3>2. x # p
      BY <1>8, <3>1
    <3> QED
      BY <2>3, <3>1, <3>2
  <2>6. \A x \in DOMAIN r : ~r[x].free => x # b /\ ~t[x].free
    BY <1>4, <1>8, <2>1, <2>3
  <2> QED
    BY <1>4, <2>3, <2>4, <2>5, <2>6
<1>9. CASE ~(p # Null /\ g[p].free)
  <2>1. r = g
    BY <1>5, <1>9 DEF MergeBackward
  <2>2. Separate(g)
    <3>1. ASSUME NEW x \in DOMAIN g, g[x].free, g[x].next = b PROVE FALSE
      <4>1. g[b].prev = x
        BY <1>4, <1>6, <3>1, HeaderTypes DEF NextOK
      <4>2. x # Null
        BY <1>6, HeaderTypes
      <4> QED
        BY <1>9, <3>1, <4>1, <4>2
    <3> QED
      BY <1>4, <1>7, <3>1 DEF Separate
  <2> QED
    BY <1>4, <2>1, <2>2
<1> QED
  BY <1>8, <1>9

-----------------------------------------------------------------------------
\* kmalloc takes a block as it is.
LEMMA TakeEffect ==
  ASSUME NEW t, NEW top \in Nat, Whole(t, top), Separate(t), NEW b \in DOMAIN t,
         NEW r, r = [t EXCEPT ![b].free = FALSE]
  PROVE  /\ Whole(r, top) /\ Separate(r) /\ DOMAIN r = DOMAIN t
         /\ ~r[b].free /\ r[b].size = t[b].size
         /\ \A x \in DOMAIN t \ {b} : r[x] = t[x]
<1>1. Typed(t) /\ NextOK(t, top) /\ PrevOK(t) /\ Ordered(t, top) /\ Start \in DOMAIN t
  BY DEF Whole
<1>2. /\ DOMAIN r = DOMAIN t /\ r \in [DOMAIN t -> Headers]
      /\ \A x \in DOMAIN t : /\ r[x].size = t[x].size /\ r[x].next = t[x].next
                             /\ r[x].prev = t[x].prev
      /\ \A x \in DOMAIN t \ {b} : r[x] = t[x]
      /\ ~r[b].free
  BY <1>1 DEF Typed, Headers
<1>3. Typed(r)
  BY <1>1, <1>2 DEF Typed
<1>4. Whole(r, top)
  BY <1>2, <1>3, FlagsOnly
<1>8. Separate(r)
  <2>1. ASSUME NEW x \in DOMAIN r, r[x].free, r[x].next # Null
        PROVE  ~r[r[x].next].free
    <3>1. x # b /\ t[x].free /\ t[x].next = r[x].next /\ t[x].next # Null
      BY <1>2, <2>1
    <3>2. ~t[t[x].next].free /\ t[x].next \in DOMAIN t
      BY <1>1, <1>2, <3>1 DEF Separate, NextOK
    <3> QED
      BY <1>2, <3>1, <3>2
  <2> QED
    BY <2>1 DEF Separate
<1> QED
  BY <1>2, <1>4, <1>8

\* kmalloc splits the block it takes.
LEMMA SplitEffect ==
  ASSUME NEW b \in Blocks, NEW want \in Nat, want >= 1, brk \in Nat,
         Whole(blocks, brk), Separate(blocks), blocks[b].free, ~TooSmallToSplit(b, want)
  PROVE  LET r == SplitBlock(b, want)
         IN  /\ Whole(r, brk) /\ Separate(r)
             /\ Blocks \subseteq DOMAIN r /\ ~r[b].free /\ r[b].size = want
             /\ \A x \in DOMAIN r : x # b /\ ~r[x].free =>
                  x \in Blocks /\ ~blocks[x].free
             /\ \A x \in Blocks \ {b} : /\ r[x].free = blocks[x].free
                                        /\ r[x].size = blocks[x].size
<1> DEFINE t == blocks
           r == SplitBlock(b, want)
           rest == b + HEADER + want
           m == t[b].next
<1>1. /\ Typed(t) /\ NextOK(t, brk) /\ PrevOK(t) /\ Ordered(t, brk)
      /\ Start \in DOMAIN t /\ DOMAIN t = Blocks
  BY DEF Whole, Blocks
<1>2. /\ b \in Nat /\ t[b].size \in Nat /\ t[b].size >= want + 2 /\ m \in Nat
      /\ t[b].prev \in Nat
  BY <1>1, HeaderTypes DEF TooSmallToSplit, HEADER
<1>3. /\ rest \in Nat /\ rest > b /\ rest # Null /\ Span(t, b) > rest
      /\ RestSize(b, want) \in Nat \ {0}
      /\ rest + HEADER + RestSize(b, want) = Span(t, b)
  BY <1>2 DEF HEADER, RestSize, Span, Null
<1>4. rest \notin DOMAIN t
  BY <1>1, <1>2, <1>3, HeaderTypes DEF Ordered
<1>5. m # Null => m = Span(t, b) /\ m \in DOMAIN t /\ m # b /\ m # rest /\ t[m].prev = b
  BY <1>1, <1>2, <1>3 DEF NextOK
<1>6. DOMAIN r = DOMAIN t \cup {rest}
  BY DEF SplitBlock, Data, Blocks
<1>7. r[rest] = [size |-> RestSize(b, want), free |-> TRUE, next |-> m, prev |-> b]
  BY <1>2, <1>3 DEF SplitBlock, Data
<1>8. r[b] = [size |-> want, free |-> FALSE, next |-> rest, prev |-> t[b].prev]
  BY <1>1, <1>2, <1>3 DEF SplitBlock, Data
<1>9. \A x \in DOMAIN t \ {b} :
        r[x] = IF x = m THEN [t[x] EXCEPT !.prev = rest] ELSE t[x]
  BY <1>1, <1>4 DEF SplitBlock, Data, Blocks
<1>10. \A x \in DOMAIN t : t[x] \in Headers
  BY <1>1 DEF Typed
<1>11. r = [a \in DOMAIN r |-> r[a]]
  BY DEF SplitBlock
<1> HIDE DEF r
<1>12. \A x \in DOMAIN t \ {b} :
         /\ r[x].size = t[x].size /\ r[x].next = t[x].next /\ r[x].free = t[x].free
         /\ r[x].prev = IF x = m THEN rest ELSE t[x].prev
  <2> HIDE DEF m, rest
  <2> QED
    BY <1>9, <1>10 DEF Headers
<1>13. Typed(r)
  <2>1. r[rest] \in Headers
    BY <1>2, <1>3, <1>7 DEF Headers
  <2>2. r[b] \in Headers
    BY <1>2, <1>3, <1>8 DEF Headers
  <2>3. ASSUME NEW x \in DOMAIN t \ {b} PROVE r[x] \in Headers
    <3> HIDE DEF rest, m
    <3>1. [t[x] EXCEPT !.prev = rest] \in Headers
      BY <1>3, <1>10 DEF Headers
    <3> QED
      BY <1>9, <1>10, <3>1
  <2>4. r \in [DOMAIN r -> Headers]
    BY <1>6, <1>11, <2>1, <2>2, <2>3
  <2> QED
    BY <1>1, <1>3, <1>6, <2>4 DEF Typed, Null
<1>14. /\ Span(r, b) = rest /\ Span(r, rest) = Span(t, b)
       /\ \A x \in DOMAIN t \ {b} : Span(r, x) = Span(t, x)
  BY <1>3, <1>7, <1>8, <1>12 DEF Span
<1> HIDE DEF rest
<1>15. NextOK(r, brk)
  <2>1. r[b].next = rest /\ rest # Null /\ Span(r, b) = rest /\ r[rest].prev = b
    BY <1>3, <1>7, <1>8, <1>14
  <2>2. /\ r[rest].next = Null => Span(r, rest) = brk
        /\ r[rest].next # Null => /\ r[rest].next = Span(r, rest)
                                  /\ r[rest].next \in DOMAIN r
                                  /\ r[r[rest].next].prev = rest
    <3>1. r[rest].next = m
      BY <1>7
    <3>2. m = Null => Span(t, b) = brk
      BY <1>1 DEF NextOK
    <3>3. m # Null => r[m].prev = rest
      BY <1>5, <1>12
    <3> QED
      BY <1>5, <1>6, <1>14, <3>1, <3>2, <3>3
  <2>3. ASSUME NEW x \in DOMAIN t \ {b}
        PROVE  /\ r[x].next = Null => Span(r, x) = brk
               /\ r[x].next # Null => /\ r[x].next = Span(r, x)
                                      /\ r[x].next \in DOMAIN r
                                      /\ r[r[x].next].prev = x
    <3> DEFINE k == t[x].next
    <3>1. r[x].next = k /\ Span(r, x) = Span(t, x)
      BY <1>12, <1>14
    <3>2. CASE k = Null
      BY <1>1, <3>1, <3>2 DEF NextOK
    <3>3. CASE k # Null
      <4>1. k = Span(t, x) /\ k \in DOMAIN t /\ t[k].prev = x
        BY <1>1, <3>3 DEF NextOK
      <4>2. k # m
        BY <1>5, <3>3, <4>1
      <4>3. r[k].prev = x
        BY <1>8, <1>12, <4>1, <4>2
      <4> HIDE DEF k
      <4> QED
        BY <1>6, <3>1, <3>3, <4>1, <4>3
    <3> QED
      BY <3>2, <3>3
  <2> QED
    BY <1>6, <2>1, <2>2, <2>3 DEF NextOK
<1>16. PrevOK(r)
  <2>1. /\ r[b].prev = Null => b = Start
        /\ r[b].prev # Null => r[b].prev \in DOMAIN r /\ r[r[b].prev].next = b
    <3> DEFINE q == t[b].prev
    <3>1. r[b].prev = q /\ (q = Null => b = Start)
      BY <1>1, <1>8 DEF PrevOK
    <3>2. q # Null => q \in DOMAIN t /\ t[q].next = b
      BY <1>1 DEF PrevOK
    <3>3. q # Null => q # b
      BY <1>5, <3>2, <1>3, <1>1, HeaderTypes DEF NextOK
    <3>4. q # Null => q \in DOMAIN r /\ r[q].next = b
      BY <1>6, <1>12, <3>2, <3>3
    <3> HIDE DEF q
    <3> QED
      BY <3>1, <3>4
  <2>2. r[rest].prev = b /\ b \in DOMAIN r /\ r[b].next = rest /\ b # Null
    BY <1>1, <1>6, <1>7, <1>8, HeaderTypes
  <2>3. ASSUME NEW x \in DOMAIN t \ {b}
        PROVE  /\ r[x].prev = Null => x = Start
               /\ r[x].prev # Null => r[x].prev \in DOMAIN r /\ r[r[x].prev].next = x
    <3>1. CASE x = m
      BY <1>3, <1>6, <1>7, <1>12, <3>1
    <3>2. CASE x # m
      <4> DEFINE q == t[x].prev
      <4>1. r[x].prev = q /\ (q = Null => x = Start)
        BY <1>1, <1>12, <3>2 DEF PrevOK
      <4>2. q # Null => q \in DOMAIN t /\ t[q].next = x
        BY <1>1 DEF PrevOK
      <4>3. q # Null => q # b
        BY <3>2, <4>2
      <4>4. q # Null => q \in DOMAIN r /\ r[q].next = x
        BY <1>6, <1>12, <4>2, <4>3
      <4> HIDE DEF q
      <4> QED
        BY <4>1, <4>4
    <3> QED
      BY <3>1, <3>2
  <2> QED
    BY <1>6, <2>1, <2>2, <2>3 DEF PrevOK
<1>17. Ordered(r, brk)
  <2>1. /\ Start <= b /\ Span(r, b) <= brk
        /\ \A c \in DOMAIN r : b < c => Span(r, b) <= c
    BY <1>1, <1>3, <1>6, <1>14, HeaderTypes DEF Ordered
  <2>2. /\ Start <= rest /\ Span(r, rest) <= brk
        /\ \A c \in DOMAIN r : rest < c => Span(r, rest) <= c
    BY <1>1, <1>2, <1>3, <1>6, <1>14, HeaderTypes, StartAssumption DEF Ordered
  <2>3. ASSUME NEW x \in DOMAIN t \ {b}
        PROVE  /\ Start <= x /\ Span(r, x) <= brk
               /\ \A c \in DOMAIN r : x < c => Span(r, x) <= c
    <3>1. Start <= x /\ Span(r, x) <= brk
      BY <1>1, <1>14 DEF Ordered
    <3>2. \A c \in DOMAIN t : x < c => Span(r, x) <= c
      BY <1>1, <1>14 DEF Ordered
    <3>3. x < rest => Span(r, x) <= rest
      <4>1. x \in Nat /\ Span(t, x) \in Nat /\ Span(t, b) \in Nat
        BY <1>1, HeaderTypes
      <4>2. CASE x < b
        BY <1>1, <1>2, <1>3, <1>14, <4>1, <4>2 DEF Ordered
      <4>3. CASE b < x
        BY <1>1, <1>2, <1>3, <4>1, <4>3 DEF Ordered
      <4> QED
        BY <1>2, <4>1, <4>2, <4>3
    <3> QED
      BY <1>6, <3>1, <3>2, <3>3
  <2> QED
    BY <1>6, <2>1, <2>2, <2>3 DEF Ordered
<1>18. Separate(r)
  <2>1. r[rest].next # Null => ~r[r[rest].next].free
    <3>1. m # Null => ~t[m].free /\ r[m].free = t[m].free
      BY <1>1, <1>5, <1>12 DEF Separate
    <3>2. r[rest].next = m
      BY <1>7
    <3> HIDE DEF m
    <3> QED
      BY <3>1, <3>2
  <2>2. ASSUME NEW x \in DOMAIN t \ {b}, r[x].free, r[x].next # Null
        PROVE  ~r[r[x].next].free
    <3> DEFINE k == t[x].next
    <3>1. r[x].next = k /\ t[x].free /\ k # Null
      BY <1>12, <2>2
    <3>2. k \in DOMAIN t /\ ~t[k].free
      BY <1>1, <3>1 DEF Separate, NextOK
    <3>3. ~r[k].free
      BY <1>8, <1>12, <3>2
    <3> HIDE DEF k
    <3> QED
      BY <3>1, <3>3
  <2>3. ~r[b].free
    BY <1>8
  <2> QED
    BY <1>6, <2>1, <2>2, <2>3 DEF Separate
<1>19. Whole(r, brk)
  BY <1>1, <1>6, <1>13, <1>15, <1>16, <1>17 DEF Whole
<1> QED
  BY <1>1, <1>6, <1>7, <1>8, <1>12, <1>18, <1>19 DEF r

\* kmalloc puts a new block behind the last one.
LEMMA AppendEffect ==
  ASSUME NEW tail \in Blocks, NEW want \in Nat, want >= 1, brk \in Nat \ {0},
         Whole(blocks, brk), Separate(blocks), blocks[tail].next = Null
  PROVE  LET r == AppendBlock(tail, want)
         IN  /\ Whole(r, brk + HEADER + want) /\ Separate(r)
             /\ DOMAIN r = Blocks \cup {brk} /\ ~r[brk].free /\ r[brk].size = want
             /\ \A x \in Blocks : /\ x # brk /\ r[x].free = blocks[x].free
                                 /\ r[x].size = blocks[x].size
<1> DEFINE t == blocks
           r == AppendBlock(tail, want)
           top == brk + HEADER + want
<1>1. /\ Typed(t) /\ NextOK(t, brk) /\ PrevOK(t) /\ Ordered(t, brk)
      /\ Start \in DOMAIN t /\ DOMAIN t = Blocks
  BY DEF Whole, Blocks
<1>2. Span(t, tail) = brk
  BY <1>1 DEF NextOK
<1>3. brk \notin DOMAIN t
  BY <1>1, HeaderTypes DEF Ordered
<1>4. \A x \in DOMAIN t \ {tail} : t[x].next # Null
  <2>1. ASSUME NEW x \in DOMAIN t \ {tail}, Span(t, x) = brk PROVE FALSE
    BY <1>1, <1>2, <2>1, HeaderTypes DEF Ordered
  <2> QED
    BY <1>1, <2>1 DEF NextOK
<1>5. DOMAIN r = DOMAIN t \cup {brk}
  BY <1>1 DEF AppendBlock
<1>6. r[brk] = [size |-> want, free |-> FALSE, next |-> Null, prev |-> tail]
  BY DEF AppendBlock, NewBlock
<1>7. r[tail] = [t[tail] EXCEPT !.next = brk]
  BY <1>1, <1>3 DEF AppendBlock
<1>8. \A x \in DOMAIN t \ {tail} : r[x] = t[x]
  BY <1>1, <1>3 DEF AppendBlock
<1>9. \A x \in DOMAIN t : t[x] \in Headers
  BY <1>1 DEF Typed
<1>10. /\ r[tail].size = t[tail].size /\ r[tail].free = t[tail].free
       /\ r[tail].prev = t[tail].prev /\ r[tail].next = brk
  BY <1>1, <1>7, <1>9 DEF Headers
<1>11. r = [a \in DOMAIN r |-> r[a]]
  BY DEF AppendBlock
<1> HIDE DEF r
<1>12. Typed(r)
  <2>1. r[brk] \in Headers
    <3>1. tail \in Nat
      BY <1>1, HeaderTypes
    <3> QED
      BY <1>6, <3>1 DEF Headers, Null
  <2>2. r[tail] \in Headers
    BY <1>1, <1>7, <1>9 DEF Headers
  <2>3. r \in [DOMAIN r -> Headers]
    BY <1>5, <1>8, <1>9, <1>11, <2>1, <2>2
  <2> QED
    BY <1>1, <1>5, <2>3 DEF Typed
<1>13. Span(r, brk) = top /\ \A x \in DOMAIN t : Span(r, x) = Span(t, x)
  BY <1>6, <1>8, <1>10 DEF Span
<1>14. NextOK(r, top)
  <2>1. r[brk].next = Null /\ Span(r, brk) = top
    BY <1>6, <1>13
  <2>2. r[tail].next = brk /\ brk # Null /\ Span(r, tail) = brk /\ r[brk].prev = tail
    BY <1>1, <1>2, <1>6, <1>10, <1>13 DEF Null
  <2>3. ASSUME NEW x \in DOMAIN t \ {tail}
        PROVE  /\ r[x].next # Null
               /\ r[x].next = Span(r, x)
               /\ r[x].next \in DOMAIN r
               /\ r[r[x].next].prev = x
    BY <1>1, <1>4, <1>5, <1>8, <1>10, <1>13 DEF NextOK
  <2> HIDE DEF top
  <2> QED
    BY <1>5, <2>1, <2>2, <2>3 DEF NextOK
<1>15. PrevOK(r)
  <2>1. r[brk].prev = tail /\ tail \in DOMAIN r /\ r[tail].next = brk /\ tail # Null
    BY <1>1, <1>5, <1>6, <1>10, HeaderTypes
  <2>2. ASSUME NEW x \in DOMAIN t
        PROVE  /\ r[x].prev = Null => x = Start
               /\ r[x].prev # Null => r[x].prev \in DOMAIN r /\ r[r[x].prev].next = x
    <3> DEFINE q == t[x].prev
    <3>1. r[x].prev = q /\ (q = Null => x = Start)
      BY <1>1, <1>8, <1>10 DEF PrevOK
    <3>2. q # Null => q \in DOMAIN t /\ t[q].next = x
      BY <1>1 DEF PrevOK
    <3>3. q # Null => q # tail
      BY <1>1, <3>2, HeaderTypes
    <3>4. q # Null => q \in DOMAIN r /\ r[q].next = x
      BY <1>5, <1>8, <3>2, <3>3
    <3> HIDE DEF q
    <3> QED
      BY <3>1, <3>4
  <2> QED
    BY <1>5, <2>1, <2>2 DEF PrevOK
<1>16. Ordered(r, top)
  <2>1. brk < top /\ top \in Nat
    BY DEF HEADER
  <2>2. \A x \in DOMAIN t : /\ x \in Nat /\ x < brk /\ Span(t, x) \in Nat
                            /\ Start <= x /\ Span(t, x) <= brk
    BY <1>1, HeaderTypes DEF Ordered
  <2>3. ASSUME NEW x \in DOMAIN t
        PROVE  /\ Start <= x /\ Span(r, x) <= top
               /\ \A c \in DOMAIN r : x < c => Span(r, x) <= c
    BY <1>1, <1>5, <1>13, <2>1, <2>2 DEF Ordered
  <2>4. /\ Start <= brk /\ Span(r, brk) <= top
        /\ \A c \in DOMAIN r : brk < c => Span(r, brk) <= c
    <3>1. Start < brk /\ \A c \in DOMAIN r : ~(brk < c)
      BY <1>1, <1>5, <2>2
    <3> QED
      BY <1>13, <2>1, <3>1, StartAssumption
  <2> QED
    BY <1>5, <2>3, <2>4 DEF Ordered
<1>17. Separate(r)
  <2>1. ASSUME NEW x \in DOMAIN t \ {tail}, r[x].free PROVE ~r[r[x].next].free
    <3>1. t[x].next \in DOMAIN t /\ ~t[t[x].next].free /\ r[x].next = t[x].next
      BY <1>1, <1>4, <1>8, <2>1 DEF NextOK, Separate
    <3> QED
      BY <1>8, <1>10, <3>1
  <2> QED
    BY <1>5, <1>6, <1>10, <2>1 DEF Separate
<1>18. Whole(r, top)
  BY <1>1, <1>5, <1>12, <1>14, <1>15, <1>16 DEF Whole
<1> QED
  BY <1>1, <1>3, <1>5, <1>6, <1>8, <1>10, <1>17, <1>18 DEF r

-----------------------------------------------------------------------------
\* A caller's pointer is entered for a block that is now in use.
LEMMA MallocHeld ==
  ASSUME Inv, NEW b \in Nat, NEW bytes \in Requests, Hold(Data(b), bytes),
         b \in Blocks', ~blocks'[b].free, Units(bytes) <= blocks'[b].size,
         \A x \in Blocks \ {b} : /\ x \in Blocks'
                                 /\ blocks'[x].free = blocks[x].free
                                 /\ blocks'[x].size = blocks[x].size,
         \A x \in Blocks' : x # b /\ ~blocks'[x].free => x \in Blocks /\ ~blocks[x].free,
         b \in Blocks => blocks[b].free
  PROVE  /\ HeldInBlocks'
         /\ held' \in [DOMAIN held' -> Requests] /\ DOMAIN held' \subseteq Nat
         /\ Data(b) \notin DOMAIN held
<1>1. /\ held \in [DOMAIN held -> Requests] /\ DOMAIN held \subseteq Nat
      /\ Blocks \subseteq Nat
  BY DEF Inv, TypeOK
<1>2. /\ \A p \in DOMAIN held : /\ p - HEADER \in Blocks /\ ~blocks[p - HEADER].free
                                /\ Units(held[p]) <= blocks[p - HEADER].size
      /\ \A x \in Blocks : ~blocks[x].free => Data(x) \in DOMAIN held
  BY DEF Inv, HeldInBlocks
<1>3. Data(b) \in Nat /\ Data(b) - HEADER = b /\ \A x \in Nat : Data(x) = x + HEADER
  BY DEF Data, HEADER
<1>4. DOMAIN held' = DOMAIN held \cup {Data(b)} /\ held'[Data(b)] = bytes
      /\ \A q \in DOMAIN held \ {Data(b)} : held'[q] = held[q]
  BY DEF Hold
<1>5. \A q \in DOMAIN held : q - HEADER # b /\ q # Data(b)
  BY <1>1, <1>2, <1>3
<1>6. ASSUME NEW p \in DOMAIN held'
      PROVE  /\ p - HEADER \in Blocks' /\ ~blocks'[p - HEADER].free
             /\ Units(held'[p]) <= blocks'[p - HEADER].size
  <2>1. CASE p = Data(b)
    BY <1>3, <1>4, <2>1
  <2>2. CASE p # Data(b)
    BY <1>2, <1>4, <1>5, <2>2
  <2> QED
    BY <2>1, <2>2
<1>7. ASSUME NEW x \in Blocks', ~blocks'[x].free PROVE Data(x) \in DOMAIN held'
  BY <1>2, <1>4, <1>7
<1>8. HeldInBlocks'
  <2>1. \A p \in DOMAIN held' : /\ p - HEADER \in Blocks' /\ ~blocks'[p - HEADER].free
                                /\ Units(held'[p]) <= blocks'[p - HEADER].size
    BY <1>6
  <2>2. \A x \in Blocks' : ~blocks'[x].free => Data(x) \in DOMAIN held'
    BY <1>7
  <2> QED
    BY <2>1, <2>2 DEF HeldInBlocks, Blocks, Units, Data
<1>9. held' \in [DOMAIN held' -> Requests]
  <2>1. held' = [q \in DOMAIN held' |-> held'[q]]
    BY DEF Hold
  <2>2. \A q \in DOMAIN held' : held'[q] \in Requests
    BY <1>1, <1>4
  <2> QED
    BY <2>1, <2>2
<1> QED
  BY <1>1, <1>3, <1>4, <1>5, <1>8, <1>9

\* Every request takes at least one unit.
LEMMA RequestUnits ==
  ASSUME NEW bytes \in Requests
  PROVE  Units(bytes) \in Nat /\ Units(bytes) >= 1
<1>1. bytes \in Nat /\ bytes >= 1
  BY RequestsAssumption
<1> QED
  BY <1>1 DEF Units

\* The parts of the next invariant, put together.
LEMMA Assemble ==
  ASSUME Whole(blocks', brk'), Separate(blocks'), head' = Start, brk' \in Nat \ {0},
         HeldInBlocks', held' \in [DOMAIN held' -> Requests], DOMAIN held' \subseteq Nat,
         brk' <= HeapTop
  PROVE  Inv'
<1>1. ListLinked' /\ BlocksInOrder' /\ NoFreeNeighbours'
  BY TableInv
<1>2. TypeOK'
  BY StartAssumption DEF Whole, Typed, TypeOK, Blocks
<1>3. Room'
  BY DEF Room
<1> QED
  BY <1>1, <1>2, <1>3 DEF Inv

LEMMA MallocReusesInv ==
  ASSUME Inv, NEW b \in Blocks, NEW bytes \in Requests, MallocReuses(b, bytes)
  PROVE  Inv' /\ Data(b) \notin DOMAIN held /\ head # Null
<1> DEFINE want == Units(bytes)
<1>1. want \in Nat /\ want >= 1
  BY RequestUnits
<1>2. head # Null /\ brk \in Nat \ {0} /\ brk <= HeapTop
  BY DEF Inv, ListLinked, TypeOK, Room
<1>3. Whole(blocks, brk) /\ Separate(blocks) /\ head = Start
  BY <1>2, InvTable
<1>4. /\ blocks[b].free /\ blocks[b].size >= want /\ Hold(Data(b), bytes)
      /\ head' = head /\ brk' = brk /\ b \in Nat
  <2>1. b \in Nat
    BY DEF Inv, TypeOK
  <2> QED
    BY <2>1 DEF MallocReuses, FirstFit, Fits
<1> HIDE DEF want
<1>5. /\ Whole(blocks', brk) /\ Separate(blocks')
      /\ b \in Blocks' /\ ~blocks'[b].free /\ want <= blocks'[b].size
      /\ \A x \in Blocks \ {b} : /\ x \in Blocks'
                                 /\ blocks'[x].free = blocks[x].free
                                 /\ blocks'[x].size = blocks[x].size
      /\ \A x \in Blocks' : x # b /\ ~blocks'[x].free => x \in Blocks /\ ~blocks[x].free
  <2>1. CASE TooSmallToSplit(b, want)
    <3>1. blocks' = [blocks EXCEPT ![b].free = FALSE]
      BY <2>1 DEF MallocReuses, want
    <3> DEFINE r == [blocks EXCEPT ![b].free = FALSE]
    <3>2. b \in DOMAIN blocks /\ brk \in Nat
      BY <1>2 DEF Blocks
    <3>3. /\ Whole(r, brk) /\ Separate(r) /\ DOMAIN r = DOMAIN blocks
          /\ ~r[b].free /\ r[b].size = blocks[b].size
          /\ \A x \in DOMAIN blocks \ {b} : r[x] = blocks[x]
      BY <1>3, <3>2, TakeEffect
    <3> HIDE DEF r
    <3>4. blocks' = r /\ Blocks' = DOMAIN r
      BY <3>1 DEF r, Blocks
    <3> QED
      BY <1>4, <3>3, <3>4 DEF Blocks
  <2>2. CASE ~TooSmallToSplit(b, want)
    <3>1. blocks' = SplitBlock(b, want)
      BY <2>2 DEF MallocReuses, want
    <3> DEFINE r == SplitBlock(b, want)
    <3>2. /\ Whole(r, brk) /\ Separate(r)
          /\ Blocks \subseteq DOMAIN r /\ ~r[b].free /\ r[b].size = want
          /\ \A x \in DOMAIN r : x # b /\ ~r[x].free =>
                  x \in Blocks /\ ~blocks[x].free
          /\ \A x \in Blocks \ {b} : /\ r[x].free = blocks[x].free
                                     /\ r[x].size = blocks[x].size
      BY <1>1, <1>2, <1>3, <1>4, <2>2, SplitEffect
    <3> HIDE DEF r
    <3>3. blocks' = r /\ Blocks' = DOMAIN r
      BY <3>1 DEF r, Blocks
    <3> QED
      BY <1>1, <3>2, <3>3
  <2> QED
    BY <2>1, <2>2
<1>6. /\ HeldInBlocks' /\ held' \in [DOMAIN held' -> Requests]
      /\ DOMAIN held' \subseteq Nat /\ Data(b) \notin DOMAIN held
  BY <1>4, <1>5, MallocHeld DEF want
<1>7. Inv'
  BY <1>2, <1>3, <1>4, <1>5, <1>6, Assemble
<1> QED
  BY <1>2, <1>6, <1>7

LEMMA MallocGrowsInv ==
  ASSUME Inv, NEW bytes \in Requests, MallocGrows(bytes)
  PROVE  Inv' /\ Data(brk) \notin DOMAIN held
<1> DEFINE want == Units(bytes)
<1>1. want \in Nat /\ want >= 1
  BY RequestUnits
<1>2. /\ brk + HEADER + want <= HeapTop /\ brk' = brk + HEADER + want
      /\ Hold(Data(brk), bytes) /\ brk \in Nat \ {0} /\ brk' \in Nat \ {0}
  <2>1. /\ brk + HEADER + want <= HeapTop /\ brk' = brk + HEADER + want
        /\ Hold(Data(brk), bytes)
    BY DEF MallocGrows
  <2>2. brk \in Nat \ {0}
    BY DEF Inv, TypeOK
  <2> HIDE DEF want
  <2> QED
    BY <1>1, <2>1, <2>2 DEF HEADER
<1>3. /\ Whole(blocks', brk') /\ Separate(blocks') /\ head' = Start
      /\ brk \in Blocks' /\ ~blocks'[brk].free /\ want <= blocks'[brk].size
      /\ brk \notin Blocks
      /\ \A x \in Blocks \ {brk} : /\ x \in Blocks'
                                   /\ blocks'[x].free = blocks[x].free
                                   /\ blocks'[x].size = blocks[x].size
      /\ \A x \in Blocks' : x # brk /\ ~blocks'[x].free => x \in Blocks /\ ~blocks[x].free
  <2>1. CASE head = Null
    <3>1. Blocks = {} /\ brk = Start
      BY <2>1 DEF Inv, ListLinked
    <3>2. head' = brk /\ blocks' = [a \in {brk} |-> NewBlock(want, Null)]
      BY <2>1 DEF MallocGrows
    <3> DEFINE r == [a \in {brk} |-> NewBlock(want, Null)]
    <3> HIDE DEF want
    <3>3. /\ DOMAIN r = {brk}
          /\ r[brk] = [size |-> want, free |-> FALSE, next |-> Null, prev |-> Null]
      BY DEF NewBlock
    <3> HIDE DEF r
    <3>4. r[brk] \in Headers
      BY <1>1, <3>3 DEF Headers, Null
    <3>5. Typed(r)
      BY <1>2, <3>3, <3>4 DEF Typed, r
    <3>6. Span(r, brk) = brk'
      BY <1>2, <3>3 DEF Span
    <3>7. NextOK(r, brk') /\ PrevOK(r)
      BY <3>1, <3>3, <3>6 DEF NextOK, PrevOK
    <3>8. Start <= brk' /\ brk' <= brk' /\ ~(brk < brk)
      BY <1>1, <1>2, <3>1, StartAssumption DEF HEADER
    <3>9. Start <= Start
      BY StartAssumption
    <3>10. Ordered(r, brk')
      BY <3>1, <3>3, <3>6, <3>8, <3>9 DEF Ordered
    <3>11. Separate(r)
      BY <3>3 DEF Separate
    <3>12. blocks' = r /\ Blocks' = {brk}
      BY <3>2, <3>3 DEF r, Blocks
    <3>13. Whole(blocks', brk')
      BY <3>1, <3>3, <3>5, <3>7, <3>10, <3>12 DEF Whole
    <3>14. Separate(blocks') /\ head' = Start
      BY <3>1, <3>2, <3>11, <3>12
    <3>15. ~blocks'[brk].free /\ want <= blocks'[brk].size
      BY <1>1, <3>3, <3>12
    <3> QED
      BY <3>1, <3>12, <3>13, <3>14, <3>15
  <2>2. CASE head # Null
    <3>1. Whole(blocks, brk) /\ Separate(blocks) /\ head = Start
      BY <2>2, InvTable
    <3>2. PICK tail \in Blocks : blocks[tail].next = Null
                                 /\ blocks' = AppendBlock(tail, want) /\ head' = head
      BY <2>2 DEF MallocGrows
    <3> DEFINE r == AppendBlock(tail, want)
    <3> HIDE DEF want
    <3>3. /\ Whole(r, brk + HEADER + want) /\ Separate(r)
          /\ DOMAIN r = Blocks \cup {brk} /\ ~r[brk].free /\ r[brk].size = want
          /\ \A x \in Blocks : /\ x # brk /\ r[x].free = blocks[x].free
                               /\ r[x].size = blocks[x].size
      BY <1>1, <1>2, <3>1, <3>2, AppendEffect
    <3> HIDE DEF r
    <3>4. blocks' = r /\ Blocks' = DOMAIN r
      BY <3>2 DEF r, Blocks
    <3> QED
      BY <1>1, <1>2, <3>1, <3>2, <3>3, <3>4
  <2> QED
    BY <2>1, <2>2
<1>4. /\ HeldInBlocks' /\ held' \in [DOMAIN held' -> Requests]
      /\ DOMAIN held' \subseteq Nat /\ Data(brk) \notin DOMAIN held
  BY <1>2, <1>3, MallocHeld DEF want
<1>5. Inv'
  BY <1>2, <1>3, <1>4, Assemble
<1> QED
  BY <1>4, <1>5

LEMMA FreeInv ==
  ASSUME Inv, NEW b \in Blocks, Free(b)
  PROVE  Inv'
<1>1. /\ Data(b) \in DOMAIN held /\ head' = head /\ brk' = brk
      /\ held' = [q \in DOMAIN held \ {Data(b)} |-> held[q]]
  BY DEF Free
<1>2. /\ held \in [DOMAIN held -> Requests] /\ DOMAIN held \subseteq Nat
      /\ Blocks \subseteq Nat /\ brk \in Nat \ {0}
  BY DEF Inv, TypeOK
<1>3. /\ \A p \in DOMAIN held : /\ p - HEADER \in Blocks /\ ~blocks[p - HEADER].free
                                /\ Units(held[p]) <= blocks[p - HEADER].size
      /\ \A x \in Blocks : ~blocks[x].free => Data(x) \in DOMAIN held
  BY DEF Inv, HeldInBlocks
<1>4. \A x \in Nat : Data(x) = x + HEADER /\ Data(x) \in Nat /\ Data(x) - HEADER = x
  BY DEF Data, HEADER
<1>5. ~blocks[b].free /\ b \in Nat
  BY <1>1, <1>2, <1>3, <1>4
<1>6. head # Null /\ head = Start /\ brk <= HeapTop
  BY DEF Inv, ListLinked, Room
<1>7. Whole(blocks, brk) /\ Separate(blocks)
  BY <1>6, InvTable
<1> DEFINE r == MergeBackward(MergeForward([blocks EXCEPT ![b].free = TRUE], b), b)
<1>8. /\ Whole(r, brk) /\ Separate(r) /\ DOMAIN r \subseteq Blocks
      /\ \A x \in Blocks : x # b /\ ~blocks[x].free =>
           x \in DOMAIN r /\ ~r[x].free /\ r[x].size = blocks[x].size
      /\ \A x \in DOMAIN r : ~r[x].free => x # b /\ ~blocks[x].free
  <2>1. b \in DOMAIN blocks /\ brk \in Nat
    BY <1>2 DEF Blocks
  <2> QED
    BY <1>5, <1>7, <2>1, FreeEffect DEF Blocks
<1>9. blocks' = r
  BY DEF Free
<1> HIDE DEF r
<1>10. Blocks' = DOMAIN r
  BY <1>9 DEF Blocks
<1>11. Whole(blocks', brk') /\ Separate(blocks') /\ head' = Start
  BY <1>1, <1>6, <1>8, <1>9
<1>12. DOMAIN held' = DOMAIN held \ {Data(b)} /\ \A q \in DOMAIN held' : held'[q] = held[q]
  BY <1>1
<1>13. ASSUME NEW p \in DOMAIN held'
       PROVE  /\ p - HEADER \in Blocks' /\ ~blocks'[p - HEADER].free
              /\ Units(held'[p]) <= blocks'[p - HEADER].size
  <2>1. p \in DOMAIN held /\ p # Data(b) /\ p \in Nat
    BY <1>2, <1>12
  <2>2. p - HEADER # b
    BY <1>4, <1>5, <2>1 DEF HEADER
  <2> QED
    BY <1>3, <1>8, <1>9, <1>10, <1>12, <2>1, <2>2
<1>14. ASSUME NEW x \in Blocks', ~blocks'[x].free PROVE Data(x) \in DOMAIN held'
  <2>1. x \in Blocks /\ x # b /\ ~blocks[x].free
    BY <1>8, <1>9, <1>10, <1>14
  <2>2. Data(x) # Data(b)
    BY <1>2, <1>5, <2>1 DEF Data, HEADER
  <2> QED
    BY <1>3, <1>12, <2>1, <2>2
<1>15. HeldInBlocks'
  <2>1. \A p \in DOMAIN held' : /\ p - HEADER \in Blocks' /\ ~blocks'[p - HEADER].free
                                /\ Units(held'[p]) <= blocks'[p - HEADER].size
    BY <1>13
  <2>2. \A x \in Blocks' : ~blocks'[x].free => Data(x) \in DOMAIN held'
    BY <1>14
  <2> QED
    BY <2>1, <2>2 DEF HeldInBlocks, Blocks, Units, Data
<1>16. held' \in [DOMAIN held' -> Requests] /\ DOMAIN held' \subseteq Nat
  BY <1>1, <1>2
<1> QED
  BY <1>1, <1>2, <1>6, <1>11, <1>15, <1>16, Assemble

LEMMA InitInv == Init => Inv
<1> SUFFICES ASSUME Init PROVE Inv
  OBVIOUS
<1>1. Blocks = {} /\ head = Null /\ brk = Start /\ DOMAIN held = {}
  BY DEF Init, Blocks
<1>2. TypeOK
  <2>1. blocks \in [Blocks -> Headers] /\ held \in [DOMAIN held -> Requests]
    BY <1>1 DEF Init, Blocks
  <2> QED
    BY <1>1, <2>1, StartAssumption DEF TypeOK, Null
<1>3. ListLinked /\ BlocksInOrder /\ NoFreeNeighbours /\ HeldInBlocks /\ Room
  BY <1>1 DEF ListLinked, BlocksInOrder, NoFreeNeighbours, HeldInBlocks, Room
<1> QED
  BY <1>2, <1>3 DEF Inv

LEMMA StepInv == Inv /\ [Next]_vars => Inv'
<1> SUFFICES ASSUME Inv, [Next]_vars PROVE Inv'
  OBVIOUS
<1>1. CASE \E bytes \in Requests, b \in Blocks : MallocReuses(b, bytes)
  BY <1>1, MallocReusesInv
<1>2. CASE \E bytes \in Requests : MallocGrows(bytes)
  BY <1>2, MallocGrowsInv
<1>3. CASE \E b \in Blocks : Free(b)
  BY <1>3, FreeInv
<1>4. CASE UNCHANGED vars
  BY <1>4 DEF vars, Inv, TypeOK, ListLinked, BlocksInOrder, NoFreeNeighbours,
              HeldInBlocks, Room, Blocks, End, Data
<1> QED
  BY <1>1, <1>2, <1>3, <1>4 DEF Next

-----------------------------------------------------------------------------
\* The invariant holds of every heap that kmalloc and kfree can leave behind.
THEOREM Invariance == Spec => []Inv
<1> QED
  BY InitInv, StepInv, PTL DEF Spec

\* Headers, the break and the callers' pointers keep their types.
THEOREM TypeCorrect == Spec => []TypeOK
<1>1. Inv => TypeOK
  BY DEF Inv
<1> QED
  BY <1>1, Invariance, PTL

\* kmalloc's split and append and kfree's merges always leave one walkable list that
\* covers the heap from the kernel's end to the break, without gap or overlap.
THEOREM ListStaysWhole == Spec => []OneList
<1>1. Inv => OneList
  BY DEF Inv, OneList
<1> QED
  BY <1>1, Invariance, PTL

\* coalesce merges all that can be merged: free blocks are never neighbours.
THEOREM MergingIsComplete == Spec => []NoFreeNeighbours
<1>1. Inv => NoFreeNeighbours
  BY DEF Inv
<1> QED
  BY <1>1, Invariance, PTL

\* The blocks in use are the ones the callers hold, each with room for its request.
THEOREM NothingLostOrShared == Spec => []HeldInBlocks
<1>1. Inv => HeldInBlocks
  BY DEF Inv
<1> QED
  BY <1>1, Invariance, PTL

\* After the last kfree the heap is one block, whatever was called in whatever order.
LEMMA InvWhole == Inv => FreedHeapIsWhole
<1> SUFFICES ASSUME Inv, held = [p \in {} |-> 0], NEW b \in Blocks
             PROVE  b = Start /\ End(b) = brk
  BY DEF FreedHeapIsWhole
<1>1. DOMAIN held = {}
  OBVIOUS
<1>2. \A x \in Blocks : blocks[x].free
  <2>1. \A x \in Blocks : ~blocks[x].free => Data(x) \in DOMAIN held
    BY DEF Inv, HeldInBlocks
  <2>2. \A x \in Blocks : blocks[x].free \in BOOLEAN
    BY DEF Inv, TypeOK, Headers
  <2> QED
    BY <1>1, <2>1, <2>2
<1>3. \A x \in Blocks : blocks[x].next # Null => ~blocks[blocks[x].next].free
  BY <1>2 DEF Inv, NoFreeNeighbours
<1>4. \A x \in Blocks : blocks[x].next # Null => blocks[x].next \in Blocks
  BY DEF Inv, ListLinked
<1>5. \A x \in Blocks : blocks[x].next = Null
  BY <1>2, <1>3, <1>4
<1>6. End(b) = brk
  BY <1>5 DEF Inv, ListLinked
<1>7. b # Null
  BY DEF Inv, TypeOK, Null
<1>8. blocks[b].prev # Null =>
        blocks[b].prev \in Blocks /\ blocks[blocks[b].prev].next = b
  BY DEF Inv, ListLinked
<1>9. blocks[b].prev = Null
  BY <1>5, <1>7, <1>8
<1>10. b = head /\ head = Start
  BY <1>9 DEF Inv, ListLinked
<1> QED
  BY <1>6, <1>10

THEOREM NoLastingFragments == Spec => []FreedHeapIsWhole
<1> QED
  BY InvWhole, Invariance, PTL

-----------------------------------------------------------------------------
\* A pointer that kmalloc returns is one the abstract allocator may return: its extent
\* overlaps no extent that another caller still holds.
LEMMA MallocImplements ==
  ASSUME Inv, Inv', NEW b \in Blocks', NEW bytes \in Requests, Hold(Data(b), bytes),
         Data(b) \notin DOMAIN held, head' # Null
  PROVE  Alloc!Malloc(Data(b), bytes) /\ Data(b) \in Start + HEADER .. HeapTop
<1>1. /\ DOMAIN held' = DOMAIN held \cup {Data(b)} /\ held'[Data(b)] = bytes
      /\ \A q \in DOMAIN held : held'[q] = held[q]
      /\ held' = [q \in DOMAIN held \cup {Data(b)} |->
                    IF q = Data(b) THEN bytes ELSE held[q]]
  BY DEF Hold
<1>2. /\ Blocks' \subseteq Nat \ {0} /\ DOMAIN held' \subseteq Nat /\ brk' \in Nat
      /\ brk' <= HeapTop
      /\ \A x \in Blocks' : blocks'[x].size \in Nat \ {0}
  BY DEF Inv, TypeOK, Room, Headers, Blocks
<1>3. \A p \in DOMAIN held' : /\ p - HEADER \in Blocks'
                              /\ Units(held'[p]) <= blocks'[p - HEADER].size
  BY DEF Inv, HeldInBlocks, Blocks, Units
<1>4. \A x \in Blocks' : /\ Start <= x /\ x + HEADER + blocks'[x].size <= brk'
                         /\ \A c \in Blocks' : x < c => x + HEADER + blocks'[x].size <= c
  BY DEF Inv, BlocksInOrder, End, Blocks
<1>5. Data(b) = b + HEADER /\ Data(b) \in Nat /\ Data(b) - HEADER = b
  BY <1>2 DEF Data, HEADER
<1>6. ASSUME NEW q \in DOMAIN held PROVE Alloc!Apart(Data(b), bytes, q, held[q])
  <2> DEFINE c == q - HEADER
  <2>1. /\ q \in Nat /\ c \in Blocks' /\ c # b /\ q = c + HEADER
        /\ Units(held[q]) <= blocks'[c].size /\ Units(bytes) <= blocks'[b].size
    <3>1. q \in DOMAIN held' /\ Data(b) \in DOMAIN held'
      BY <1>1
    <3>2. q \in Nat /\ q # Data(b)
      BY <1>2, <3>1
    <3>3. c # b /\ q = c + HEADER
      BY <1>5, <3>2 DEF HEADER
    <3> QED
      BY <1>1, <1>3, <1>5, <3>1, <3>2, <3>3
  <2>2. Units(bytes) \in Int /\ Units(held[q]) \in Int
    <3>1. bytes \in Nat /\ held[q] \in Nat
      BY RequestsAssumption DEF Inv, TypeOK
    <3> QED
      BY <3>1 DEF Units
  <2> HIDE DEF c
  <2>3. b < c \/ c < b
    BY <1>2, <2>1
  <2>4. Data(b) + Units(bytes) <= q \/ q + Units(held[q]) <= Data(b)
    BY <1>2, <1>4, <1>5, <2>1, <2>2, <2>3 DEF HEADER
  <2> QED
    BY <2>4 DEF Alloc!Apart, Alloc!Units, Units
<1>7. Alloc!Malloc(Data(b), bytes)
  BY <1>1, <1>6 DEF Alloc!Malloc
<1>8. Data(b) \in Start + HEADER .. HeapTop
  BY <1>2, <1>4, <1>5, StartAssumption, HeapTopAssumption DEF HEADER
<1> QED
  BY <1>7, <1>8

LEMMA StepImplements == Inv /\ Inv' /\ [Next]_vars => [Alloc!Next]_held
<1> SUFFICES ASSUME Inv, Inv', [Next]_vars PROVE [Alloc!Next]_held
  OBVIOUS
<1>1. ASSUME NEW bytes \in Requests, NEW b \in Blocks, MallocReuses(b, bytes)
      PROVE  Alloc!Next
  <2>1. head' # Null /\ Hold(Data(b), bytes) /\ Data(b) \notin DOMAIN held
    BY <1>1, MallocReusesInv DEF MallocReuses
  <2>2. b \in Blocks'
    <3>1. Data(b) \in DOMAIN held'
      BY <2>1 DEF Hold
    <3>2. Data(b) - HEADER = b
      BY DEF Inv, TypeOK, Data, HEADER
    <3> QED
      BY <3>1, <3>2 DEF Inv, HeldInBlocks
  <2> QED
    BY <2>1, <2>2, MallocImplements DEF Alloc!Next
<1>2. ASSUME NEW bytes \in Requests, MallocGrows(bytes)
      PROVE  Alloc!Next
  <2>1. Hold(Data(brk), bytes) /\ Data(brk) \notin DOMAIN held
    BY <1>2, MallocGrowsInv DEF MallocGrows
  <2>2. brk \in Blocks'
    <3>1. Data(brk) \in DOMAIN held'
      BY <2>1 DEF Hold
    <3>2. Data(brk) - HEADER = brk
      BY DEF Inv, TypeOK, Data, HEADER
    <3> QED
      BY <3>1, <3>2 DEF Inv, HeldInBlocks
  <2>3. head' # Null
    BY <2>2 DEF Inv, ListLinked
  <2> QED
    BY <2>1, <2>2, <2>3, MallocImplements DEF Alloc!Next
<1>3. ASSUME NEW b \in Blocks, Free(b) PROVE Alloc!Next
  BY <1>3 DEF Free, Alloc!Next, Alloc!Free
<1>4. CASE UNCHANGED vars
  BY <1>4 DEF vars
<1> QED
  BY <1>1, <1>2, <1>3, <1>4 DEF Next

\* The list of headers implements the allocator its callers rely on.
THEOREM HeapImplementsAllocator == Spec => ImplementsAllocator
<1>1. Init => Alloc!Init
  BY DEF Init, Alloc!Init
<1>2. Inv /\ Inv' /\ [Next]_vars => [Alloc!Next]_held
  BY StepImplements
<1> QED
  BY <1>1, <1>2, Invariance, PTL DEF Spec, ImplementsAllocator, Alloc!Spec

=============================================================================
