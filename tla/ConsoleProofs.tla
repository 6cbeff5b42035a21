---------------------------- MODULE ConsoleProofs ----------------------------
(***************************************************************************)
(* Proofs about Console and Vga, for every size of the screen and of the   *)
(* scrollback, every prompt, output and length of the history.             *)
(*                                                                         *)
(* First the driver: each of its functions leaves a terminal of the right  *)
(* type on which the screen is the window (Drawn).  What is written is a   *)
(* recursive function of the text (Writing), and the lemma about it an     *)
(* induction over the number of characters.  Then the places of the line:  *)
(* division by the width (PlaceOfCell), and what redraw_input_region       *)
(* draws in the cells (LineIsShown).  Last the keys: each leaves KeyDone,  *)
(* from which the invariant Kept follows (KeyKeeps).  To the properties    *)
(* Kept adds that the window follows the output while a command runs.      *)
(***************************************************************************)
EXTENDS Console, SequenceTheorems, WellFoundedInduction, TLAPS

Printed ==
  UNION {{text[i] : i \in DOMAIN text} : text \in Prompts \cup Outputs \cup {OutOfMemory}}
Symbols == Chars \cup Printed \cup {BlankCell, Foreign}

CellRows == [Columns -> Symbols]
Tops == 0..ScrollbackRows - TermHeight

\* Terminals whose column is one of C: one that is written may stand behind its row.
Terms(C) ==
  [text : [BufRows -> CellRows], row : BufRows, col : C, head : BufRows, top : Tops,
   follow : BOOLEAN, screen : [ViewRows -> CellRows], shown : Int \X Int]

Terminals == Terms(Columns)
Drafts == Terms(0..TextWidth)

Faithful(t) == t.screen = Window(t) /\ t.shown = ShownCursor(t)

\* The row that was written last is in the window.
TailSeen(t) == Visible(t, t.head)

\* The same but for what is on the screen
Like(s, t) ==
  /\ s.text = t.text /\ s.row = t.row /\ s.col = t.col /\ s.head = t.head
  /\ s.top = t.top /\ s.follow = t.follow

LEMMA Sizes ==
  /\ TextWidth \in Nat /\ TextWidth > 0 /\ TermHeight \in Nat /\ TermHeight > 0
  /\ ScrollbackRows \in Nat /\ ScrollbackRows >= TermHeight
  /\ LastViewRow = TermHeight - 1 /\ LastBufRow = ScrollbackRows - 1
  BY SizesAssumption DEF LastViewRow, LastBufRow

LEMMA BlankIsRow == BlankRow \in CellRows
  BY DEF BlankRow, CellRows, Symbols

LEMMA ClearedIsTerminal ==
  /\ Cleared \in Terminals /\ Faithful(Cleared) /\ Cleared.follow /\ TailSeen(Cleared)
  /\ Cleared.row = 0 /\ Cleared.col = 0 /\ Cleared.head = 0 /\ Cleared.top = 0
<1>1. 0 \in BufRows /\ 0 \in Columns /\ 0 \in Tops
  BY Sizes DEF BufRows, Columns, Tops
<1>2. Cleared \in Terminals
  BY <1>1, BlankIsRow DEF Cleared, Terminals, Terms
<1>3. Window(Cleared) = Cleared.screen
  BY DEF Window, Cleared
<1>4. ShownCursor(Cleared) = <<0, 0>>
  BY Sizes DEF ShownCursor, Cleared, AtMost, AtLeastZero
<1>5. TailSeen(Cleared)
  BY Sizes DEF TailSeen, Visible, Cleared
<1> QED BY <1>2, <1>3, <1>4, <1>5 DEF Faithful, Cleared

LEMMA SyncShows ==
  ASSUME NEW t \in Terminals
  PROVE  /\ SyncCursor(t) \in Terminals /\ Like(SyncCursor(t), t)
         /\ SyncCursor(t).screen = t.screen
         /\ SyncCursor(t).shown = ShownCursor(SyncCursor(t))
<1>1. ShownCursor(t) \in Int \X Int
  BY Sizes DEF ShownCursor, AtMost, AtLeastZero, Terminals, Terms, BufRows, Tops, Columns
<1>2. SyncCursor(t) \in Terminals /\ Like(SyncCursor(t), t) /\ SyncCursor(t).shown = ShownCursor(t)
  BY <1>1 DEF SyncCursor, Terminals, Terms, Like
<1>3. ShownCursor(SyncCursor(t)) = ShownCursor(t)
  BY <1>2 DEF ShownCursor, Like
<1>4. SyncCursor(t).screen = t.screen
  BY DEF SyncCursor, Terminals, Terms
<1> QED BY <1>2, <1>3, <1>4

LEMMA SameWindow ==
  ASSUME NEW s, NEW t, s.text = t.text, s.top = t.top
  PROVE  Window(s) = Window(t)
  BY DEF Window

LEMMA WindowTypes ==
  ASSUME NEW t \in Terminals
  PROVE  Window(t) \in [ViewRows -> CellRows]
  BY BlankIsRow DEF Window, Terminals, Terms

LEMMA RenderShows ==
  ASSUME NEW t \in Terminals
  PROVE  Render(t) \in Terminals /\ Faithful(Render(t)) /\ Like(Render(t), t)
<1> DEFINE u == [t EXCEPT !.screen = Window(t)]
<1>1. u \in Terminals /\ Like(u, t) /\ u.screen = Window(t)
  BY WindowTypes DEF Terminals, Terms, Like
<1>2. Render(t) = SyncCursor(u)
  BY DEF Render
<1> HIDE DEF u
<1>3. /\ SyncCursor(u) \in Terminals /\ Like(SyncCursor(u), u)
      /\ SyncCursor(u).screen = u.screen
      /\ SyncCursor(u).shown = ShownCursor(SyncCursor(u))
  BY <1>1, SyncShows
<1> DEFINE s == SyncCursor(u)
<1>4. Like(s, t)
  BY <1>1, <1>3 DEF Like
<1>5. Window(s) = Window(t)
  BY <1>4, SameWindow DEF Like
<1> QED BY <1>1, <1>2, <1>3, <1>4, <1>5 DEF Faithful

\* What is left alone by those that only move the window
LEMMA FollowingMoves ==
  ASSUME NEW t \in Terminals
  PROVE  /\ Following(t) \in Terminals
         /\ Following(t).text = t.text /\ Following(t).row = t.row /\ Following(t).col = t.col
         /\ Following(t).head = t.head /\ Following(t).follow = t.follow
         /\ t.follow => Visible(Following(t), t.row)
<1>1. AtLeastZero(t.row - LastViewRow) \in Tops
  BY Sizes DEF AtLeastZero, Tops, Terminals, Terms, BufRows
<1>2. CASE t.follow
  <2> DEFINE top == AtLeastZero(t.row - LastViewRow)
             f == [t EXCEPT !.top = top]
  <2>1. Following(t) = f
    BY <1>2 DEF Following
  <2>2. /\ f \in Terminals /\ f.top = top
        /\ f.text = t.text /\ f.row = t.row /\ f.col = t.col
        /\ f.head = t.head /\ f.follow = t.follow
    BY <1>1 DEF Terminals, Terms
  <2> HIDE DEF f
  <2>3. Visible(f, t.row)
    BY <2>2, Sizes DEF Visible, AtLeastZero, Terminals, Terms, BufRows
  <2> QED BY <2>1, <2>2, <2>3
<1>3. CASE ~t.follow
  BY <1>3 DEF Following
<1> QED BY <1>2, <1>3

LEMMA AdvanceGoesOn ==
  ASSUME NEW t \in Drafts
  PROVE  /\ Advance(t) \in Terminals /\ Advance(t).col = 0 /\ Advance(t).follow = t.follow
         /\ t.follow => Visible(Advance(t), Advance(t).row)
<1> DEFINE u == IF t.row < LastBufRow
                THEN [t EXCEPT !.row = t.row + 1, !.col = 0, !.text[t.row + 1] = BlankRow]
                ELSE ScrolledUp(t)
<1>1. 0 \in Columns /\ t.row \in BufRows
  BY Sizes DEF Columns, Drafts, Terms
<1>2. u \in Terminals /\ u.col = 0 /\ u.follow = t.follow
  <2>1. CASE t.row < LastBufRow
    <3>1. t.row + 1 \in BufRows
      BY <1>1, <2>1, Sizes DEF BufRows
    <3> QED BY <1>1, <2>1, <3>1, BlankIsRow DEF Drafts, Terminals, Terms
  <2>2. CASE ~(t.row < LastBufRow)
    <3>1. [row \in BufRows |-> IF row < LastBufRow THEN t.text[row + 1] ELSE BlankRow]
            \in [BufRows -> CellRows]
      <4>1. \A row \in BufRows : row < LastBufRow => row + 1 \in BufRows
        BY Sizes DEF BufRows
      <4> QED BY <4>1, BlankIsRow DEF Drafts, Terms
    <3>2. AtLeastZero(t.top - 1) \in Tops
      BY Sizes DEF AtLeastZero, Tops, Drafts, Terms
    <3>3. ScrolledUp(t) \in Terminals /\ ScrolledUp(t).col = 0 /\ ScrolledUp(t).follow = t.follow
      BY <1>1, <3>1, <3>2 DEF ScrolledUp, Drafts, Terminals, Terms
    <3> QED BY <2>2, <3>3
  <2> QED BY <2>1, <2>2
<1>3. Advance(t) = Following(u)
  BY DEF Advance
<1> HIDE DEF u
<1> QED BY <1>2, <1>3, FollowingMoves

-----------------------------------------------------------------------------
\* Output at the cursor.

LEMMA NewlineDraws ==
  ASSUME NEW t \in Drafts
  PROVE  /\ Newline(t) \in Terminals /\ Faithful(Newline(t)) /\ Newline(t).follow = t.follow
         /\ Newline(t).col = 0
         /\ t.follow => TailSeen(Newline(t))
<1> DEFINE ended == [t EXCEPT !.text[t.row] =
                       [col \in Columns |-> IF col < t.col THEN t.text[t.row][col] ELSE BlankCell]]
           next == Advance(ended)
           last == [next EXCEPT !.head = next.row]
<1>1. ended \in Drafts /\ ended.follow = t.follow
  <2>1. [col \in Columns |-> IF col < t.col THEN t.text[t.row][col] ELSE BlankCell] \in CellRows
    BY DEF CellRows, Drafts, Terms, Symbols
  <2> QED BY <2>1 DEF Drafts, Terms
<1> HIDE DEF ended
<1>2. /\ next \in Terminals /\ next.col = 0 /\ next.follow = t.follow
      /\ t.follow => Visible(next, next.row)
  BY <1>1, AdvanceGoesOn
<1> HIDE DEF next
<1>3. last \in Terminals /\ last.col = 0 /\ last.follow = t.follow /\ last.head = next.row /\ last.top = next.top
  BY <1>2 DEF Terminals, Terms
<1>4. t.follow => TailSeen(last)
  BY <1>2, <1>3 DEF TailSeen, Visible
<1>5. Newline(t) = Render(last)
  BY DEF Newline, ended, next
<1> HIDE DEF last
<1>6. Render(last) \in Terminals /\ Faithful(Render(last)) /\ Like(Render(last), last)
  BY <1>3, RenderShows
<1> QED BY <1>3, <1>4, <1>5, <1>6 DEF Like, TailSeen, Visible

LEMMA PutcDraws ==
  ASSUME NEW t \in Terminals, NEW ch \in Symbols
  PROVE  /\ Putc(t, ch) \in Terminals /\ Faithful(Putc(t, ch)) /\ Putc(t, ch).follow = t.follow
         /\ t.follow => TailSeen(Putc(t, ch))
<1>1. t \in Drafts
  BY Sizes DEF Drafts, Terminals, Terms, Columns
<1>2. CASE ch = LineBreak
  BY <1>1, <1>2, NewlineDraws DEF Putc
<1>3. CASE ch # LineBreak
  <2> DEFINE put == [t EXCEPT !.text[t.row][t.col] = ch, !.col = t.col + 1]
  <2>1. put \in Drafts /\ put.follow = t.follow /\ put.col = t.col + 1
    <3> DEFINE cells == [t.text[t.row] EXCEPT ![t.col] = ch]
               text == [t.text EXCEPT ![t.row] = cells]
    <3>1. cells \in CellRows
      BY DEF Terminals, Terms, CellRows
    <3> HIDE DEF cells
    <3>2. text \in [BufRows -> CellRows]
      BY <3>1 DEF Terminals, Terms
    <3>3. put = [t EXCEPT !.text = text, !.col = t.col + 1]
      BY DEF text, cells, Terminals, Terms
    <3> HIDE DEF text
    <3>4. t.col + 1 \in 0..TextWidth
      BY Sizes DEF Terminals, Terms, Columns
    <3> HIDE DEF put
    <3> QED BY <3>2, <3>3, <3>4 DEF Drafts, Terminals, Terms
  <2>2. Putc(t, ch) = IF put.col >= TextWidth THEN Newline(put)
                      ELSE Render(Following([put EXCEPT !.head = put.row]))
    BY <1>3 DEF Putc, PutVisible
  <2>3. CASE put.col >= TextWidth
    <3> HIDE DEF put
    <3> QED BY <2>1, <2>2, <2>3, NewlineDraws
  <2>4. CASE ~(put.col >= TextWidth)
    <3> DEFINE last == [put EXCEPT !.head = put.row]
               f == Following(last)
    <3> HIDE DEF put
    <3>1. last \in Terminals /\ last.follow = t.follow /\ last.head = put.row /\ last.row = put.row
      BY <2>1, <2>4, Sizes DEF Drafts, Terminals, Terms, Columns
    <3> HIDE DEF last
    <3>2. /\ f \in Terminals /\ f.head = put.row /\ f.follow = t.follow
          /\ t.follow => Visible(f, put.row)
      BY <3>1, FollowingMoves
    <3> HIDE DEF f
    <3>3. Render(f) \in Terminals /\ Faithful(Render(f)) /\ Like(Render(f), f)
      BY <3>2, RenderShows
    <3>4. Putc(t, ch) = Render(f)
      BY <2>2, <2>4 DEF f, last
    <3> QED BY <3>2, <3>3, <3>4 DEF Like, TailSeen, Visible
  <2> QED BY <2>3, <2>4
<1> QED BY <1>2, <1>3

\* The least of a set of numbers, and induction, without a parameter that is an operator
LEMMA LeastOfSome ==
  ASSUME NEW S \in SUBSET Nat, S # {}
  PROVE  \E n \in S : \A m \in S : n <= m
<1>1. PICK n \in S : \A m \in S : <<m, n>> \notin OpToRel(<, Nat)
  BY NatLessThanWellFounded, WFMin, Zenon
<1>2. \A m \in S : ~(m < n)
  BY <1>1 DEF OpToRel
<1> QED BY <1>2

LEMMA Induction ==
  ASSUME NEW S \in SUBSET Nat, 0 \in S, \A n \in S : n + 1 \in S
  PROVE  S = Nat
<1>1. SUFFICES ASSUME Nat \ S # {} PROVE FALSE
  OBVIOUS
<1>2. PICK n \in Nat \ S : \A m \in Nat \ S : n <= m
  BY <1>1, LeastOfSome
<1>3. n - 1 \in S
  BY <1>2
<1> QED BY <1>2, <1>3

\* The terminals while the first n characters of a text are written
Writing(t, text, n, g) == g = [j \in 0..n |-> IF j = 0 THEN t ELSE Putc(g[j - 1], text[j])]

LEMMA WritingExists ==
  ASSUME NEW t, NEW text, Len(text) \in Nat
  PROVE  \E g : Writing(t, text, Len(text), g)
<1> DEFINE Some == {n \in Nat : \E g : Writing(t, text, n, g)}
<1>1. 0 \in Some
  <2> DEFINE g == [j \in 0..0 |-> t]
  <2>1. Writing(t, text, 0, g)
    BY DEF Writing
  <2> QED BY <2>1
<1>2. ASSUME NEW n \in Some PROVE n + 1 \in Some
  <2>1. PICK g : Writing(t, text, n, g)
    BY <1>2
  <2> DEFINE h == [j \in 0..n + 1 |-> IF j = n + 1 THEN Putc(g[n], text[n + 1]) ELSE g[j]]
  <2>2. n \in Nat
    OBVIOUS
  <2>3. h[0] = t
    BY <2>1, <2>2 DEF Writing
  <2>4. ASSUME NEW j \in 1..n + 1 PROVE h[j] = Putc(h[j - 1], text[j])
    <3>1. h[j - 1] = g[j - 1]
      BY <2>2
    <3>2. CASE j = n + 1
      BY <2>2, <3>1, <3>2
    <3>3. CASE j \in 1..n
      <4>1. h[j] = g[j]
        BY <2>2, <3>3
      <4>2. g[j] = Putc(g[j - 1], text[j])
        BY <2>1, <3>3 DEF Writing
      <4> QED BY <3>1, <4>1, <4>2
    <3> QED BY <2>2, <3>2, <3>3
  <2>5. h = [j \in 0..n + 1 |-> h[j]]
    OBVIOUS
  <2> HIDE DEF h
  <2>6. \A j \in 0..n + 1 : h[j] = IF j = 0 THEN t ELSE Putc(h[j - 1], text[j])
    BY <2>2, <2>3, <2>4
  <2>7. h = [j \in 0..n + 1 |-> IF j = 0 THEN t ELSE Putc(h[j - 1], text[j])]
    BY <2>5, <2>6
  <2>8. Writing(t, text, n + 1, h)
    BY <2>7 DEF Writing
  <2> QED BY <2>2, <2>8
<1>3. Some = Nat
  <2> HIDE DEF Some
  <2>1. Some \in SUBSET Nat
    BY DEF Some
  <2> QED BY <1>1, <1>2, <2>1, Induction
<1> QED BY <1>3

LEMMA WriteDraws ==
  ASSUME NEW t \in Terminals, Faithful(t), NEW text \in Seq(Symbols)
  PROVE  /\ Write(t, text) \in Terminals /\ Faithful(Write(t, text))
         /\ Write(t, text).follow = t.follow
         /\ t.follow /\ TailSeen(t) => TailSeen(Write(t, text))
<1> DEFINE written == CHOOSE g : Writing(t, text, Len(text), g)
           Right(s) == /\ s \in Terminals /\ Faithful(s) /\ s.follow = t.follow
                       /\ (t.follow /\ TailSeen(t)) => TailSeen(s)
           Some == {n \in Nat : n <= Len(text) => Right(written[n])}
<1>1. Len(text) \in Nat /\ \A n \in 1..Len(text) : text[n] \in Symbols
  OBVIOUS
<1>2. Writing(t, text, Len(text), written)
  BY <1>1, WritingExists
<1>3. Write(t, text) = written[Len(text)]
  BY DEF Write, Writing
<1> HIDE DEF written
<1>4. 0 \in Some
  <2>1. written[0] = t
    BY <1>1, <1>2 DEF Writing
  <2> QED BY <2>1
<1>5. ASSUME NEW n \in Some PROVE n + 1 \in Some
  <2>1. SUFFICES ASSUME n + 1 <= Len(text) PROVE Right(written[n + 1])
    OBVIOUS
  <2>2. Right(written[n]) /\ n + 1 \in 1..Len(text) /\ text[n + 1] \in Symbols
    BY <1>1, <2>1
  <2>3. written[n + 1] = Putc(written[n], text[n + 1])
    BY <1>1, <1>2, <2>2 DEF Writing
  <2>4. /\ Putc(written[n], text[n + 1]) \in Terminals /\ Faithful(Putc(written[n], text[n + 1]))
        /\ Putc(written[n], text[n + 1]).follow = written[n].follow
        /\ written[n].follow => TailSeen(Putc(written[n], text[n + 1]))
    BY <2>2, PutcDraws
  <2> QED BY <2>2, <2>3, <2>4
<1>6. Some = Nat
  <2> HIDE DEF Some
  <2>1. Some \in SUBSET Nat
    BY DEF Some
  <2> QED BY <1>4, <1>5, <2>1, Induction
<1>7. Right(written[Len(text)])
  BY <1>1, <1>6
<1> QED BY <1>3, <1>7

-----------------------------------------------------------------------------
\* The window and the cursor in it.

\* A terminal that shows its window, and what the movements of the window leave alone
Drawn(t) == t \in Terminals /\ Faithful(t)
Moved(s, t) == s.text = t.text /\ s.row = t.row /\ s.col = t.col /\ s.head = t.head

\* The window is drawn again at a row of its own.
LEMMA MovedWindow ==
  ASSUME NEW t \in Terminals, NEW top \in Tops, NEW follow \in BOOLEAN
  PROVE  LET u == Render([t EXCEPT !.top = top, !.follow = follow])
         IN  Drawn(u) /\ Moved(u, t) /\ u.top = top /\ u.follow = follow
<1> DEFINE s == [t EXCEPT !.top = top, !.follow = follow]
<1>1. /\ s \in Terminals /\ s.top = top /\ s.follow = follow
      /\ s.text = t.text /\ s.row = t.row /\ s.col = t.col /\ s.head = t.head
  BY DEF Terminals, Terms
<1> HIDE DEF s
<1>2. Render(s) \in Terminals /\ Faithful(Render(s)) /\ Like(Render(s), s)
  BY <1>1, RenderShows
<1> QED BY <1>1, <1>2 DEF Like, Drawn, Moved, s

LEMMA MovedTop ==
  ASSUME NEW t \in Terminals, NEW top \in Tops
  PROVE  LET u == Render([t EXCEPT !.top = top])
         IN  Drawn(u) /\ Moved(u, t) /\ u.top = top /\ u.follow = t.follow
<1> DEFINE s == [t EXCEPT !.top = top]
<1>1. /\ s \in Terminals /\ s.top = top /\ s.follow = t.follow
      /\ s.text = t.text /\ s.row = t.row /\ s.col = t.col /\ s.head = t.head
  BY DEF Terminals, Terms
<1> HIDE DEF s
<1>2. Render(s) \in Terminals /\ Faithful(Render(s)) /\ Like(Render(s), s)
  BY <1>1, RenderShows
<1> QED BY <1>1, <1>2 DEF Like, Drawn, Moved, s

LEMMA TailTops ==
  ASSUME NEW t \in Terminals
  PROVE  TailTop(t) \in Tops /\ t.head \in TailTop(t)..TailTop(t) + LastViewRow
  BY Sizes DEF TailTop, Tops, Terminals, Terms, BufRows

LEMMA RowIsVisible ==
  ASSUME NEW t, Drawn(t), NEW row \in BufRows
  PROVE  LET u == EnsureRowVisible(t, row)
         IN  Drawn(u) /\ Moved(u, t) /\ u.follow = t.follow /\ Visible(u, row)
<1> DEFINE u == EnsureRowVisible(t, row)
           At(top) == Render([t EXCEPT !.top = top])
<1>1. t \in Terminals /\ t.top \in Tops /\ t.follow \in BOOLEAN
  BY DEF Drawn, Terminals, Terms
<1>2. ASSUME NEW top \in Tops
      PROVE  /\ Drawn(At(top)) /\ Moved(At(top), t) /\ At(top).top = top
             /\ At(top).follow = t.follow
  BY <1>1, MovedTop
<1>3. u = IF row < t.top THEN At(row)
          ELSE IF ~Visible(t, row) THEN At(row - LastViewRow) ELSE t
  BY Sizes DEF EnsureRowVisible, AtMost, BufRows
<1> HIDE DEF At, u
<1>4. CASE row < t.top
  <2>1. row \in Tops
    BY <1>1, <1>4, Sizes DEF Tops, BufRows
  <2>2. u = At(row)
    BY <1>3, <1>4
  <2>3. Drawn(u) /\ Moved(u, t) /\ u.top = row /\ u.follow = t.follow
    BY <1>2, <2>1, <2>2
  <2>4. Visible(u, row)
    BY <2>1, <2>3, Sizes DEF Visible, Tops
  <2> QED BY <2>3, <2>4 DEF u
<1>5. CASE ~(row < t.top) /\ ~Visible(t, row)
  <2>1. row - LastViewRow \in Tops /\ row \in Int
    BY <1>1, <1>5, Sizes DEF Tops, BufRows, Visible
  <2>2. u = At(row - LastViewRow)
    BY <1>3, <1>5
  <2>3. Drawn(u) /\ Moved(u, t) /\ u.top = row - LastViewRow /\ u.follow = t.follow
    BY <1>2, <2>1, <2>2
  <2>4. Visible(u, row)
    BY <2>1, <2>3, Sizes DEF Visible, Tops
  <2> QED BY <2>3, <2>4 DEF u
<1>6. CASE ~(row < t.top) /\ Visible(t, row)
  BY <1>3, <1>6 DEF u, Moved
<1> QED BY <1>4, <1>5, <1>6

LEMMA TailIsFollowed ==
  ASSUME NEW t, Drawn(t)
  PROVE  LET u == FollowTail(t)
         IN  Drawn(u) /\ Moved(u, t) /\ u.follow /\ TailSeen(u)
<1> DEFINE u == FollowTail(t)
<1>1. t \in Terminals
  BY DEF Drawn
<1>2. TailTop(t) \in Tops /\ t.head \in TailTop(t)..TailTop(t) + LastViewRow
  BY <1>1, TailTops
<1>3. Drawn(u) /\ Moved(u, t) /\ u.top = TailTop(t) /\ u.follow = TRUE
  BY <1>1, <1>2, MovedWindow DEF FollowTail
<1> HIDE DEF u
<1>4. TailSeen(u)
  BY <1>2, <1>3 DEF TailSeen, Visible, Moved
<1> QED BY <1>3, <1>4 DEF u

LEMMA ScrollingMoves ==
  ASSUME NEW t, Drawn(t)
  PROVE  /\ Drawn(ScrollViewUp(t)) /\ Moved(ScrollViewUp(t), t)
         /\ Drawn(ScrollViewDown(t)) /\ Moved(ScrollViewDown(t), t)
<1>1. t \in Terminals /\ t.top \in Tops /\ t.follow \in BOOLEAN
  BY DEF Drawn, Terminals, Terms
<1>2. TailTop(t) \in Tops
  BY <1>1, TailTops
<1> DEFINE up == AtLeastZero(t.top - 1)
           top == IF t.top < TailTop(t) THEN t.top + 1 ELSE t.top
           follow == t.follow \/ top = TailTop(t)
<1>3. up \in Tops /\ top \in Tops
  BY <1>1, <1>2, Sizes DEF Tops, AtLeastZero
<1>4. ScrollViewUp(t) = Render([t EXCEPT !.top = up, !.follow = FALSE])
  BY DEF ScrollViewUp
<1>5. ScrollViewDown(t) = Render([t EXCEPT !.top = top, !.follow = follow])
  BY DEF ScrollViewDown
<1>6. follow \in BOOLEAN
  BY <1>1
<1> HIDE DEF up, top, follow
<1>7. Drawn(ScrollViewUp(t)) /\ Moved(ScrollViewUp(t), t)
  BY <1>1, <1>3, <1>4, MovedWindow
<1>8. Drawn(ScrollViewDown(t)) /\ Moved(ScrollViewDown(t), t)
  <2> DEFINE s == Render([t EXCEPT !.top = top, !.follow = follow])
  <2>1. Drawn(s) /\ Moved(s, t)
    BY <1>1, <1>3, <1>6, MovedWindow
  <2> QED BY <1>5, <2>1
<1> QED BY <1>7, <1>8

\* The cursor is put at a place of the window, and the rest stays.
LEMMA CursorIsSet ==
  ASSUME NEW t, Drawn(t), NEW row \in Nat, NEW col \in Nat
  PROVE  LET u == SetCursorPos(t, row, col)
         IN  /\ Drawn(u) /\ u.text = t.text /\ u.screen = t.screen
             /\ u.head = t.head /\ u.top = t.top /\ u.follow = t.follow
             /\ u.row = AtMost(t.top + AtMost(row, LastViewRow), LastBufRow)
             /\ u.col = AtMost(col, TextWidth - 1)
<1> DEFINE toRow == AtMost(t.top + AtMost(row, LastViewRow), LastBufRow)
           toCol == AtMost(col, TextWidth - 1)
           s == [t EXCEPT !.row = toRow, !.col = toCol]
           u == SyncCursor(s)
<1>1. t \in Terminals /\ Faithful(t) /\ t.top \in Tops
  BY DEF Drawn, Terminals, Terms
<1>2. toRow \in BufRows /\ toCol \in Columns
  BY <1>1, Sizes DEF AtMost, BufRows, Columns, Tops
<1>3. SetCursorPos(t, row, col) = u
  BY DEF SetCursorPos
<1>5. toRow = AtMost(t.top + AtMost(row, LastViewRow), LastBufRow) /\ toCol = AtMost(col, TextWidth - 1)
  OBVIOUS
<1> HIDE DEF toRow, toCol
<1>4. /\ s \in Terminals /\ s.text = t.text /\ s.screen = t.screen
      /\ s.head = t.head /\ s.top = t.top /\ s.follow = t.follow
      /\ s.row = toRow /\ s.col = toCol
  BY <1>1, <1>2 DEF Terminals, Terms
<1> HIDE DEF s
<1>6. /\ SyncCursor(s) \in Terminals /\ Like(SyncCursor(s), s)
      /\ SyncCursor(s).screen = s.screen
      /\ SyncCursor(s).shown = ShownCursor(SyncCursor(s))
  BY <1>4, SyncShows
<1>7. Window(u) = Window(t)
  BY <1>4, <1>6, SameWindow DEF Like
<1>8. Drawn(u)
  BY <1>1, <1>4, <1>6, <1>7 DEF Drawn, Faithful
<1> HIDE DEF u
<1>9. /\ u.text = t.text /\ u.screen = t.screen
      /\ u.head = t.head /\ u.top = t.top /\ u.follow = t.follow
      /\ u.row = toRow /\ u.col = toCol
  BY <1>4, <1>6 DEF Like, u
<1> QED BY <1>3, <1>5, <1>8, <1>9

-----------------------------------------------------------------------------
\* Cells of the scrollback and the line in them.

LEMMA Divided ==
  ASSUME NEW n \in Nat, NEW d \in Nat \ {0}
  PROVE  /\ n \div d \in Nat /\ n % d \in 0..d - 1
         /\ n = (n \div d) * d + (n % d)
OBVIOUS

LEMMA Products ==
  ASSUME NEW q \in Nat, NEW r \in Nat, NEW d \in Nat \ {0}
  PROVE  /\ q * d \in Nat /\ r * d \in Nat
         /\ q <= r => q * d <= r * d
         /\ q * d < r * d => q < r
         /\ (q + 1) * d = q * d + d
<1>1. q * d \in Nat /\ r * d \in Nat /\ (q + 1) * d = q * d + d
  OBVIOUS
<1>2. q <= r => q * d <= r * d
  OBVIOUS
<1>3. r <= q => r * d <= q * d
  OBVIOUS
<1> QED BY <1>1, <1>2, <1>3

\* Rows and columns are the places of the cells.
LEMMA CellIsInside ==
  ASSUME NEW row \in BufRows, NEW col \in Columns
  PROVE  CellOf(row, col) \in Nat /\ CellOf(row, col) < Cells
<1>1. row \in Nat /\ row + 1 \in Nat /\ row + 1 <= ScrollbackRows /\ TextWidth \in Nat \ {0}
      /\ col \in Nat /\ col < TextWidth /\ ScrollbackRows \in Nat
  BY Sizes DEF BufRows, Columns
<1>2. row * TextWidth \in Nat /\ (row + 1) * TextWidth = row * TextWidth + TextWidth
  BY <1>1, Products
<1>3. (row + 1) * TextWidth <= ScrollbackRows * TextWidth /\ ScrollbackRows * TextWidth \in Nat
      /\ (row + 1) * TextWidth \in Nat
  BY <1>1, Products
<1> DEFINE a == row * TextWidth
           b == (row + 1) * TextWidth
           c == ScrollbackRows * TextWidth
<1>4. /\ a \in Nat /\ b \in Nat /\ c \in Nat /\ b = a + TextWidth /\ b <= c
      /\ CellOf(row, col) = a + col /\ Cells = c
  BY <1>2, <1>3 DEF CellOf, Cells
<1> HIDE DEF a, b, c
<1> QED BY <1>1, <1>4

LEMMA PlaceOfCell ==
  ASSUME start \in Nat, NEW pos \in Nat, start + pos < Cells
  PROVE  /\ RowOf(pos) \in BufRows /\ ColOf(pos) \in Columns
         /\ CellOf(RowOf(pos), ColOf(pos)) = start + pos
<1> DEFINE n == start + pos
           q == n \div TextWidth
           r == n % TextWidth
<1>1. n \in Nat /\ TextWidth \in Nat \ {0} /\ ScrollbackRows \in Nat
  BY Sizes
<1>2. RowOf(pos) = q /\ ColOf(pos) = r
  BY DEF RowOf, ColOf
<1>3. q \in Nat /\ r \in 0..TextWidth - 1 /\ n = q * TextWidth + r
  <2> HIDE DEF n
  <2> QED BY <1>1, Divided
<1>4. n < Cells
  OBVIOUS
<1> HIDE DEF n, q, r
<1> DEFINE a == q * TextWidth
           c == ScrollbackRows * TextWidth
<1>5. a \in Nat /\ c \in Nat /\ n = a + r /\ n < c /\ (a < c => q < ScrollbackRows)
  BY <1>1, <1>3, <1>4, Products DEF Cells
<1>6. CellOf(q, r) = n
  BY <1>3 DEF CellOf
<1> HIDE DEF a, c
<1>7. a < c
  BY <1>3, <1>5
<1>8. q \in BufRows /\ r \in Columns
  BY <1>1, <1>3, <1>5, <1>7 DEF BufRows, Columns
<1> QED BY <1>2, <1>6, <1>8 DEF n

-----------------------------------------------------------------------------
LEMMA InputCellIsSymbol ==
  ASSUME start \in Nat, prevLen \in Nat, NEW t, NEW ls \in Seq(Symbols),
         NEW row \in BufRows, NEW col \in Columns, NEW before \in Symbols
  PROVE  InputCell(t, ls, row, col, before) \in Symbols
<1> DEFINE i == CellOf(row, col) - start
<1>1. i \in Int /\ Len(ls) \in Nat /\ BlankCell \in Symbols
  BY CellIsInside DEF Symbols
<1>2. ASSUME i \in 0..(IF prevLen > Len(ls) THEN prevLen ELSE Len(ls)) - 1, i < Len(ls)
      PROVE  ls[i + 1] \in Symbols
  <2> HIDE DEF i
  <2>1. i + 1 \in 1..Len(ls)
    BY <1>1, <1>2
  <2> QED BY <2>1
<1> QED BY <1>1, <1>2 DEF InputCell

\* The line is drawn in the scrollback and on the screen alike.
LEMMA RedrawShows ==
  ASSUME start \in Nat, prevLen \in Nat, NEW t, Drawn(t), NEW ls \in Seq(Symbols)
  PROVE  LET u == RedrawInput(t, ls)
         IN  /\ Drawn(u) /\ u.row = t.row /\ u.col = t.col /\ u.head = t.head /\ u.top = t.top
             /\ u.follow = t.follow
             /\ \A row \in BufRows, col \in Columns :
                  u.text[row][col] = InputCell(t, ls, row, col, t.text[row][col])
             /\ \A row \in ViewRows, col \in Columns :
                  u.screen[row][col] = InputCell(t, ls, t.top + row, col, t.screen[row][col])
<1> DEFINE text == [row \in BufRows |->
                     [col \in Columns |-> InputCell(t, ls, row, col, t.text[row][col])]]
           screen == [row \in ViewRows |->
                       [col \in Columns |-> InputCell(t, ls, t.top + row, col, t.screen[row][col])]]
           u == [t EXCEPT !.text = text, !.screen = screen]
<1>1. /\ t.text \in [BufRows -> CellRows] /\ t.screen \in [ViewRows -> CellRows]
      /\ t.top \in Tops /\ t \in Terminals /\ t.screen = Window(t) /\ t.shown = ShownCursor(t)
  BY DEF Drawn, Faithful, Terminals, Terms
<1>2. \A row \in ViewRows : t.top + row \in BufRows
  BY <1>1, Sizes DEF ViewRows, BufRows, Tops
<1>3. text \in [BufRows -> CellRows]
  BY <1>1, InputCellIsSymbol DEF CellRows
<1>4. screen \in [ViewRows -> CellRows]
  BY <1>1, <1>2, InputCellIsSymbol DEF CellRows
<1>5. screen = [row \in ViewRows |-> IF t.top + row \in BufRows THEN text[t.top + row] ELSE BlankRow]
  <2>1. ASSUME NEW row \in ViewRows PROVE t.screen[row] = t.text[t.top + row]
    BY <1>1, <1>2 DEF Window
  <2> QED BY <1>2, <2>1
<1>6. RedrawInput(t, ls) = u
  BY DEF RedrawInput, Terminals, Terms
<1>7. /\ \A row \in BufRows, col \in Columns :
           text[row][col] = InputCell(t, ls, row, col, t.text[row][col])
      /\ \A row \in ViewRows, col \in Columns :
           screen[row][col] = InputCell(t, ls, t.top + row, col, t.screen[row][col])
  OBVIOUS
<1> HIDE DEF text, screen
<1>8. /\ u \in Terminals /\ u.text = text /\ u.screen = screen /\ u.row = t.row /\ u.col = t.col
      /\ u.head = t.head /\ u.top = t.top /\ u.follow = t.follow /\ u.shown = t.shown
  BY <1>1, <1>3, <1>4 DEF Terminals, Terms
<1> HIDE DEF u
<1>9. u.screen = Window(u) /\ u.shown = ShownCursor(u)
  BY <1>1, <1>5, <1>8 DEF Window, ShownCursor
<1> QED BY <1>6, <1>7, <1>8, <1>9 DEF Drawn, Faithful

\* The cursor goes to a place of the line that is visible.
LEMMA CursorIsPlaced ==
  ASSUME start \in Nat, NEW pos \in Nat, start + pos < Cells,
         NEW t, Drawn(t), Visible(t, RowOf(pos))
  PROVE  LET u == PlaceCursor(t, pos)
         IN  /\ Drawn(u) /\ u.text = t.text /\ u.screen = t.screen
             /\ u.head = t.head /\ u.top = t.top /\ u.follow = t.follow
             /\ u.row = RowOf(pos) /\ u.col = ColOf(pos)
<1> DEFINE row == RowOf(pos) - t.top
           col == ColOf(pos)
<1>1. RowOf(pos) \in BufRows /\ ColOf(pos) \in Columns /\ t.top \in Tops
  BY PlaceOfCell DEF Drawn, Terminals, Terms
<1>2. /\ row \in Nat /\ col \in Nat
      /\ AtMost(t.top + AtMost(row, LastViewRow), LastBufRow) = RowOf(pos)
      /\ AtMost(col, TextWidth - 1) = ColOf(pos)
  BY <1>1, Sizes DEF Visible, BufRows, Columns, Tops, AtMost
<1>3. PlaceCursor(t, pos) = SetCursorPos(t, row, col)
  BY DEF PlaceCursor
<1> HIDE DEF row, col
<1>4. LET u == SetCursorPos(t, row, col)
      IN  /\ Drawn(u) /\ u.text = t.text /\ u.screen = t.screen
          /\ u.head = t.head /\ u.top = t.top /\ u.follow = t.follow
          /\ u.row = AtMost(t.top + AtMost(row, LastViewRow), LastBufRow)
          /\ u.col = AtMost(col, TextWidth - 1)
  BY <1>2, CursorIsSet
<1> QED BY <1>2, <1>3, <1>4

LEMMA LineIsShown ==
  ASSUME start \in Nat, prevLen \in Nat, NEW ls \in Seq(Symbols), NEW pos \in 0..Len(ls),
         start + Len(ls) < Cells, NEW t, Drawn(t)
  PROVE  LET u == Show(t, ls, pos)
         IN  /\ Drawn(u) /\ u.head = t.head /\ u.follow = t.follow
             /\ CellOf(u.row, u.col) = start + pos
             /\ Visible(u, u.row) /\ ShowsLine(u, ls)
             /\ \A row \in BufRows, col \in Columns :
                  BeforeInput(row, col) => u.text[row][col] = t.text[row][col]
<1> DEFINE e == EnsureRowVisible(t, RowOf(pos))
           d == RedrawInput(e, ls)
           u == PlaceCursor(d, pos)
<1>1. pos \in Nat /\ start + pos < Cells /\ Len(ls) \in Nat
  <2>1. Cells \in Int
    BY Sizes, Products DEF Cells
  <2> QED BY <2>1
<1>2. RowOf(pos) \in BufRows /\ CellOf(RowOf(pos), ColOf(pos)) = start + pos
  BY <1>1, PlaceOfCell
<1>3. Drawn(e) /\ Moved(e, t) /\ e.follow = t.follow /\ Visible(e, RowOf(pos))
  BY <1>2, RowIsVisible
<1>4. Show(t, ls, pos) = u
  BY DEF Show
<1> HIDE DEF e
<1>5. /\ Drawn(d) /\ d.row = e.row /\ d.col = e.col /\ d.head = e.head /\ d.top = e.top
      /\ d.follow = e.follow
      /\ \A row \in BufRows, col \in Columns :
           d.text[row][col] = InputCell(e, ls, row, col, e.text[row][col])
      /\ \A row \in ViewRows, col \in Columns :
           d.screen[row][col] = InputCell(e, ls, e.top + row, col, e.screen[row][col])
  BY <1>3, RedrawShows
<1> HIDE DEF d
<1>6. Visible(d, RowOf(pos))
  BY <1>3, <1>5 DEF Visible
<1>7. /\ Drawn(u) /\ u.text = d.text /\ u.screen = d.screen
      /\ u.head = d.head /\ u.top = d.top /\ u.follow = d.follow
      /\ u.row = RowOf(pos) /\ u.col = ColOf(pos)
  BY <1>1, <1>5, <1>6, CursorIsPlaced
<1> HIDE DEF u
<1>8. Visible(u, u.row) /\ CellOf(u.row, u.col) = start + pos
  BY <1>2, <1>6, <1>7 DEF Visible
<1>9. ASSUME NEW row \in BufRows, NEW col \in Columns, BeforeInput(row, col)
      PROVE  u.text[row][col] = t.text[row][col]
  <2>1. CellOf(row, col) \in Nat /\ CellOf(row, col) < start
    BY <1>9, CellIsInside DEF BeforeInput
  <2>2. ~(CellOf(row, col) - start \in 0..(IF prevLen > Len(ls) THEN prevLen ELSE Len(ls)) - 1)
    BY <1>1, <2>1
  <2>3. InputCell(e, ls, row, col, e.text[row][col]) = e.text[row][col]
    BY <2>2 DEF InputCell
  <2> QED BY <1>3, <1>5, <1>7, <2>3 DEF Moved
<1>10. ASSUME NEW p \in 0..Len(ls) - 1, Visible(u, RowOf(p))
       PROVE  u.screen[RowOf(p) - u.top][ColOf(p)] = ls[p + 1]
  <2>1. p \in Nat /\ start + p < Cells
    <3>1. Cells \in Int
      BY Sizes, Products DEF Cells
    <3> QED BY <1>1, <3>1
  <2>2. RowOf(p) \in BufRows /\ ColOf(p) \in Columns /\ CellOf(RowOf(p), ColOf(p)) = start + p
    BY <2>1, PlaceOfCell
  <2>3. e.top \in Tops /\ u.top = e.top /\ Visible(e, RowOf(p))
    BY <1>3, <1>5, <1>7, <1>10 DEF Drawn, Terminals, Terms, Visible
  <2> DEFINE row == RowOf(p) - e.top
             col == ColOf(p)
  <2>4. row \in ViewRows /\ e.top + row = RowOf(p)
    BY <2>2, <2>3, Sizes DEF Visible, ViewRows, BufRows, Tops
  <2>5. CellOf(RowOf(p), col) - start = p
    BY <2>1, <2>2
  <2> HIDE DEF row, col
  <2>6. ~(p \notin 0..(IF prevLen > Len(ls) THEN prevLen ELSE Len(ls)) - 1) /\ p < Len(ls)
    BY <1>1, <2>1
  <2>7. InputCell(e, ls, RowOf(p), col, e.screen[row][col]) = ls[p + 1]
    BY <2>3, <2>5, <2>6 DEF InputCell
  <2>8. d.screen[row][col] = ls[p + 1]
    BY <1>5, <2>2, <2>4, <2>7 DEF col
  <2> QED BY <1>7, <2>3, <2>8 DEF row, col
<1>11. ShowsLine(u, ls)
  BY <1>10 DEF ShowsLine
<1> QED BY <1>3, <1>4, <1>5, <1>7, <1>8, <1>9, <1>11 DEF Moved

\* Another task draws a character in the window.
LEMMA PutIsShown ==
  ASSUME NEW t, Drawn(t), NEW row \in ViewRows, NEW col \in Columns, NEW ch \in Symbols
  PROVE  LET u == PutAt(t, row, col, ch)
         IN  /\ Drawn(u) /\ u.row = t.row /\ u.col = t.col /\ u.head = t.head /\ u.top = t.top
             /\ u.follow = t.follow
<1> DEFINE put(cells) == [cells EXCEPT ![col] = ch]
           text == [t.text EXCEPT ![t.top + row] = put(t.text[t.top + row])]
           screen == [t.screen EXCEPT ![row] = put(t.screen[row])]
           u == [t EXCEPT !.text = text, !.screen = screen]
<1>1. /\ t.text \in [BufRows -> CellRows] /\ t.screen \in [ViewRows -> CellRows]
      /\ t.top \in Tops /\ t \in Terminals /\ t.screen = Window(t) /\ t.shown = ShownCursor(t)
  BY DEF Drawn, Faithful, Terminals, Terms
<1>2. \A r \in ViewRows : t.top + r \in BufRows
  BY <1>1, Sizes DEF ViewRows, BufRows, Tops
<1>3. PutAt(t, row, col, ch) = u
  BY <1>1, <1>2 DEF PutAt, Terminals, Terms
<1>4. \A cells \in CellRows : put(cells) \in CellRows
  BY DEF CellRows
<1>5. \A r \in ViewRows : t.screen[r] = t.text[t.top + r]
  BY <1>1, <1>2 DEF Window
<1> HIDE DEF put
<1>6. text \in [BufRows -> CellRows] /\ screen \in [ViewRows -> CellRows]
  BY <1>1, <1>2, <1>4
<1>7. \A r \in ViewRows : screen[r] = text[t.top + r]
  <2> TAKE r \in ViewRows
  <2>1. t.top \in Int /\ row \in Int /\ r \in Int
    BY <1>1 DEF ViewRows, Tops
  <2>2. t.top + r = t.top + row <=> r = row
    BY <2>1
  <2> QED BY <1>1, <1>2, <1>5, <2>2
<1> HIDE DEF text, screen
<1>8. screen = [r \in ViewRows |-> IF t.top + r \in BufRows THEN text[t.top + r] ELSE BlankRow]
  BY <1>2, <1>6, <1>7
<1>9. /\ u \in Terminals /\ u.text = text /\ u.screen = screen /\ u.row = t.row /\ u.col = t.col
      /\ u.head = t.head /\ u.top = t.top /\ u.follow = t.follow /\ u.shown = t.shown
  BY <1>1, <1>6 DEF Terminals, Terms
<1> HIDE DEF u
<1>10. u.screen = Window(u) /\ u.shown = ShownCursor(u)
  BY <1>1, <1>8, <1>9 DEF Window, ShownCursor
<1> QED BY <1>3, <1>9, <1>10 DEF Drawn, Faithful

-----------------------------------------------------------------------------
\* The line and its buffer.

LEMMA PartIsSeq ==
  ASSUME NEW S, NEW s \in Seq(S), NEW a \in 1..Len(s) + 1, NEW b \in 0..Len(s)
  PROVE  /\ SubSeq(s, a, b) \in Seq(S)
         /\ Len(SubSeq(s, a, b)) = IF a <= b THEN b - a + 1 ELSE 0
         /\ \A i \in 1..Len(SubSeq(s, a, b)) : SubSeq(s, a, b)[i] = s[a + i - 1]
BY SubSeqProperties

LEMMA RemovedIsSeq ==
  ASSUME NEW S, NEW s \in Seq(S), NEW n \in 1..Len(s)
  PROVE  RemoveAt(s, n) \in Seq(S) /\ Len(RemoveAt(s, n)) = Len(s) - 1
<1> DEFINE left == SubSeq(s, 1, n - 1)
           right == SubSeq(s, n + 1, Len(s))
<1>1. left \in Seq(S) /\ Len(left) = n - 1
  BY PartIsSeq
<1>2. right \in Seq(S) /\ Len(right) = Len(s) - n
  BY PartIsSeq
<1>3. RemoveAt(s, n) = left \o right
  BY DEF RemoveAt
<1> HIDE DEF left, right
<1>4. left \o right \in Seq(S) /\ Len(left \o right) = Len(left) + Len(right)
  BY <1>1, <1>2, ConcatProperties
<1> QED BY <1>1, <1>2, <1>3, <1>4

LEMMA InsertedIsSeq ==
  ASSUME NEW S, NEW s \in Seq(S), NEW n \in 1..Len(s) + 1, NEW e \in S
  PROVE  InsertAt(s, n, e) \in Seq(S) /\ Len(InsertAt(s, n, e)) = Len(s) + 1
<1> DEFINE left == SubSeq(s, 1, n - 1)
           right == SubSeq(s, n, Len(s))
           front == left \o <<e>>
<1>1. left \in Seq(S) /\ Len(left) = n - 1
  BY PartIsSeq
<1>2. right \in Seq(S) /\ Len(right) = Len(s) + 1 - n
  BY PartIsSeq
<1>3. InsertAt(s, n, e) = front \o right
  BY DEF InsertAt
<1> HIDE DEF left, right
<1>4. front \in Seq(S) /\ Len(front) = n
  BY <1>1
<1> HIDE DEF front
<1>5. front \o right \in Seq(S) /\ Len(front \o right) = Len(front) + Len(right)
  BY <1>2, <1>4, ConcatProperties
<1> QED BY <1>2, <1>3, <1>4, <1>5

\* The sizes of the buffer, doubled up to n times
Doubling(size, n, g) == g = [k \in 0..n |-> IF k = 0 THEN size ELSE 2 * g[k - 1]]

LEMMA DoublingExists ==
  ASSUME NEW size, NEW last \in Nat
  PROVE  \E g : Doubling(size, last, g)
<1> DEFINE Some == {n \in Nat : \E g : Doubling(size, n, g)}
<1>1. 0 \in Some
  <2> DEFINE g == [k \in 0..0 |-> size]
  <2>1. Doubling(size, 0, g)
    BY DEF Doubling
  <2> QED BY <2>1
<1>2. ASSUME NEW n \in Some PROVE n + 1 \in Some
  <2>1. PICK g : Doubling(size, n, g)
    BY <1>2
  <2>2. n \in Nat
    OBVIOUS
  <2> DEFINE h == [k \in 0..n + 1 |-> IF k = n + 1 THEN 2 * g[n] ELSE g[k]]
  <2>3. h[0] = size
    BY <2>1, <2>2 DEF Doubling
  <2>4. ASSUME NEW k \in 1..n + 1 PROVE h[k] = 2 * h[k - 1]
    <3>1. h[k - 1] = g[k - 1]
      BY <2>2
    <3>2. CASE k = n + 1
      BY <2>2, <3>1, <3>2
    <3>3. CASE k \in 1..n
      <4>1. h[k] = g[k]
        BY <2>2, <3>3
      <4>2. g[k] = 2 * g[k - 1]
        BY <2>1, <3>3 DEF Doubling
      <4> QED BY <3>1, <4>1, <4>2
    <3> QED BY <2>2, <3>2, <3>3
  <2>5. h = [k \in 0..n + 1 |-> h[k]]
    OBVIOUS
  <2> HIDE DEF h
  <2>6. \A k \in 0..n + 1 : h[k] = IF k = 0 THEN size ELSE 2 * h[k - 1]
    BY <2>2, <2>3, <2>4
  <2>7. h = [k \in 0..n + 1 |-> IF k = 0 THEN size ELSE 2 * h[k - 1]]
    BY <2>5, <2>6
  <2>8. Doubling(size, n + 1, h)
    BY <2>7 DEF Doubling
  <2> QED BY <2>2, <2>8
<1>3. Some = Nat
  <2> HIDE DEF Some
  <2>1. Some \in SUBSET Nat
    BY DEF Some
  <2> QED BY <1>1, <1>2, <2>1, Induction
<1> QED BY <1>3

\* A buffer that is doubled as often as it takes holds the line.
LEMMA RoomIsEnough ==
  ASSUME NEW n \in Nat, room \in Nat \ {0}
  PROVE  RoomFor(n) \in Nat /\ RoomFor(n) > n + 2
<1> DEFINE last == n + 2
           doubled == CHOOSE g : Doubling(room, last, g)
           Enough == {k \in 0..last : doubled[k] > last}
           Large == {k \in Nat : k <= last => doubled[k] \in Nat /\ doubled[k] >= room + k}
<1>1. last \in Nat
  OBVIOUS
<1>2. Doubling(room, last, doubled)
  <2>1. \E g : Doubling(room, last, g)
    BY <1>1, DoublingExists
  <2> QED BY <2>1
<1>5. RoomFor(n) = doubled[Min(Enough)]
  BY DEF RoomFor, Doubling
<1> HIDE DEF doubled
<1>3. doubled[0] = room /\ \A k \in 1..last : doubled[k] = 2 * doubled[k - 1]
  BY <1>1, <1>2 DEF Doubling
<1>4. \A k \in 0..last : doubled[k] \in Nat /\ doubled[k] >= room + k
  <2>1. 0 \in Large
    BY <1>3
  <2>2. ASSUME NEW k \in Large PROVE k + 1 \in Large
    <3>1. SUFFICES ASSUME k + 1 <= last
                   PROVE  doubled[k + 1] \in Nat /\ doubled[k + 1] >= room + (k + 1)
      OBVIOUS
    <3>2. k + 1 \in 1..last /\ (k + 1) - 1 = k /\ doubled[k] \in Nat /\ doubled[k] >= room + k
      BY <1>1, <3>1
    <3>3. doubled[k + 1] = 2 * doubled[k]
      BY <1>3, <3>2
    <3> HIDE DEF last
    <3> QED BY <3>2, <3>3
  <2>3. Large = Nat
    <3> HIDE DEF Large
    <3>1. Large \in SUBSET Nat
      BY DEF Large
    <3> QED BY <2>1, <2>2, <3>1, Induction
  <2> QED BY <2>3
<1>6. last \in Enough
  BY <1>1, <1>4
<1>7. \E k \in Enough : \A m \in Enough : k <= m
  <2>1. Enough \in SUBSET Nat /\ Enough # {}
    BY <1>6
  <2> HIDE DEF Enough
  <2> QED BY <2>1, LeastOfSome
<1>8. Min(Enough) \in Enough
  <2> HIDE DEF Enough
  <2> QED BY <1>7 DEF Min
<1>9. doubled[Min(Enough)] > last /\ doubled[Min(Enough)] \in Nat
  BY <1>4, <1>8
<1> QED BY <1>5, <1>9

-----------------------------------------------------------------------------
\* The inductive invariant.

LineKept ==
  /\ line \in Seq(Chars) /\ cur \in 0..Len(line)
  /\ start \in Nat /\ prevLen \in Nat /\ room \in Nat
  /\ pc = "reading" => Len(line) + 1 < room /\ start + Len(line) < Cells

HistoryKept ==
  /\ history \in Seq(Seq(Chars)) /\ Len(history) <= HistoryMax
  /\ historyIndex \in 0..Len(history)

\* What a command starts from: the user does not scroll while it runs.
TailKept == pc = "running" => term.follow /\ TailSeen(term)

Kept ==
  /\ pc \in {"prompt", "reading", "running"} /\ focused \in BOOLEAN /\ event \in BOOLEAN
  /\ drawnOver \in BOOLEAN
  /\ Drawn(term) /\ TailKept
  /\ LineKept /\ HistoryKept
  /\ Reading /\ ~drawnOver => CellOf(term.row, term.col) = start + cur

LEMMA CharsAreSymbols == Chars \subseteq Symbols /\ Seq(Chars) \subseteq Seq(Symbols)
  BY DEF Symbols

LEMMA CellsAreMany == Cells \in Nat /\ Cells > 0
<1>1. TextWidth * ScrollbackRows \in Nat
  BY Sizes
<1>2. 0 \in BufRows /\ 0 \in Columns
  BY Sizes DEF BufRows, Columns
<1>3. CellOf(0, 0) \in Nat /\ CellOf(0, 0) < Cells
  BY <1>2, CellIsInside
<1>4. Cells \in Nat
  BY Sizes, Products DEF Cells
<1> QED BY <1>3, <1>4

-----------------------------------------------------------------------------
\* What a key leaves behind.

PrintedStays ==
  \A row \in BufRows, col \in Columns :
    BeforeInput(row, col) => term'.text[row][col] = term.text[row][col]

\* The line fits and is drawn, and what is printed before it stays.
KeyDone ==
  /\ Drawn(term') /\ PrintedStays
  /\ line' \in Seq(Chars) /\ cur' \in 0..Len(line') /\ prevLen' \in Nat /\ room' \in Nat
  /\ Len(line') + 1 < room' /\ start + Len(line') < Cells
  /\ drawnOver' \in BOOLEAN
  /\ ~drawnOver' => CellOf(term'.row, term'.col) = start + cur'
  /\ historyIndex' \in 0..Len(history)
  /\ Unmoved

\* The change of the line is seen.
ChangeShown == Visible(term', term'.row) /\ ShowsLine(term', line')

LEMMA EditIsDone ==
  ASSUME Kept, Reading, NEW t, Drawn(t), t.text = term.text,
         NEW ls \in Seq(Chars), NEW pos \in 0..Len(ls), start + Len(ls) < Cells,
         Edited(t, ls, pos), Unmoved,
         room' \in Nat, Len(ls) + 1 < room', historyIndex' \in 0..Len(history)
  PROVE  KeyDone /\ ChangeShown
<1> DEFINE u == Show(t, ls, pos)
<1>1. start \in Nat /\ prevLen \in Nat /\ ls \in Seq(Symbols)
  BY CharsAreSymbols DEF Kept, LineKept
<1>2. /\ Drawn(u) /\ u.head = t.head /\ u.follow = t.follow
      /\ CellOf(u.row, u.col) = start + pos
      /\ Visible(u, u.row) /\ ShowsLine(u, ls)
      /\ \A row \in BufRows, col \in Columns :
           BeforeInput(row, col) => u.text[row][col] = t.text[row][col]
  BY <1>1, LineIsShown
<1>3. term' = u /\ line' = ls /\ cur' = pos /\ prevLen' = Len(ls) /\ drawnOver' = FALSE
  BY DEF Edited
<1> HIDE DEF u
<1>4. Len(ls) \in Nat
  OBVIOUS
<1>5. PrintedStays
  BY <1>2, <1>3 DEF PrintedStays
<1>6. ChangeShown
  BY <1>2, <1>3 DEF ChangeShown
<1> QED BY <1>2, <1>3, <1>4, <1>5, <1>6 DEF KeyDone

LEMMA KeyKeeps ==
  ASSUME Kept, Reading, KeyDone
  PROVE  Kept'
<1>1. /\ pc' = pc /\ pc = "reading" /\ start' = start /\ history' = history
      /\ focused' = focused /\ event' = event
  BY DEF KeyDone, Unmoved, Reading
<1>2. LineKept'
  BY <1>1 DEF Kept, LineKept, KeyDone, Cells
<1>3. HistoryKept'
  BY <1>1 DEF Kept, HistoryKept, KeyDone
<1>4. TailKept'
  BY <1>1 DEF TailKept
<1>5. Drawn(term)'
  BY DEF KeyDone, Drawn, Faithful, Window, ShownCursor
<1>6. (Reading /\ ~drawnOver => CellOf(term.row, term.col) = start + cur)'
  BY <1>1 DEF KeyDone, CellOf
<1>7. drawnOver' \in BOOLEAN
  BY DEF KeyDone
<1> QED BY <1>1, <1>2, <1>3, <1>4, <1>5, <1>6, <1>7 DEF Kept

\* What a line that is being read starts from
LEMMA ReadingHas ==
  ASSUME Kept, Reading
  PROVE  /\ Drawn(term) /\ line \in Seq(Chars) /\ Len(line) \in Nat /\ cur \in 0..Len(line)
         /\ start \in Nat /\ room \in Nat /\ Len(line) + 1 < room /\ start + Len(line) < Cells
         /\ Cells \in Nat /\ Capacity = Cells - start
         /\ history \in Seq(Seq(Chars)) /\ historyIndex \in 0..Len(history)
         /\ Len(history) \in Nat /\ prevLen \in Nat
  BY CellsAreMany DEF Kept, Reading, LineKept, HistoryKept, Capacity

LEMMA TailedIsDrawn ==
  ASSUME NEW t, Drawn(term)
  PROVE  Drawn(Tailed) /\ Tailed.text = term.text /\ Tailed.follow
  BY TailIsFollowed DEF Tailed, Moved

LEMMA ScrollIsDone ==
  ASSUME Kept, PageUp \/ PageDown
  PROVE  KeyDone
<1>1. /\ Reading /\ UNCHANGED <<readVars, pc, history, focused, event>>
      /\ (term' = ScrollViewUp(term)) \/ (term' = ScrollViewDown(term))
  BY DEF PageUp, PageDown
<1>2. Drawn(term') /\ Moved(term', term)
  BY <1>1, ReadingHas, ScrollingMoves
<1>3. PrintedStays
  BY <1>2 DEF PrintedStays, Moved
<1>4. drawnOver' = drawnOver /\ drawnOver \in BOOLEAN
  BY <1>1 DEF readVars, Kept
<1>5. ~drawnOver' => CellOf(term'.row, term'.col) = start + cur
  BY <1>1, <1>2, <1>4 DEF Moved, Kept
<1> QED BY <1>1, <1>2, <1>3, <1>4, <1>5, ReadingHas DEF KeyDone, readVars, Unmoved

LEMMA MoveIsDone ==
  ASSUME Kept, Move
  PROVE  KeyDone
<1>1. Reading /\ Unmoved /\ room' = room /\ historyIndex' = historyIndex
  BY DEF Move
<1>2. PICK pos \in {AtLeastZero(cur - 1), AtMost(cur + 1, Len(line)), cur} :
        Edited(term, line, pos)
  BY DEF Move
<1>3. pos \in 0..Len(line)
  BY <1>1, ReadingHas DEF AtLeastZero, AtMost
<1> QED BY <1>1, <1>2, <1>3, ReadingHas, EditIsDone

LEMMA DeleteIsDone ==
  ASSUME Kept, Delete
  PROVE  KeyDone /\ ChangeShown
<1> DEFINE ls == IF cur < Len(line) THEN RemoveAt(line, cur + 1) ELSE line
<1>1. /\ Reading /\ Unmoved /\ room' = room /\ historyIndex' = historyIndex
      /\ Edited(Tailed, ls, cur)
  BY DEF Delete
<1>2. ls \in Seq(Chars) /\ Len(ls) \in Nat /\ Len(ls) <= Len(line) /\ cur <= Len(ls)
  <2>1. CASE cur < Len(line)
    <3>1. cur + 1 \in 1..Len(line)
      BY <1>1, <2>1, ReadingHas
    <3> QED BY <1>1, <2>1, <3>1, RemovedIsSeq, ReadingHas
  <2>2. CASE ~(cur < Len(line))
    BY <1>1, <2>2, ReadingHas
  <2> QED BY <2>1, <2>2
<1> HIDE DEF ls
<1>3. Drawn(Tailed) /\ Tailed.text = term.text
  BY <1>1, ReadingHas, TailedIsDrawn
<1>4. /\ cur \in 0..Len(ls) /\ start + Len(ls) < Cells /\ room' \in Nat /\ Len(ls) + 1 < room'
      /\ historyIndex' \in 0..Len(history)
  BY <1>1, <1>2, ReadingHas
<1> QED BY <1>1, <1>2, <1>3, <1>4, EditIsDone

LEMMA BackspaceIsDone ==
  ASSUME Kept, Backspace
  PROVE  KeyDone /\ ChangeShown
<1> DEFINE ls == IF cur > 0 THEN RemoveAt(line, cur) ELSE line
           pos == IF cur > 0 THEN cur - 1 ELSE cur
<1>1. /\ Reading /\ Unmoved /\ room' = room /\ historyIndex' = historyIndex
      /\ Edited(Tailed, ls, pos)
  BY DEF Backspace
<1>2. ls \in Seq(Chars) /\ Len(ls) \in Nat /\ Len(ls) <= Len(line) /\ pos \in 0..Len(ls)
  <2>1. CASE cur > 0
    <3>1. cur \in 1..Len(line)
      BY <1>1, <2>1, ReadingHas
    <3> QED BY <1>1, <2>1, <3>1, RemovedIsSeq, ReadingHas
  <2>2. CASE ~(cur > 0)
    BY <1>1, <2>2, ReadingHas
  <2> QED BY <2>1, <2>2
<1> HIDE DEF ls, pos
<1>3. Drawn(Tailed) /\ Tailed.text = term.text
  BY <1>1, ReadingHas, TailedIsDrawn
<1>4. /\ start + Len(ls) < Cells /\ room' \in Nat /\ Len(ls) + 1 < room'
      /\ historyIndex' \in 0..Len(history)
  BY <1>1, <1>2, ReadingHas
<1> QED BY <1>1, <1>2, <1>3, <1>4, EditIsDone

LEMMA TypeIsDone ==
  ASSUME Kept, NEW ch \in Chars, TypeChar(ch)
  PROVE  KeyDone /\ ChangeShown
<1>1. /\ Reading /\ Unmoved /\ historyIndex' = historyIndex
      /\ room' \in IF ~Full /\ Tight(Len(line)) THEN {room, 2 * room} ELSE {room}
  BY DEF TypeChar
<1>2. Drawn(Tailed) /\ Tailed.text = term.text
  BY <1>1, ReadingHas, TailedIsDrawn
<1>3. room' \in Nat /\ room' >= room
  BY <1>1, ReadingHas
<1>4. CASE Full \/ (Tight(Len(line)) /\ room' = room)
  <2>1. Edited(Tailed, line, cur)
    BY <1>4 DEF TypeChar
  <2>2. Len(line) + 1 < room' /\ historyIndex' \in 0..Len(history)
    BY <1>1, <1>3, ReadingHas
  <2> QED BY <1>1, <1>2, <1>3, <2>1, <2>2, ReadingHas, EditIsDone
<1>5. CASE ~(Full \/ (Tight(Len(line)) /\ room' = room))
  <2> DEFINE ls == InsertAt(line, cur + 1, ch)
             pos == cur + 1
  <2>1. Edited(Tailed, ls, pos)
    BY <1>5 DEF TypeChar
  <2>2. cur + 1 \in 1..Len(line) + 1
    BY <1>1, ReadingHas
  <2>3. ls \in Seq(Chars) /\ Len(ls) = Len(line) + 1
    BY <1>1, <2>2, InsertedIsSeq, ReadingHas
  <2> HIDE DEF ls
  <2>4. pos \in 0..Len(ls) /\ historyIndex' \in 0..Len(history)
    BY <1>1, <2>3, ReadingHas
  <2> HIDE DEF pos
  <2>5. start + Len(ls) < Cells
    BY <1>1, <1>5, <2>3, ReadingHas DEF Full
  <2>6. Len(ls) + 1 < room'
    BY <1>1, <1>5, <2>3, ReadingHas DEF Tight
  <2> QED BY <1>1, <1>2, <1>3, <2>1, <2>3, <2>4, <2>5, <2>6, EditIsDone
<1> QED BY <1>4, <1>5

\* An entry of the history is cut to what the screen holds.
LEMMA EntryIsDone ==
  ASSUME Kept, Reading, Unmoved, NEW entry \in Seq(Chars), LoadEntry(entry),
         historyIndex' \in 0..Len(history)
  PROVE  KeyDone
<1> DEFINE n == IF Len(entry) >= Capacity THEN Capacity - 1 ELSE Len(entry)
           ls == SubSeq(entry, 1, n)
<1>1. \/ Edited(term, ls, n) /\ room' = RoomFor(n)
      \/ Edited(term, line, cur) /\ room' = room
  BY DEF LoadEntry
<1>2. CASE Edited(term, ls, n) /\ room' = RoomFor(n)
  <2>1. n \in Nat /\ n <= Len(entry) /\ start + n < Cells /\ Len(entry) \in Nat
    BY ReadingHas
  <2> HIDE DEF n
  <2>2. ls \in Seq(Chars) /\ Len(ls) = n
    BY <2>1, PartIsSeq
  <2> HIDE DEF ls
  <2>3. room \in Nat \ {0}
    BY ReadingHas
  <2>4. room' \in Nat /\ room' > n + 2
    BY <1>2, <2>1, <2>3, RoomIsEnough
  <2>5. n \in 0..Len(ls) /\ Len(ls) + 1 < room' /\ start + Len(ls) < Cells
    BY <2>1, <2>2, <2>4
  <2> QED BY <1>2, <2>2, <2>4, <2>5, ReadingHas, EditIsDone
<1>3. CASE Edited(term, line, cur) /\ room' = room
  <2> HIDE DEF ls, n
  <2>1. room' \in Nat /\ Len(line) + 1 < room'
    BY <1>3, ReadingHas
  <2> QED BY <1>3, <2>1, ReadingHas, EditIsDone
<1> QED BY <1>1, <1>2, <1>3

LEMMA UpIsDone ==
  ASSUME Kept, Up
  PROVE  KeyDone
<1>1. Reading /\ Unmoved
  BY DEF Up
<1>2. CASE historyIndex > 0
  <2>1. historyIndex' = historyIndex - 1 /\ LoadEntry(history[historyIndex])
    BY <1>2 DEF Up
  <2>2. history[historyIndex] \in Seq(Chars) /\ historyIndex' \in 0..Len(history)
    BY <1>1, <1>2, <2>1, ReadingHas
  <2> QED BY <1>1, <2>1, <2>2, EntryIsDone
<1>3. CASE ~(historyIndex > 0)
  <2>1. Edited(term, line, cur) /\ room' = room /\ historyIndex' = historyIndex
    BY <1>3 DEF Up
  <2>2. room' \in Nat /\ Len(line) + 1 < room' /\ historyIndex' \in 0..Len(history)
    BY <1>1, <2>1, ReadingHas
  <2> QED BY <1>1, <2>1, <2>2, ReadingHas, EditIsDone
<1> QED BY <1>2, <1>3

LEMMA DownIsDone ==
  ASSUME Kept, Down
  PROVE  KeyDone
<1>1. Reading /\ Unmoved /\ historyIndex' = AtMost(historyIndex + 1, Len(history))
  BY DEF Down
<1>2. historyIndex' \in 0..Len(history)
  BY <1>1, ReadingHas DEF AtMost
<1>3. CASE historyIndex' = Len(history)
  <2>1. Edited(term, <<>>, 0) /\ room' = room
    BY <1>3 DEF Down
  <2> DEFINE ls == <<>>
  <2>2. ls \in Seq(Chars) /\ Len(ls) = 0
    OBVIOUS
  <2>3. Edited(term, ls, 0)
    BY <2>1
  <2> HIDE DEF ls
  <2>4. 0 \in 0..Len(ls) /\ room' \in Nat /\ Len(ls) + 1 < room' /\ start + Len(ls) < Cells
    BY <1>1, <2>1, <2>2, ReadingHas
  <2> QED BY <1>1, <1>2, <2>2, <2>3, <2>4, ReadingHas, EditIsDone
<1>4. CASE historyIndex' # Len(history)
  <2>1. LoadEntry(history[historyIndex' + 1])
    BY <1>4 DEF Down
  <2> DEFINE most == Len(history)
             next == historyIndex'
  <2>a. most \in Nat /\ next \in 0..most /\ next # most
    BY <1>1, <1>2, <1>4, ReadingHas
  <2>b. next + 1 \in 1..most
    <3> HIDE DEF most, next
    <3> QED BY <2>a
  <2>2. historyIndex' + 1 \in 1..Len(history)
    BY <2>b
  <2>3. history[historyIndex' + 1] \in Seq(Chars)
    BY <1>1, <2>2, ReadingHas
  <2> QED BY <1>1, <1>2, <2>1, <2>3, EntryIsDone
<1> QED BY <1>3, <1>4

-----------------------------------------------------------------------------
\* The steps around the line.

LEMMA PushedIsHistory ==
  ASSUME HistoryKept, NEW ls \in Seq(Chars)
  PROVE  Pushed(ls) \in Seq(Seq(Chars)) /\ Len(Pushed(ls)) <= HistoryMax
<1> DEFINE kept == IF Len(history) = HistoryMax THEN SubSeq(history, 2, HistoryMax) ELSE history
           entry == SubSeq(ls, 1, AtMost(Len(ls), HistoryLine))
<1>1. history \in Seq(Seq(Chars)) /\ Len(history) \in Nat /\ Len(history) <= HistoryMax
      /\ HistoryMax \in Nat \ {0} /\ HistoryLine \in Nat \ {0}
  BY HistoryAssumption DEF HistoryKept
<1>2. kept \in Seq(Seq(Chars)) /\ Len(kept) + 1 <= HistoryMax
  <2>1. CASE Len(history) = HistoryMax
    <3> DEFINE S == Seq(Chars)
               rest == SubSeq(history, 2, HistoryMax)
    <3> HIDE DEF S
    <3>1. history \in Seq(S)
      BY <1>1 DEF S
    <3>2. rest \in Seq(S) /\ Len(rest) = IF 2 <= HistoryMax THEN HistoryMax - 2 + 1 ELSE 0
      BY <1>1, <2>1, <3>1, PartIsSeq
    <3>3. kept = rest
      BY <2>1
    <3> HIDE DEF rest
    <3>4. Len(rest) + 1 <= HistoryMax
      BY <1>1, <3>2
    <3> QED BY <3>2, <3>3, <3>4 DEF S
  <2>2. CASE Len(history) # HistoryMax
    BY <1>1, <2>2
  <2> QED BY <2>1, <2>2
<1>3. entry \in Seq(Chars)
  <2> DEFINE n == AtMost(Len(ls), HistoryLine)
  <2>1. n \in 0..Len(ls)
    BY <1>1 DEF AtMost
  <2> HIDE DEF n
  <2>2. SubSeq(ls, 1, n) \in Seq(Chars)
    BY <2>1, PartIsSeq
  <2> QED BY <2>2 DEF n
<1>4. Pushed(ls) = history \/ Pushed(ls) = Append(kept, entry)
  BY DEF Pushed
<1> HIDE DEF kept, entry
<1>5. Append(kept, entry) \in Seq(Seq(Chars)) /\ Len(Append(kept, entry)) = Len(kept) + 1
  BY <1>2, <1>3
<1> QED BY <1>1, <1>2, <1>4, <1>5

LEMMA InputIsLeft ==
  ASSUME NoInput, HistoryKept, history' \in Seq(Seq(Chars)), Len(history') <= HistoryMax,
         pc' # "reading"
  PROVE  LineKept' /\ HistoryKept'
<1>1. line' = <<>> /\ <<>> \in Seq(Chars) /\ Len(<<>>) = 0
  BY DEF NoInput
<1>2. LineKept'
  BY <1>1 DEF LineKept, NoInput
<1>3. Len(history') \in Nat
  OBVIOUS
<1> QED BY <1>2, <1>3 DEF HistoryKept, NoInput

LEMMA DrawnNext ==
  ASSUME Drawn(term')
  PROVE  Drawn(term)'
  BY DEF Drawn, Faithful, Window, ShownCursor

LEMMA EnterKeeps ==
  ASSUME Kept, Enter
  PROVE  Kept'
<1> DEFINE n == Len(line)
           e == EnsureRowVisible(Tailed, RowOf(n))
           p == PlaceCursor(e, n)
<1>1. /\ Reading /\ term' = Newline(p) /\ history' = Pushed(line) /\ pc' = "running"
      /\ NoInput /\ focused' = focused /\ event' = event
  BY DEF Enter
<1>2. start \in Nat /\ n \in Nat /\ start + n < Cells /\ Drawn(term) /\ line \in Seq(Chars)
  BY <1>1, ReadingHas
<1> HIDE DEF n
<1>3. Drawn(Tailed) /\ Tailed.follow
  BY <1>2, TailedIsDrawn
<1>4. RowOf(n) \in BufRows
  BY <1>2, PlaceOfCell
<1> DEFINE t == Tailed
<1>5. Drawn(e) /\ e.follow = t.follow /\ Visible(e, RowOf(n))
  BY <1>3, <1>4, RowIsVisible
<1> HIDE DEF e
<1>6. Drawn(p) /\ p.follow = e.follow
  BY <1>2, <1>5, CursorIsPlaced
<1> HIDE DEF p
<1>7. p \in Drafts
  BY <1>6, Sizes DEF Drawn, Drafts, Terminals, Terms, Columns
<1>8. Drawn(term') /\ term'.follow = p.follow /\ (p.follow => TailSeen(term'))
  BY <1>1, <1>7, NewlineDraws DEF Drawn
<1>9. p.follow
  BY <1>3, <1>5, <1>6
<1>10. TailKept'
  BY <1>8, <1>9 DEF TailKept, TailSeen, Visible
<1>11. LineKept' /\ HistoryKept'
  BY <1>1, <1>2, PushedIsHistory, InputIsLeft DEF Kept
<1>12. ~Reading'
  BY <1>1 DEF Reading
<1>13. Drawn(term)'
  BY <1>8, DrawnNext
<1> QED BY <1>1, <1>10, <1>11, <1>12, <1>13 DEF Kept, NoInput

LEMMA TextsArePrinted ==
  ASSUME NEW text \in Prompts \cup Outputs \cup {OutOfMemory}
  PROVE  text \in Seq(Symbols)
<1> DEFINE S == {text[i] : i \in DOMAIN text}
<1>1. S \subseteq Symbols
  BY DEF Symbols, Printed
<1>2. text \in Seq(S)
  <2>1. CASE text = OutOfMemory
    <3>1. text[1] \in S /\ text[2] \in S
      BY <2>1 DEF OutOfMemory
    <3> QED BY <2>1, <3>1 DEF OutOfMemory
  <2>2. CASE text \in Prompts \cup Outputs
    BY <2>2, TextsAssumption
  <2> QED BY <2>1, <2>2
<1> HIDE DEF S
<1> QED BY <1>1, <1>2

LEMMA WritesDraw ==
  ASSUME NEW t, Drawn(t), NEW text \in Prompts \cup Outputs \cup {OutOfMemory}
  PROVE  /\ Drawn(Write(t, text)) /\ Write(t, text).follow = t.follow
         /\ t.follow /\ TailSeen(t) => TailSeen(Write(t, text))
  BY TextsArePrinted, WriteDraws DEF Drawn

\* The prompt leaves the cursor where it ends.
LEMMA PromptDraws ==
  ASSUME NEW t, Drawn(t), NEW prompt \in Prompts
  PROVE  Drawn(Prompted(t, prompt))
<1> DEFINE w == Write(t, prompt)
           row == GetRow(w)
           col == w.col
<1>1. Drawn(w)
  BY WritesDraw
<1>2. Prompted(t, prompt) = SetCursorPos(w, row, col)
  BY DEF Prompted
<1> HIDE DEF w
<1>3. row \in Nat /\ col \in Nat
  BY <1>1, Sizes DEF Drawn, Terminals, Terms, BufRows, Columns, Tops, GetRow, AtMost, AtLeastZero
<1> HIDE DEF row, col
<1> QED BY <1>1, <1>2, <1>3, CursorIsSet

LEMMA PromptKeeps ==
  ASSUME Kept, Prompt
  PROVE  Kept'
<1>1. pc = "prompt" /\ focused /\ event' = FALSE /\ history' = history /\ focused' = focused
  BY DEF Prompt
<1> DEFINE t == IF event THEN Cleared ELSE term
<1>2. Drawn(t)
  BY ClearedIsTerminal DEF Drawn, Kept
<1>3. PICK prompt \in Prompts :
        LET shown == Prompted(t, prompt)
        IN  \/ /\ term' = shown
               /\ pc' = "reading"
               /\ start' = CellOf(shown.row, shown.col)
               /\ line' = <<>> /\ cur' = 0 /\ prevLen' = 0
               /\ room' = InitialCap /\ historyIndex' = Len(history)
               /\ drawnOver' = FALSE
            \/ /\ term' = Write(shown, OutOfMemory)
               /\ UNCHANGED <<pc, readVars>>
  BY DEF Prompt
<1> HIDE DEF t
<1> DEFINE shown == Prompted(t, prompt)
<1>4. Drawn(shown)
  BY <1>2, PromptDraws
<1> HIDE DEF shown
<1>5. CASE /\ term' = shown
           /\ pc' = "reading"
           /\ start' = CellOf(shown.row, shown.col)
           /\ line' = <<>> /\ cur' = 0 /\ prevLen' = 0
           /\ room' = InitialCap /\ historyIndex' = Len(history)
           /\ drawnOver' = FALSE
  <2>1. shown.row \in BufRows /\ shown.col \in Columns
    BY <1>4 DEF Drawn, Terminals, Terms
  <2>2. start' \in Nat /\ start' < Cells
    BY <1>5, <2>1, CellIsInside
  <2>3. <<>> \in Seq(Chars) /\ Len(<<>>) = 0
    OBVIOUS
  <2>4. LineKept'
    <3>1. start' + Len(line') < Cells
      BY <1>5, <2>2, <2>3
    <3>2. Len(line') + 1 < room' /\ room' \in Nat
      BY <1>5, <2>3, CapAssumption
    <3> QED BY <1>5, <2>2, <2>3, <3>1, <3>2 DEF LineKept, Cells
  <2>5. HistoryKept'
    <3>1. history \in Seq(Seq(Chars)) /\ Len(history) \in Nat /\ Len(history) <= HistoryMax
      BY DEF Kept, HistoryKept
    <3> QED BY <1>1, <1>5, <3>1 DEF HistoryKept
  <2>6. Drawn(term)'
    BY <1>4, <1>5, DrawnNext
  <2>7. CellOf(term'.row, term'.col) = start' + cur'
    BY <1>5, <2>2
  <2>8. TailKept'
    BY <1>5 DEF TailKept
  <2> QED BY <1>1, <1>5, <2>4, <2>5, <2>6, <2>7, <2>8 DEF Kept, CellOf
<1>6. CASE term' = Write(shown, OutOfMemory) /\ UNCHANGED <<pc, readVars>>
  <2>1. Drawn(term')
    BY <1>4, <1>6, WritesDraw
  <2>2. Drawn(term)'
    BY <2>1, DrawnNext
  <2>3. pc' = "prompt"
    BY <1>1, <1>6
  <2>4. LineKept' /\ HistoryKept'
    BY <1>1, <1>6 DEF Kept, LineKept, HistoryKept, readVars, Cells
  <2>5. TailKept' /\ ~Reading'
    BY <2>3 DEF TailKept, Reading
  <2> QED BY <1>1, <1>6, <2>2, <2>3, <2>4, <2>5 DEF Kept, readVars
<1> QED BY <1>3, <1>5, <1>6 DEF shown

LEMMA ExecuteKeeps ==
  ASSUME Kept, Execute
  PROVE  Kept' /\ TailSeen(term')
<1>1. pc = "running" /\ pc' = "prompt" /\ UNCHANGED <<readVars, history, focused, event>>
  BY DEF Execute
<1>2. Drawn(term) /\ term.follow /\ TailSeen(term)
  BY <1>1 DEF Kept, TailKept
<1>3. Drawn(term') /\ TailSeen(term')
  <2>1. CASE term' = Cleared
    BY <2>1, ClearedIsTerminal DEF Drawn
  <2>2. CASE \E output \in Outputs : term' = Write(term, output)
    BY <1>2, <2>2, WritesDraw
  <2> QED BY <2>1, <2>2 DEF Execute
<1>4. Drawn(term)'
  BY <1>3, DrawnNext
<1>5. LineKept' /\ HistoryKept'
  BY <1>1 DEF Kept, LineKept, HistoryKept, readVars, Cells
<1>6. TailKept' /\ ~Reading'
  BY <1>1 DEF TailKept, Reading
<1> QED BY <1>1, <1>3, <1>4, <1>5, <1>6 DEF Kept, readVars

LEMMA FocusKeeps ==
  ASSUME Kept, SeeFocus \/ FocusLeaves \/ FocusReturns
  PROVE  Kept'
<1>1. CASE SeeFocus
  <2>1. /\ term' = Cleared /\ pc' = "prompt" /\ event' = FALSE /\ NoInput
        /\ history' = history /\ focused' = focused
    BY <1>1 DEF SeeFocus
  <2>2. Drawn(term)'
    BY <2>1, ClearedIsTerminal, DrawnNext DEF Drawn
  <2>3. LineKept' /\ HistoryKept'
    BY <2>1, InputIsLeft DEF Kept, HistoryKept
  <2>4. TailKept' /\ ~Reading'
    BY <2>1 DEF TailKept, Reading
  <2> QED BY <2>1, <2>2, <2>3, <2>4 DEF Kept, NoInput
<1>2. CASE FocusLeaves \/ FocusReturns
  <2>1. /\ focused' \in BOOLEAN /\ event' \in BOOLEAN /\ (~focused' \/ event')
        /\ UNCHANGED <<term, pc, readVars, history>>
    BY <1>2 DEF FocusLeaves, FocusReturns, Kept
  <2>2. Drawn(term)' /\ TailKept' /\ LineKept' /\ HistoryKept' /\ ~Reading'
    BY <2>1, DrawnNext DEF Kept, TailKept, TailSeen, Visible, LineKept, HistoryKept, readVars, Cells,
                           Reading
  <2> QED BY <2>1, <2>2 DEF Kept, readVars
<1> QED BY <1>1, <1>2

LEMMA OthersKeep ==
  ASSUME Kept, OthersDraw
  PROVE  Kept'
<1>1. /\ drawnOver' = (drawnOver \/ Reading)
      /\ UNCHANGED <<start, line, cur, prevLen, room, historyIndex, pc, history, focused, event>>
  BY DEF OthersDraw
<1>2. PICK row \in ViewRows, t \in {Cleared, term} :
        term' = SetCursorPos(PutAt(t, row, 0, Foreign), row, 0)
  BY DEF OthersDraw
<1>3. Drawn(t) /\ 0 \in Columns /\ Foreign \in Symbols /\ row \in Nat
  BY ClearedIsTerminal, Sizes DEF Drawn, Symbols, Columns, Kept, ViewRows
<1>4. pc = "running" => t.follow /\ TailSeen(t)
  BY ClearedIsTerminal DEF Kept, TailKept
<1> HIDE DEF Kept
<1> DEFINE u == PutAt(t, row, 0, Foreign)
<1>5. Drawn(u) /\ u.head = t.head /\ u.top = t.top /\ u.follow = t.follow
  BY <1>3, PutIsShown
<1>6. term' = SetCursorPos(u, row, 0)
  BY <1>2
<1> HIDE DEF u
<1>7. Drawn(term') /\ term'.head = u.head /\ term'.top = u.top /\ term'.follow = u.follow
  BY <1>3, <1>5, <1>6, CursorIsSet
<1>8. TailKept'
  BY <1>1, <1>4, <1>5, <1>7 DEF TailKept, TailSeen, Visible
<1>9. Drawn(term)'
  BY <1>7, DrawnNext
<1>10. LineKept' /\ HistoryKept'
  BY <1>1 DEF Kept, LineKept, HistoryKept, Cells
<1>11. ~(Reading /\ ~drawnOver)' /\ drawnOver' \in BOOLEAN
  BY <1>1 DEF Kept, Reading
<1> QED BY <1>1, <1>8, <1>9, <1>10, <1>11 DEF Kept

-----------------------------------------------------------------------------
LEMMA KeptAtFirst == Init => Kept
<1> SUFFICES ASSUME Init PROVE Kept
  OBVIOUS
<1>1. <<>> \in Seq(Chars) /\ <<>> \in Seq(Seq(Chars)) /\ Len(<<>>) = 0
  OBVIOUS
<1>2. Drawn(term) /\ term.row = 0 /\ term.col = 0
  BY ClearedIsTerminal DEF Init, Drawn
<1>3. LineKept /\ HistoryKept
  BY <1>1, HistoryAssumption DEF Init, LineKept, HistoryKept
<1>4. TailKept /\ ~Reading
  BY DEF Init, TailKept, Reading
<1> QED BY <1>2, <1>3, <1>4 DEF Init, Kept

LEMMA KeyIsDone ==
  ASSUME Kept, Key
  PROVE  KeyDone \/ Enter
<1>1. CASE PageUp \/ PageDown
  BY <1>1, ScrollIsDone
<1>2. CASE Move
  BY <1>2, MoveIsDone
<1>3. CASE Delete
  BY <1>3, DeleteIsDone
<1>4. CASE Backspace
  BY <1>4, BackspaceIsDone
<1>5. CASE Up
  BY <1>5, UpIsDone
<1>6. CASE Down
  BY <1>6, DownIsDone
<1>7. CASE \E ch \in Chars : TypeChar(ch)
  BY <1>7, TypeIsDone
<1> QED BY <1>1, <1>2, <1>3, <1>4, <1>5, <1>6, <1>7 DEF Key

LEMMA KeysAreRead == Key => Reading
  BY DEF Key, PageUp, PageDown, Move, Delete, Backspace, Up, Down, Enter, TypeChar

LEMMA NextKeeps == Kept /\ [Next]_vars => Kept'
<1> SUFFICES ASSUME Kept, [Next]_vars PROVE Kept'
  OBVIOUS
<1>1. CASE Key
  BY <1>1, KeyIsDone, KeysAreRead, KeyKeeps, EnterKeeps
<1>2. CASE Prompt
  BY <1>2, PromptKeeps
<1>3. CASE Execute
  BY <1>3, ExecuteKeeps
<1>4. CASE SeeFocus \/ FocusLeaves \/ FocusReturns \/ OthersDraw
  BY <1>4, FocusKeeps, OthersKeep
<1>5. CASE UNCHANGED vars
  BY <1>5 DEF vars, readVars, Kept, Drawn, Faithful, Window, ShownCursor, TailKept, TailSeen, Visible,
              LineKept, HistoryKept, Reading, Cells, CellOf
<1> QED BY <1>1, <1>2, <1>3, <1>4, <1>5 DEF Next

THEOREM KeptAlways == Spec => []Kept
<1>1. Init => Kept
  BY KeptAtFirst
<1>2. Kept /\ [Next]_vars => Kept'
  BY NextKeeps
<1> QED BY <1>1, <1>2, PTL DEF Spec

\* The line, its cursor and the character behind it have their place, in the buffer and
\* in the scrollback, and the terminal writes where the cursor of the line is (read_line).
THEOREM LineHasItsPlace == Spec => []InputInPlace
<1>1. Kept => InputInPlace
  <2> SUFFICES ASSUME Kept PROVE InputInPlace
    OBVIOUS
  <2>1. term.top \in BufRows
    BY Sizes DEF Kept, Drawn, Terminals, Terms, Tops, BufRows
  <2>2. TypeOK
    BY <2>1 DEF TypeOK, Kept, Drawn, Terminals, Terms, LineKept, HistoryKept
  <2> QED BY <2>2 DEF InputInPlace, Kept, LineKept
<1> QED BY <1>1, KeptAlways, PTL

\* The screen is the window of the scrollback after every output, key and change of the
\* focus (vga.c).
THEOREM ScreenShowsWindow == Spec => []ScreenIsWindow
<1>1. Kept => ScreenIsWindow
  BY DEF Kept, Drawn, Faithful, ScreenIsWindow
<1> QED BY <1>1, KeptAlways, PTL

\* A key draws the line again and nothing before it, and a change of the line is seen
\* (redraw_input_region).
THEOREM KeysEditInPlace == Spec => EditsInPlace
<1> DEFINE Safe ==
      /\ Key /\ pc' = "reading" => PrintedStays
      /\ Delete \/ Backspace \/ (\E ch \in Chars : TypeChar(ch)) => ChangeShown
<1>1. Kept /\ [Next]_vars => [Safe]_vars
  <2> SUFFICES ASSUME Kept, Next PROVE Safe
    OBVIOUS
  <2>1. Delete \/ Backspace \/ (\E ch \in Chars : TypeChar(ch)) => ChangeShown
    BY DeleteIsDone, BackspaceIsDone, TypeIsDone
  <2>2. ASSUME Key, pc' = "reading" PROVE PrintedStays
    <3>1. ~Enter
      BY <2>2 DEF Enter
    <3> QED BY <2>2, <3>1, KeyIsDone DEF KeyDone
  <2> QED BY <2>1, <2>2
<1>2. [Safe]_vars =>
        [/\ Key /\ pc' = "reading" =>
              \A row \in BufRows, col \in Columns :
                BeforeInput(row, col) => term'.text[row][col] = term.text[row][col]
         /\ Delete \/ Backspace \/ (\E ch \in Chars : TypeChar(ch)) =>
              Visible(term', term'.row) /\ ShowsLine(term', line')]_vars
  BY DEF PrintedStays, ChangeShown
<1> QED BY <1>1, <1>2, KeptAlways, PTL DEF Spec, EditsInPlace

\* What a command has printed is in the window when it ends (terminal_follow_tail).
THEOREM OutputSeen == Spec => OutputIsSeen
<1>1. Kept /\ [Next]_vars => [pc = "running" /\ pc' = "prompt" => Visible(term', term'.head)]_vars
  <2> SUFFICES ASSUME Kept, Next, pc = "running", pc' = "prompt"
               PROVE  Visible(term', term'.head)
    OBVIOUS
  <2>1. ~Key
    BY KeysAreRead DEF Reading
  <2>2. Execute
    BY <2>1 DEF Next, Prompt, SeeFocus, FocusLeaves, FocusReturns, OthersDraw
  <2> QED BY <2>2, ExecuteKeeps DEF TailSeen
<1> QED BY <1>1, KeptAlways, PTL DEF Spec, OutputIsSeen

=============================================================================
