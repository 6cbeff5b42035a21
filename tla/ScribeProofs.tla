---------------------------- MODULE ScribeProofs ----------------------------
(***************************************************************************)
(* Proofs about Scribe, for every size of the screen and of the array of   *)
(* lines, every width of a tab and all contents of the file.               *)
(*                                                                         *)
(* First the cursor and the screen: what is loaded is a text of lines      *)
(* (Loads, which rests on counting the line ends: Rank); whatever is       *)
(* handed to View with the cursor in it is in view afterwards              *)
(* (ViewPlaces); and each handler hands it the cursor in the text and      *)
(* names all the rows that have changed (ViewShows, and a lemma for each   *)
(* key).                                                                   *)
(*                                                                         *)
(* Then the text.  Join is a fold, and what it does with lines in          *)
(* several parts (JoinConcat) is an induction over their number: Some =    *)
(* Nat, for the set Some of the numbers it holds for (Induction).  Any     *)
(* text is then Pieces(Ahead, line, Behind) (JoinAround), an edit          *)
(* changes only the middle piece (TextInserted, TextErased,                *)
(* BreakErased), and each key does what Document says.  For the file,      *)
(* the n-th line of a text ends where its n-th line end is (EndsFound,     *)
(* EndIs), so that loading finds the lines that were saved                 *)
(* (LoadedAgain).                                                          *)
(***************************************************************************)
EXTENDS Scribe, FiniteSetTheorems, SequenceTheorems, WellFoundedInduction, TLAPS

\* How many elements of S are at most i
Rank(S, i) == Cardinality({k \in S : k <= i})

LEMMA RankIsCount ==
  ASSUME NEW S, IsFiniteSet(S), NEW i
  PROVE  IsFiniteSet({k \in S : k <= i}) /\ Rank(S, i) \in 0..Cardinality(S)
<1>1. {k \in S : k <= i} \in SUBSET S
  OBVIOUS
<1>2. IsFiniteSet({k \in S : k <= i}) /\ Rank(S, i) <= Cardinality(S)
  BY <1>1, FS_Subset DEF Rank
<1> QED BY <1>2, FS_CardinalityType DEF Rank

LEMMA RankGrows ==
  ASSUME NEW S \in SUBSET Int, IsFiniteSet(S), NEW i \in Int, NEW j \in S, i < j
  PROVE  Rank(S, i) + 1 <= Rank(S, j)
<1> DEFINE below == {k \in S : k <= i}
           upto == {k \in S : k <= j}
<1>1. IsFiniteSet(below) /\ IsFiniteSet(upto) /\ Rank(S, i) \in Nat
  BY RankIsCount
<1>2. j \notin below /\ below \cup {j} \in SUBSET upto
  <2>1. j \in Int /\ j <= j /\ ~(j <= i)
    OBVIOUS
  <2>2. \A k \in below : k \in S /\ k \in Int /\ k <= j
    OBVIOUS
  <2> QED BY <2>1, <2>2
<1>3. Cardinality(below \cup {j}) = Cardinality(below) + 1
  BY <1>1, <1>2, FS_AddElement
<1>4. Cardinality(below \cup {j}) <= Cardinality(upto)
  BY <1>1, <1>2, FS_Subset
<1> QED BY <1>1, <1>3, <1>4 DEF Rank

LEMMA RankInRange ==
  ASSUME NEW S \in SUBSET Int, IsFiniteSet(S), NEW i \in S
  PROVE  Rank(S, i) \in 1..Cardinality(S)
<1>1. i \in Int /\ i - 1 \in Int /\ i - 1 < i
  OBVIOUS
<1>2. Rank(S, i - 1) + 1 <= Rank(S, i)
  BY <1>1, RankGrows
<1>3. Rank(S, i - 1) \in 0..Cardinality(S) /\ Rank(S, i) \in 0..Cardinality(S)
  BY RankIsCount
<1>4. Cardinality(S) \in Nat
  BY FS_CardinalityType
<1> QED BY <1>2, <1>3, <1>4

LEMMA EveryRank ==
  ASSUME NEW S \in SUBSET Int, IsFiniteSet(S), NEW n \in 1..Cardinality(S)
  PROVE  \E i \in S : Rank(S, i) = n
<1> DEFINE count == Cardinality(S)
           rank == [i \in S |-> Rank(S, i)]
<1>1. count \in Nat
  BY FS_CardinalityType
<1>2. \A i \in S : Rank(S, i) \in 1..count
  BY RankInRange
<1>3. rank \in [S -> 1..count]
  BY <1>2
<1>4. ASSUME NEW i \in S, NEW j \in S, rank[i] = rank[j] PROVE i = j
  <2>1. ASSUME NEW a \in S, NEW b \in S, a < b PROVE rank[a] # rank[b]
    BY <1>2, <2>1, RankGrows, a \in Int
  <2> QED BY <1>4, <2>1, i \in Int, j \in Int
<1>5. rank \in Injection(S, 1..count)
  BY <1>3, <1>4 DEF Injection, IsInjective
<1>6. IsFiniteSet(1..count) /\ Cardinality(1..count) = count
  BY <1>1, FS_Interval
<1>7. rank \in Surjection(S, 1..count)
  BY <1>5, <1>6, FS_Injection
<1> QED BY <1>7 DEF Surjection

LEMMA MinOfSome ==
  ASSUME NEW S \in SUBSET Int, IsFiniteSet(S), S # {}
  PROVE  Min(S) \in S
<1>1. Cardinality(S) \in Nat /\ Cardinality(S) # 0
  BY FS_CardinalityType, FS_EmptySet
<1>2. PICK i \in S : Rank(S, i) = 1
  BY <1>1, EveryRank
<1>3. ASSUME NEW k \in S, k < i PROVE FALSE
  <2>1. Rank(S, k) + 1 <= Rank(S, i)
    BY <1>3, RankGrows, k \in Int
  <2>2. Rank(S, k) \in 1..Cardinality(S)
    BY RankInRange
  <2> QED BY <1>1, <1>2, <2>1, <2>2
<1>4. \A k \in S : i <= k
  BY <1>3, i \in Int
<1> QED BY <1>4 DEF Min

LEMMA MinOfRange ==
  ASSUME NEW b \in Nat, NEW S \in SUBSET (0..b), S # {}
  PROVE  Min(S) \in S
<1>1. IsFiniteSet(0..b)
  BY FS_Interval
<1>2. IsFiniteSet(S)
  BY <1>1, FS_Subset
<1>3. S \in SUBSET Int
  OBVIOUS
<1> QED BY <1>2, <1>3, MinOfSome

-----------------------------------------------------------------------------
\* Pieces of sequences.

LEMMA PartIsSeq ==
  ASSUME NEW S, NEW s \in Seq(S), NEW a \in 1..Len(s) + 1, NEW b \in 0..Len(s)
  PROVE  /\ SubSeq(s, a, b) \in Seq(S)
         /\ Len(SubSeq(s, a, b)) = IF a <= b THEN b - a + 1 ELSE 0
         /\ \A i \in 1..Len(SubSeq(s, a, b)) : SubSeq(s, a, b)[i] = s[a + i - 1]
BY SubSeqProperties

LEMMA JoinedIsSeq ==
  ASSUME NEW S, NEW s \in Seq(S), NEW t \in Seq(S)
  PROVE  s \o t \in Seq(S) /\ Len(s \o t) >= Len(s) /\ Len(s) \in Nat
BY ConcatProperties

LEMMA RemovedIsSeq ==
  ASSUME NEW S, NEW s \in Seq(S), NEW n \in 1..Len(s)
  PROVE  /\ RemoveAt(s, n) \in Seq(S)
         /\ Len(RemoveAt(s, n)) = Len(s) - 1
         /\ \A i \in 1..Len(s) - 1 : RemoveAt(s, n)[i] = IF i < n THEN s[i] ELSE s[i + 1]
<1> DEFINE left == SubSeq(s, 1, n - 1)
           right == SubSeq(s, n + 1, Len(s))
<1>1. /\ left \in Seq(S) /\ Len(left) = n - 1
      /\ \A i \in 1..n - 1 : left[i] = s[i]
  BY PartIsSeq
<1>2. /\ right \in Seq(S) /\ Len(right) = Len(s) - n
      /\ \A i \in 1..Len(s) - n : right[i] = s[n + i]
  BY PartIsSeq
<1>3. RemoveAt(s, n) = left \o right
  BY DEF RemoveAt
<1> HIDE DEF left, right
<1>4. /\ left \o right \in Seq(S) /\ Len(left \o right) = Len(left) + Len(right)
      /\ \A i \in 1..Len(left) + Len(right) :
           (left \o right)[i] = IF i <= Len(left) THEN left[i] ELSE right[i - Len(left)]
  BY <1>1, <1>2, ConcatProperties
<1> QED BY <1>1, <1>2, <1>3, <1>4

LEMMA InsertedIsSeq ==
  ASSUME NEW S, NEW s \in Seq(S), NEW n \in 1..Len(s) + 1, NEW e \in S
  PROVE  /\ InsertAt(s, n, e) \in Seq(S)
         /\ Len(InsertAt(s, n, e)) = Len(s) + 1
         /\ \A i \in 1..Len(s) : i < n => InsertAt(s, n, e)[i] = s[i]
         /\ InsertAt(s, n, e)[n] = e
<1> DEFINE left == SubSeq(s, 1, n - 1)
           right == SubSeq(s, n, Len(s))
<1>1. /\ left \in Seq(S) /\ Len(left) = n - 1
      /\ \A i \in 1..n - 1 : left[i] = s[i]
  BY PartIsSeq
<1>2. /\ right \in Seq(S) /\ Len(right) = Len(s) + 1 - n
      /\ \A i \in 1..Len(s) + 1 - n : right[i] = s[n + i - 1]
  BY PartIsSeq
<1>3. InsertAt(s, n, e) = left \o <<e>> \o right
  BY DEF InsertAt
<1> HIDE DEF left, right
<1> DEFINE front == left \o <<e>>
<1>4. /\ front \in Seq(S) /\ Len(front) = n
      /\ \A i \in 1..n : front[i] = IF i < n THEN s[i] ELSE e
  BY <1>1
<1>5. InsertAt(s, n, e) = front \o right
  BY <1>3
<1> HIDE DEF front
<1>6. /\ front \o right \in Seq(S) /\ Len(front \o right) = Len(front) + Len(right)
      /\ \A i \in 1..Len(front) + Len(right) :
           (front \o right)[i] = IF i <= Len(front) THEN front[i] ELSE right[i - Len(front)]
  BY <1>2, <1>4, ConcatProperties
<1> QED BY <1>2, <1>4, <1>5, <1>6

-----------------------------------------------------------------------------
\* What is loaded is a text of lines: between two line ends there is no third.

LineSymbols == Symbols \ {NL}

LEMMA LineEndsInText ==
  ASSUME NEW text \in Seq(Symbols)
  PROVE  LineEnds(text) \in SUBSET (1..Len(text) + 1) /\ IsFiniteSet(LineEnds(text))
<1>1. LineEnds(text) \in SUBSET (1..Len(text) + 1)
  BY DEF LineEnds
<1>2. IsFiniteSet(1..Len(text) + 1)
  BY FS_Interval
<1> QED BY <1>1, <1>2, FS_Subset

LEMMA LineEndIsEnd ==
  ASSUME NEW text \in Seq(Symbols), NEW n \in 1..Cardinality(LineEnds(text))
  PROVE  LineEnd(text, n) \in LineEnds(text) /\ Rank(LineEnds(text), LineEnd(text, n)) = n
<1>1. LineEnds(text) \in SUBSET Int
  BY LineEndsInText
<1>2. \E i \in LineEnds(text) : Rank(LineEnds(text), i) = n
  BY <1>1, LineEndsInText, EveryRank
<1>3. n # 0
  OBVIOUS
<1> DEFINE Nth(i) == Cardinality({k \in LineEnds(text) : k <= i}) = n
<1>4. \E i \in LineEnds(text) : Nth(i)
  BY <1>2 DEF Rank
<1>5. LineEnd(text, n) = CHOOSE i \in LineEnds(text) : Nth(i)
  BY <1>3, Zenon DEF LineEnd
<1> HIDE DEF Nth
<1>6. LineEnd(text, n) \in LineEnds(text) /\ Nth(LineEnd(text, n))
  BY <1>4, <1>5
<1> QED BY <1>6 DEF Nth, Rank

LEMMA LineBegins ==
  ASSUME NEW text \in Seq(Symbols), NEW n \in 1..Cardinality(LineEnds(text))
  PROVE  /\ LineEnd(text, n - 1) \in 0..Len(text) + 1
         /\ \A i \in LineEnds(text) : LineEnd(text, n - 1) < i => Rank(LineEnds(text), i) >= n
<1>1. LineEnds(text) \in SUBSET Int /\ IsFiniteSet(LineEnds(text))
  BY LineEndsInText
<1>2. CASE n = 1
  <2>1. LineEnd(text, n - 1) = 0
    BY <1>2 DEF LineEnd
  <2> QED BY <1>1, <1>2, <2>1, RankInRange
<1>3. CASE n # 1
  <2>1. n - 1 \in 1..Cardinality(LineEnds(text))
    BY <1>3, <1>1, FS_CardinalityType
  <2>2. /\ LineEnd(text, n - 1) \in LineEnds(text)
        /\ Rank(LineEnds(text), LineEnd(text, n - 1)) = n - 1
    BY <2>1, LineEndIsEnd
  <2>3. ASSUME NEW i \in LineEnds(text), LineEnd(text, n - 1) < i
        PROVE  Rank(LineEnds(text), i) >= n
    <3>1. Rank(LineEnds(text), LineEnd(text, n - 1)) + 1 <= Rank(LineEnds(text), i)
      BY <1>1, <2>2, <2>3, RankGrows
    <3>2. Rank(LineEnds(text), i) \in 1..Cardinality(LineEnds(text))
      BY <1>1, RankInRange
    <3> QED BY <2>2, <3>1, <3>2
  <2> QED BY <2>2, <2>3, LineEndsInText
<1> QED BY <1>2, <1>3

LEMMA LineOfIsLine ==
  ASSUME NEW text \in Seq(Symbols), NEW n \in 1..Cardinality(LineEnds(text))
  PROVE  LineOf(text, n) \in Seq(LineSymbols)
<1> DEFINE begin == LineEnd(text, n - 1)
           end == LineEnd(text, n)
           piece == SubSeq(text, begin + 1, end - 1)
<1>1. LineEnds(text) \in SUBSET Int /\ IsFiniteSet(LineEnds(text))
  BY LineEndsInText
<1>2. end \in LineEnds(text) /\ end \in 1..Len(text) + 1 /\ Rank(LineEnds(text), end) = n
  BY LineEndIsEnd, LineEndsInText
<1>3. /\ begin \in 0..Len(text) + 1
      /\ \A i \in LineEnds(text) : begin < i => Rank(LineEnds(text), i) >= n
  BY LineBegins
<1> HIDE DEF begin, end
<1>4. ASSUME NEW i \in begin + 1..end - 1 PROVE i \in 1..Len(text) /\ text[i] \in LineSymbols
  <2>1. i \in 1..Len(text) /\ i \in Int
    BY <1>2, <1>3
  <2>2. CASE text[i] = NL
    <3>1. i \in LineEnds(text)
      BY <2>1, <2>2 DEF LineEnds
    <3>2. Rank(LineEnds(text), i) >= n /\ Rank(LineEnds(text), i) \in 1..Cardinality(LineEnds(text))
      BY <1>1, <1>2, <1>3, <2>1, <3>1, RankInRange
    <3>3. Rank(LineEnds(text), i) + 1 <= Rank(LineEnds(text), end)
      BY <1>1, <1>2, <2>1, RankGrows
    <3> QED BY <1>2, <3>2, <3>3
  <2> QED BY <2>1, <2>2 DEF LineSymbols
<1>5. piece \in Seq(LineSymbols)
  <2>1. CASE begin + 1 <= end - 1
    <3>1. begin + 1 \in 1..Len(text) + 1 /\ end - 1 \in 0..Len(text)
      BY <1>2, <1>3, <2>1
    <3>2. /\ piece \in Seq(Symbols) /\ Len(piece) = end - 1 - begin
          /\ \A i \in 1..Len(piece) : piece[i] = text[begin + i]
      BY <1>2, <1>3, <2>1, <3>1, PartIsSeq
    <3> HIDE DEF piece
    <3>3. \A i \in 1..Len(piece) : piece[i] \in LineSymbols
      <4> TAKE i \in 1..Len(piece)
      <4>1. begin + i \in begin + 1..end - 1
        BY <1>2, <1>3, <3>2
      <4> QED BY <1>4, <3>2, <4>1
    <3> QED BY <3>2, <3>3
  <2>2. CASE ~(begin + 1 <= end - 1)
    BY <1>2, <1>3, <2>2
  <2> QED BY <2>1, <2>2
<1> HIDE DEF piece
<1>6. LineOf(text, n) = WithoutCR(piece)
  BY DEF LineOf, piece, begin, end
<1>7. WithoutCR(piece) \in Seq(LineSymbols)
  BY <1>5 DEF WithoutCR, Front
<1> QED BY <1>6, <1>7

LEMMA Loads ==
  ASSUME NEW text \in Seq(Symbols)
  PROVE  Load(text) \in Seq(Seq(LineSymbols)) /\ Len(Load(text)) \in 1..MaxLines
<1>1. CASE text = <<>>
  BY <1>1, MaxLinesAssumption DEF Load
<1>2. CASE text # <<>>
  <2> DEFINE count == Minimum(Cardinality(LineEnds(text)), MaxLines)
  <2>1. LineEnds(text) # {}
    <3>1. Len(text) \in DOMAIN text
      BY <1>2
    <3> QED BY <1>2, <3>1 DEF LineEnds, Last
  <2>2. Cardinality(LineEnds(text)) \in Nat \ {0}
    BY <2>1, LineEndsInText, FS_CardinalityType, FS_EmptySet
  <2>3. count \in 1..MaxLines /\ count <= Cardinality(LineEnds(text))
    BY <2>2, MaxLinesAssumption DEF Minimum
  <2>4. \A n \in 1..count : LineOf(text, n) \in Seq(LineSymbols)
    BY <2>2, <2>3, LineOfIsLine
  <2>5. Load(text) = [n \in 1..count |-> LineOf(text, n)]
    BY <1>2 DEF Load
  <2> HIDE DEF count
  <2>6. Load(text) \in Seq(Seq(LineSymbols)) /\ Len(Load(text)) = count
    BY <2>3, <2>4, <2>5
  <2> QED BY <2>3, <2>6
<1> QED BY <1>1, <1>2

-----------------------------------------------------------------------------
\* The invariant.

Buffers == {ls \in Seq(Seq(LineSymbols)) : Len(ls) \in 1..MaxLines}

CursorAt(ls, line, col) == line \in 1..Len(ls) /\ col \in 0..Len(ls[line])

Placed ==
  /\ lines \in Buffers /\ CursorAt(lines, curLine, curCol)
  /\ topLine \in Nat \ {0} /\ CursorVisible
  /\ DOMAIN screen = Rows

Flags ==
  /\ modified \in BOOLEAN /\ focused \in BOOLEAN /\ event \in BOOLEAN /\ exists \in BOOLEAN
  /\ mode \in {"write", "command", "closed"} \cup Prompts

Inv == Placed /\ Flags

\* The rows in the hands of others, which may be drawn over without notice
Marks == {Intruded} \cup (IF UpToDate THEN {} ELSE {Foreign})

Shows == \A row \in Rows : screen[row] \in {Row(lines, topLine + row)} \cup Marks
Drawn == mode # "closed" => Shows

LEMMA InvIsCursor == Inv => CursorInText /\ CursorVisible
<1> SUFFICES ASSUME Inv PROVE CursorInText /\ CursorVisible
  OBVIOUS
<1>1. lines \in Seq(Seq(Symbols \ {NL})) /\ Len(lines) \in 1..MaxLines
  BY DEF Inv, Placed, Buffers, LineSymbols
<1>2. curLine \in 1..Len(lines) /\ curCol \in 0..Len(lines[curLine])
  BY DEF Inv, Placed, CursorAt
<1>3. Len(lines[curLine]) \in Nat
  BY <1>1, <1>2
<1>4. TypeOK
  BY <1>1, <1>2, <1>3 DEF Inv, Placed, Flags, TypeOK
<1> QED BY <1>1, <1>2, <1>3, <1>4 DEF CursorInText, CurLen, Inv, Placed

LEMMA DrawnIsShown == Inv => (ScreenShowsText <=> Drawn)
BY DEF Inv, Placed, ScreenShowsText, Drawn, Shows, Marks

\* Whatever is placed in the buffer with the cursor in it is in view afterwards.
LEMMA ViewPlaces ==
  ASSUME NEW ls \in Buffers, NEW line, NEW col, CursorAt(ls, line, col),
         NEW top \in Nat \ {0}, NEW changed, View(ls, line, col, top, changed)
  PROVE  Placed'
<1>1. lines' = ls /\ curLine' = line /\ curCol' = col /\ topLine' = KeepVisible(top, line)
  BY DEF View
<1>2. DOMAIN screen' = Rows
  BY DEF View, Draw
<1>3. Len(ls) \in Nat /\ line \in Nat \ {0}
  BY DEF Buffers, CursorAt
<1>4. topLine' \in Nat \ {0} /\ topLine' <= line /\ line < topLine' + TextRows
  BY <1>1, <1>3, TextRowsAssumption DEF KeepVisible
<1> QED BY <1>1, <1>2, <1>4 DEF Placed, CursorVisible

\* The rows that are drawn, with those that need not be, show the text or what others drew.
LEMMA ViewShows ==
  ASSUME Placed, NEW ls, NEW line, NEW col, NEW top, NEW changed,
         View(ls, line, col, top, changed), topLine' \in Nat \ {0},
         \/ changed = Everything
         \/ /\ Shows /\ UNCHANGED <<focused, event>>
            /\ \A n \in Nat \ {0} : n \notin changed => Row(ls, n) = Row(lines, n)
  PROVE  Shows'
<1> SUFFICES ASSUME NEW row \in Rows
             PROVE  screen'[row] \in {Row(ls, topLine' + row)} \cup Marks'
  BY DEF Shows, View, Row, NoLine
<1>1. screen'[row] = IF topLine' # topLine \/ topLine' + row \in changed
                     THEN Row(ls, topLine' + row) ELSE screen[row]
  BY DEF View, Draw
<1>2. topLine' + row \in Nat \ {0}
  <2>1. row \in Nat
    BY TextRowsAssumption DEF Rows
  <2>2. \A t \in Nat \ {0} : t + row \in Nat \ {0}
    BY <2>1
  <2> QED BY <2>2
<1>3. CASE topLine' # topLine \/ topLine' + row \in changed
  BY <1>1, <1>3
<1>4. CASE topLine' = topLine /\ topLine' + row \notin changed
  <2>1. Shows /\ Row(ls, topLine' + row) = Row(lines, topLine' + row)
    BY <1>2, <1>4 DEF Everything
  <2>2. screen[row] \in {Row(lines, topLine + row)} \cup Marks
    BY <2>1 DEF Shows
  <2>3. Marks' = Marks
    BY <1>2, <1>4 DEF Marks, UpToDate, Everything, Intruded, Foreign
  <2> QED BY <1>1, <1>4, <2>1, <2>2, <2>3
<1> QED BY <1>3, <1>4

\* A step keeps the invariant, and a screen that shows the text.
Keeps == Inv' /\ (Drawn => Drawn')

LEMMA PlaceKeeps ==
  ASSUME Inv, NEW line, NEW col, CursorAt(lines, line, col), Place(line, col),
         Takes("write")
  PROVE  Keeps
<1>1. Placed'
  BY ViewPlaces DEF Inv, Placed, Place
<1>2. Flags'
  BY DEF Inv, Flags, Place, Surroundings
<1>3. View(lines, line, col, topLine, {}) /\ UNCHANGED <<focused, event>>
  BY DEF Place, Surroundings
<1>4. Shows => Shows'
  BY <1>1, <1>3, ViewShows DEF Inv, Placed
<1> QED BY <1>1, <1>2, <1>4 DEF Keeps, Inv, Drawn, Place, Surroundings

LEMMA RenderKeeps ==
  ASSUME Inv, NEW line, NEW col, CursorAt(lines, line, col), Render(line, col)
  PROVE  Placed' /\ Shows'
<1>1. Placed'
  BY ViewPlaces DEF Inv, Placed, Render
<1> QED BY <1>1, ViewShows DEF Inv, Placed, Render

LEMMA RenderHere ==
  ASSUME Inv, Render(curLine, curCol)
  PROVE  Placed' /\ Shows'
BY RenderKeeps DEF Inv, Placed

LEMMA EditKeeps ==
  ASSUME Inv, NEW ls \in Buffers, NEW line, NEW col, CursorAt(ls, line, col), NEW changed,
         \A n \in Nat \ {0} : n \notin changed => Row(ls, n) = Row(lines, n),
         Edit(ls, line, col, changed), Takes("write")
  PROVE  Keeps
<1>1. View(ls, line, col, topLine, changed) /\ UNCHANGED <<focused, event>>
  BY DEF Edit, Surroundings
<1>2. Placed'
  BY <1>1, ViewPlaces DEF Inv, Placed
<1>3. Flags'
  BY DEF Inv, Flags, Edit, Surroundings
<1>4. Shows => Shows'
  BY <1>1, <1>2, ViewShows DEF Inv, Placed
<1> QED BY <1>2, <1>3, <1>4 DEF Keeps, Inv, Drawn, Edit, Surroundings

-----------------------------------------------------------------------------
\* The keys that move.

LEMMA LinesAreSeqs ==
  ASSUME Inv
  PROVE  /\ lines \in Seq(Seq(LineSymbols)) /\ Len(lines) \in 1..MaxLines
         /\ curLine \in 1..Len(lines) /\ curCol \in 0..Len(lines[curLine])
         /\ topLine \in Nat \ {0}
         /\ \A n \in 1..Len(lines) : lines[n] \in Seq(LineSymbols) /\ Len(lines[n]) \in Nat
BY DEF Inv, Placed, Buffers, CursorAt

LEMMA InLineKeeps ==
  ASSUME Inv, NEW line \in 1..Len(lines), InLine(line), Takes("write")
  PROVE  Keeps
<1>1. CursorAt(lines, line, Minimum(curCol, Len(lines[line])))
  BY LinesAreSeqs DEF CursorAt, Minimum
<1> QED BY <1>1, PlaceKeeps DEF InLine

LEMMA MovesKeep == Inv /\ (Left \/ Right \/ Up \/ Down) => Keeps
<1> SUFFICES ASSUME Inv, Left \/ Right \/ Up \/ Down PROVE Keeps
  OBVIOUS
<1>1. Takes("write")
  BY DEF Left, Right, Up, Down
<1>2. CASE Left
  <2>1. curCol > 0 => CursorAt(lines, curLine, curCol - 1)
    BY LinesAreSeqs DEF CursorAt
  <2>2. curLine > 1 => CursorAt(lines, curLine - 1, Len(lines[curLine - 1]))
    BY LinesAreSeqs DEF CursorAt
  <2>3. CursorAt(lines, curLine, curCol)
    BY LinesAreSeqs DEF CursorAt
  <2> QED BY <1>1, <1>2, <2>1, <2>2, <2>3, PlaceKeeps DEF Left
<1>3. CASE Right
  <2>1. curCol < CurLen => CursorAt(lines, curLine, curCol + 1)
    BY LinesAreSeqs DEF CursorAt, CurLen
  <2>2. curLine < Len(lines) => CursorAt(lines, curLine + 1, 0)
    BY LinesAreSeqs DEF CursorAt
  <2>3. CursorAt(lines, curLine, curCol)
    BY LinesAreSeqs DEF CursorAt
  <2> QED BY <1>1, <1>3, <2>1, <2>2, <2>3, PlaceKeeps DEF Right
<1>4. CASE Up \/ Down
  <2>1. PICK line \in 1..Len(lines) : InLine(line)
    BY <1>4, LinesAreSeqs DEF Up, Down
  <2> QED BY <1>1, <2>1, InLineKeeps
<1> QED BY <1>2, <1>3, <1>4

LEMMA PagesKeep == Inv /\ (PageUp \/ PageDown) => Keeps
<1> SUFFICES ASSUME Inv, PageUp \/ PageDown PROVE Keeps
  OBVIOUS
<1>1. PICK top \in Nat \ {0} : Page(top)
  BY LinesAreSeqs DEF PageUp, PageDown
<1>2. View(lines, curLine, curCol, top, Everything)
  BY <1>1 DEF Page
<1>3. Placed'
  BY <1>2, ViewPlaces DEF Inv, Placed
<1>4. Shows'
  BY <1>2, <1>3, ViewShows DEF Inv, Placed
<1> QED BY <1>1, <1>3, <1>4 DEF Keeps, Inv, Flags, Drawn, Page, Surroundings

-----------------------------------------------------------------------------
\* The keys that change the text.

LEMMA ReplacedLine ==
  ASSUME Inv, NEW n \in 1..Len(lines), NEW new \in Seq(LineSymbols)
  PROVE  /\ ReplaceAt(lines, n, new) \in Buffers
         /\ Len(ReplaceAt(lines, n, new)) = Len(lines)
         /\ \A m \in 1..Len(lines) :
              ReplaceAt(lines, n, new)[m] = IF m = n THEN new ELSE lines[m]
         /\ \A m \in Nat \ {0} : m # n => Row(ReplaceAt(lines, n, new), m) = Row(lines, m)
<1>1. /\ ReplaceAt(lines, n, new) \in Seq(Seq(LineSymbols))
      /\ Len(ReplaceAt(lines, n, new)) = Len(lines)
      /\ \A m \in 1..Len(lines) :
           ReplaceAt(lines, n, new)[m] = IF m = n THEN new ELSE lines[m]
  BY LinesAreSeqs DEF ReplaceAt
<1>2. Len(lines) \in 1..MaxLines
  BY LinesAreSeqs
<1>3. \A m \in Nat \ {0} : m # n => Row(ReplaceAt(lines, n, new), m) = Row(lines, m)
  <2> TAKE m \in Nat \ {0}
  <2>1. CASE m <= Len(lines)
    <3>1. m \in 1..Len(lines)
      BY <1>2, <2>1
    <3> QED BY <1>1, <2>1, <3>1 DEF Row
  <2>2. CASE ~(m <= Len(lines))
    BY <1>1, <2>2 DEF Row
  <2> QED BY <2>1, <2>2
<1>4. ReplaceAt(lines, n, new) \in Buffers
  BY <1>1, <1>2 DEF Buffers
<1> QED BY <1>1, <1>3, <1>4

LEMMA InsertTextKeeps ==
  ASSUME Inv, NEW typed \in Seq(LineSymbols), InsertText(typed), Takes("write")
  PROVE  Keeps
<1> DEFINE line == lines[curLine]
           left == SubSeq(line, 1, curCol)
           right == SubSeq(line, curCol + 1, Len(line))
           new == left \o typed \o right
<1>1. line \in Seq(LineSymbols) /\ curLine \in 1..Len(lines) /\ curCol \in 0..Len(line)
  BY LinesAreSeqs
<1> HIDE DEF line
<1>2. left \in Seq(LineSymbols) /\ Len(left) = curCol /\ right \in Seq(LineSymbols)
  BY <1>1, PartIsSeq
<1> HIDE DEF left, right
<1>3. new \in Seq(LineSymbols) /\ Len(new) >= curCol + Len(typed)
  BY <1>1, <1>2
<1>4. Edit(ReplaceAt(lines, curLine, new), curLine, curCol + Len(typed), {curLine})
  BY DEF InsertText, line, left, right
<1> HIDE DEF new
<1>5. CursorAt(ReplaceAt(lines, curLine, new), curLine, curCol + Len(typed))
  BY <1>1, <1>3, ReplacedLine DEF CursorAt
<1>6. \A n \in Nat \ {0} :
        n \notin {curLine} => Row(ReplaceAt(lines, curLine, new), n) = Row(lines, n)
  BY <1>1, <1>3, ReplacedLine
<1>7. ReplaceAt(lines, curLine, new) \in Buffers
  BY <1>1, <1>3, ReplacedLine
<1> QED BY <1>4, <1>5, <1>6, <1>7, EditKeeps

LEMMA TypingKeeps == Inv /\ (TypeChar \/ TypeTab) => Keeps
<1> SUFFICES ASSUME Inv, TypeChar \/ TypeTab PROVE Keeps
  OBVIOUS
<1>1. Blank \in LineSymbols /\ \A ch \in Chars : ch \in LineSymbols
  BY CharsAssumption DEF LineSymbols, Symbols, Blank, NL, CR
<1>2. Tabbed \in Seq(LineSymbols)
  BY <1>1, TabWidthAssumption DEF Tabbed
<1>3. \A ch \in Chars : <<ch>> \in Seq(LineSymbols)
  BY <1>1
<1>4. CASE TypeChar
  BY <1>3, <1>4, InsertTextKeeps DEF TypeChar
<1>5. CASE TypeTab
  BY <1>2, <1>5, InsertTextKeeps DEF TypeTab
<1> QED BY <1>4, <1>5

\* A character of the cursor's line is erased.
LEMMA ErasedLine ==
  ASSUME Inv, NEW at \in 1..CurLen, NEW col \in 0..CurLen - 1, Takes("write"),
         Edit(ReplaceAt(lines, curLine, RemoveAt(lines[curLine], at)), curLine, col, {curLine})
  PROVE  Keeps
<1> DEFINE new == RemoveAt(lines[curLine], at)
<1>1. lines[curLine] \in Seq(LineSymbols) /\ curLine \in 1..Len(lines)
  BY LinesAreSeqs
<1>2. new \in Seq(LineSymbols) /\ Len(new) = CurLen - 1
  BY <1>1, RemovedIsSeq DEF CurLen
<1> HIDE DEF new
<1>3. CursorAt(ReplaceAt(lines, curLine, new), curLine, col)
  BY <1>1, <1>2, ReplacedLine DEF CursorAt
<1>4. \A n \in Nat \ {0} :
        n \notin {curLine} => Row(ReplaceAt(lines, curLine, new), n) = Row(lines, n)
  BY <1>1, <1>2, ReplacedLine
<1>5. ReplaceAt(lines, curLine, new) \in Buffers
  BY <1>1, <1>2, ReplacedLine
<1> QED BY <1>3, <1>4, <1>5, EditKeeps DEF new

LEMMA MergedLines ==
  ASSUME Inv, NEW n \in 1..Len(lines) - 1
  PROVE  /\ Merged(n) \in Buffers
         /\ CursorAt(Merged(n), n, Len(lines[n]))
         /\ \A m \in Nat \ {0} : m \notin From(n) => Row(Merged(n), m) = Row(lines, m)
<1> DEFINE new == lines[n] \o lines[n + 1]
           joined == ReplaceAt(lines, n, new)
<1>1. /\ lines \in Seq(Seq(LineSymbols)) /\ Len(lines) \in 1..MaxLines
      /\ n \in 1..Len(lines) /\ n + 1 \in 1..Len(lines) /\ Len(lines[n]) \in Nat
      /\ lines[n] \in Seq(LineSymbols) /\ lines[n + 1] \in Seq(LineSymbols)
  BY LinesAreSeqs
<1>2. new \in Seq(LineSymbols) /\ Len(new) >= Len(lines[n])
  BY <1>1, JoinedIsSeq
<1> HIDE DEF new
<1>3. /\ joined \in Seq(Seq(LineSymbols)) /\ Len(joined) = Len(lines)
      /\ \A m \in 1..Len(lines) : joined[m] = IF m = n THEN new ELSE lines[m]
  BY <1>1, <1>2, ReplacedLine DEF Buffers
<1> HIDE DEF joined
<1>4. /\ RemoveAt(joined, n + 1) \in Seq(Seq(LineSymbols))
      /\ Len(RemoveAt(joined, n + 1)) = Len(lines) - 1
      /\ \A m \in 1..Len(lines) - 1 :
           RemoveAt(joined, n + 1)[m] = IF m < n + 1 THEN joined[m] ELSE joined[m + 1]
  BY <1>1, <1>3, RemovedIsSeq
<1>5. /\ Merged(n) \in Seq(Seq(LineSymbols)) /\ Len(Merged(n)) = Len(lines) - 1
      /\ \A m \in 1..n : Merged(n)[m] = joined[m]
  <2>1. Merged(n) = RemoveAt(joined, n + 1)
    BY DEF Merged, joined, new
  <2>2. Len(lines) \in Nat /\ \A m \in 1..n : m \in 1..Len(lines) - 1 /\ m < n + 1
    BY <1>1
  <2> QED BY <1>4, <2>1, <2>2
<1>6. Merged(n) \in Buffers
  <2>1. Len(Merged(n)) \in 1..MaxLines
    BY <1>1, <1>5, MaxLinesAssumption
  <2> QED BY <1>5, <2>1 DEF Buffers
<1>7. CursorAt(Merged(n), n, Len(lines[n]))
  <2>1. n \in 1..n /\ n \in 1..Len(lines) - 1
    BY <1>1
  <2>2. joined[n] = new /\ Len(new) \in Nat
    BY <1>1, <1>2, <1>3
  <2>3. Merged(n)[n] = new /\ Len(Merged(n)) = Len(lines) - 1
    BY <1>5, <2>1, <2>2
  <2> QED BY <1>1, <1>2, <2>1, <2>2, <2>3 DEF CursorAt
<1>8. ASSUME NEW m \in Nat \ {0}, m \notin From(n) PROVE Row(Merged(n), m) = Row(lines, m)
  <2>1. m < n
    BY <1>8 DEF From
  <2>2. m \in 1..n /\ m \in 1..Len(lines) /\ m <= Len(lines) - 1
    BY <1>1, <2>1
  <2>3. Merged(n)[m] = lines[m] /\ m <= Len(Merged(n)) /\ m <= Len(lines)
    BY <1>3, <1>5, <2>1, <2>2
  <2> QED BY <2>3 DEF Row
<1> QED BY <1>6, <1>7, <1>8

LEMMA ErasingKeeps == Inv /\ (Backspace \/ Delete) => Keeps
<1> SUFFICES ASSUME Inv, Backspace \/ Delete PROVE Keeps
  OBVIOUS
<1>1. /\ Len(lines) \in Nat /\ curLine \in 1..Len(lines) /\ CurLen \in Nat
      /\ curCol \in 0..CurLen
  BY LinesAreSeqs DEF CurLen
<1>2. Takes("write")
  BY DEF Backspace, Delete
<1>3. CASE Backspace /\ curCol > 0
  <2>1. /\ curCol \in 1..CurLen /\ curCol - 1 \in 0..CurLen - 1
        /\ Edit(ReplaceAt(lines, curLine, RemoveAt(lines[curLine], curCol)),
                curLine, curCol - 1, {curLine})
    BY <1>1, <1>3 DEF Backspace
  <2> QED BY <1>2, <2>1, ErasedLine
<1>4. CASE Backspace /\ ~(curCol > 0)
  <2>1. /\ curLine - 1 \in 1..Len(lines) - 1
        /\ Edit(Merged(curLine - 1), curLine - 1, Len(lines[curLine - 1]), From(curLine - 1))
    BY <1>1, <1>4 DEF Backspace
  <2> QED BY <1>2, <2>1, MergedLines, EditKeeps
<1>5. CASE Delete /\ curCol < CurLen
  <2>1. /\ curCol + 1 \in 1..CurLen /\ curCol \in 0..CurLen - 1
        /\ Edit(ReplaceAt(lines, curLine, RemoveAt(lines[curLine], curCol + 1)),
                curLine, curCol, {curLine})
    BY <1>1, <1>5 DEF Delete
  <2> QED BY <1>2, <2>1, ErasedLine
<1>6. CASE Delete /\ ~(curCol < CurLen)
  <2>1. /\ curLine \in 1..Len(lines) - 1 /\ curCol = Len(lines[curLine])
        /\ Edit(Merged(curLine), curLine, curCol, From(curLine))
    BY <1>1, <1>6 DEF Delete, CurLen
  <2> QED BY <1>2, <2>1, MergedLines, EditKeeps
<1> QED BY <1>3, <1>4, <1>5, <1>6

LEMMA CutLine ==
  ASSUME Inv
  PROVE  /\ LeftPart \in Seq(LineSymbols) /\ Len(LeftPart) = curCol
         /\ RightPart \in Seq(LineSymbols)
         /\ ReplaceAt(lines, curLine, LeftPart) \in Buffers
         /\ CursorAt(ReplaceAt(lines, curLine, LeftPart), curLine, curCol)
<1>1. /\ lines[curLine] \in Seq(LineSymbols) /\ CurLen = Len(lines[curLine])
      /\ curLine \in 1..Len(lines) /\ curCol \in 0..CurLen /\ CurLen \in Nat
  BY LinesAreSeqs DEF CurLen
<1>2. LeftPart \in Seq(LineSymbols) /\ Len(LeftPart) = curCol
  BY <1>1, PartIsSeq DEF LeftPart
<1>3. RightPart \in Seq(LineSymbols)
  BY <1>1, PartIsSeq DEF RightPart
<1> QED BY <1>1, <1>2, <1>3, ReplacedLine DEF CursorAt

LEMMA SplitKeeps == Inv /\ Split => Keeps
<1> SUFFICES ASSUME Inv, Split PROVE Keeps
  OBVIOUS
<1> DEFINE cut == ReplaceAt(lines, curLine, LeftPart)
           ls == InsertAt(cut, curLine + 1, RightPart)
<1>1. /\ Takes("write") /\ Len(lines) < MaxLines
      /\ Edit(ls, curLine + 1, 0, From(curLine))
  BY DEF Split, RoomForLine
<1>2. Len(lines) \in 1..MaxLines /\ curLine \in 1..Len(lines)
  BY LinesAreSeqs
<1>3. /\ cut \in Seq(Seq(LineSymbols)) /\ Len(cut) = Len(lines)
      /\ \A m \in 1..Len(lines) : m # curLine => cut[m] = lines[m]
  BY <1>2, CutLine, ReplacedLine DEF Buffers
<1> HIDE DEF cut
<1>4. /\ ls \in Seq(Seq(LineSymbols)) /\ Len(ls) = Len(lines) + 1
      /\ \A m \in 1..Len(lines) : m < curLine + 1 => ls[m] = cut[m]
      /\ ls[curLine + 1] = RightPart
  <2> DEFINE Line == Seq(LineSymbols)
  <2>1. curLine + 1 \in 1..Len(cut) + 1 /\ RightPart \in Line /\ cut \in Seq(Line)
    BY <1>2, <1>3, CutLine
  <2> HIDE DEF ls, Line
  <2>2. /\ InsertAt(cut, curLine + 1, RightPart) \in Seq(Line)
        /\ Len(InsertAt(cut, curLine + 1, RightPart)) = Len(cut) + 1
        /\ \A m \in 1..Len(cut) :
             m < curLine + 1 => InsertAt(cut, curLine + 1, RightPart)[m] = cut[m]
        /\ InsertAt(cut, curLine + 1, RightPart)[curLine + 1] = RightPart
    BY <2>1, InsertedIsSeq
  <2> QED BY <1>3, <2>2 DEF ls, Line
<1> HIDE DEF ls
<1>5. ls \in Buffers
  BY <1>1, <1>2, <1>4, MaxLinesAssumption DEF Buffers
<1>6. CursorAt(ls, curLine + 1, 0)
  <2>1. ls[curLine + 1] = RightPart /\ Len(RightPart) \in Nat
    BY <1>2, <1>4, CutLine
  <2> QED BY <1>2, <1>4, <2>1 DEF CursorAt
<1>7. ASSUME NEW m \in Nat \ {0}, m \notin From(curLine) PROVE Row(ls, m) = Row(lines, m)
  <2>1. m < curLine
    BY <1>2, <1>7 DEF From
  <2>2. /\ m \in 1..Len(lines) /\ m \in 1..Len(lines) + 1 /\ m < curLine + 1
        /\ m # curLine /\ m <= Len(lines) /\ m <= Len(lines) + 1
    BY <1>2, <2>1
  <2>3. ls[m] = lines[m] /\ m <= Len(ls) /\ m <= Len(lines)
    BY <1>3, <1>4, <2>2
  <2> QED BY <2>3 DEF Row
<1> QED BY <1>1, <1>5, <1>6, <1>7, EditKeeps

\* When no line can be inserted the cursor stays in what is left, but the row still shows
\* the whole line.
LEMMA SplitFailsInv == Inv /\ SplitFails => Inv'
<1> SUFFICES ASSUME Inv, SplitFails PROVE Inv'
  OBVIOUS
<1>1. Placed'
  BY CutLine, ViewPlaces DEF SplitFails, Inv, Placed
<1> QED BY <1>1 DEF Inv, Flags, SplitFails, Surroundings

-----------------------------------------------------------------------------
\* Commands, prompts and the surroundings.

\* A step that draws everything, or nothing at all
LEMMA RedrawKeeps ==
  ASSUME Inv, Flags', NEW line, NEW col, CursorAt(lines, line, col), Render(line, col)
  PROVE  Keeps
BY RenderKeeps DEF Keeps, Inv, Drawn

LEMMA RedrawHere ==
  ASSUME Inv, Flags', Render(curLine, curCol)
  PROVE  Keeps
BY RenderHere DEF Keeps, Inv, Drawn

LEMMA PictureStays ==
  ASSUME Inv, Flags', UNCHANGED <<lines, curLine, curCol, topLine, screen>>,
         mode # "closed" \/ mode' = "closed", UNCHANGED <<focused, event>>
  PROVE  Keeps
<1>1. Placed'
  BY DEF Inv, Placed, CursorAt, CursorVisible
<1>2. Shows => Shows'
  BY DEF Shows, Row, NoLine, Marks, UpToDate, Intruded, Foreign
<1> QED BY <1>1, <1>2 DEF Keeps, Inv, Drawn

LEMMA CommandsKeep == Inv /\ (Escape \/ CommandKey) => Keeps
<1> SUFFICES ASSUME Inv, Escape \/ CommandKey PROVE Keeps
  OBVIOUS
<1> USE DEF Flags, Surroundings, Takes, Prompts
<1>1. CASE Escape
  BY <1>1, RedrawHere DEF Escape, Inv
<1>2. CASE Write
  BY <1>2, RedrawHere DEF Write, SwitchMode, Inv
<1>3. CASE Save
  BY <1>3, RedrawHere DEF Save, Saved, Inv
<1>4. CASE SaveAndQuit
  <2>1. Flags'
    BY <1>4 DEF SaveAndQuit, Saved, Close, Inv
  <2>2. CASE exists
    BY <1>4, <2>1, <2>2, PictureStays DEF SaveAndQuit, Close
  <2>3. CASE ~exists
    BY <1>4, <2>1, <2>3, RedrawHere DEF SaveAndQuit
  <2> QED BY <2>2, <2>3
<1>5. CASE Quit
  <2>1. Flags'
    BY <1>5 DEF Quit, Close, Inv
  <2> QED BY <1>5, <2>1, PictureStays DEF Quit, Close
<1>6. CASE OpenPrompt("search") \/ OpenPrompt("goto")
  <2>1. Flags'
    BY <1>6 DEF OpenPrompt, SwitchMode, Inv
  <2> QED BY <1>6, <2>1, PictureStays DEF OpenPrompt, SwitchMode
<1> QED BY <1>1, <1>2, <1>3, <1>4, <1>5, <1>6 DEF CommandKey

\* A match is a place in the text.
LEMMA MatchInText ==
  ASSUME Inv, NEW needle \in Seq(Symbols), HasNeedle(needle) # {}
  PROVE  LET n == NextMatch(needle) IN CursorAt(lines, n, Min(Found(lines[n], needle)))
<1> DEFINE below == {n \in HasNeedle(needle) : n >= curLine}
           some == IF below # {} THEN below ELSE HasNeedle(needle)
           n == NextMatch(needle)
<1>1. lines \in Seq(Seq(LineSymbols)) /\ Len(lines) \in Nat
  BY LinesAreSeqs
<1>2. HasNeedle(needle) \subseteq 1..Len(lines)
  BY <1>1 DEF HasNeedle
<1>3. some \subseteq HasNeedle(needle) /\ some # {}
  OBVIOUS
<1>4. n = Min(some)
  BY DEF NextMatch
<1> HIDE DEF some, n
<1>5. some \in SUBSET (0..Len(lines))
  BY <1>2, <1>3
<1>6. n \in some
  BY <1>1, <1>3, <1>4, <1>5, MinOfRange
<1>7. n \in 1..Len(lines) /\ Found(lines[n], needle) # {}
  BY <1>2, <1>3, <1>6 DEF HasNeedle
<1> DEFINE at == Found(lines[n], needle)
<1>8. Len(lines[n]) \in Nat /\ Len(needle) \in Nat
  BY <1>7, LinesAreSeqs
<1>9. at \in SUBSET (0..Len(lines[n]))
  BY <1>8 DEF Found
<1>10. Min(at) \in at
  BY <1>7, <1>8, <1>9, MinOfRange
<1> QED BY <1>7, <1>9, <1>10 DEF CursorAt, n

LEMMA PromptsKeep == Inv /\ PromptKey => Keeps
<1> SUFFICES ASSUME Inv, PromptKey PROVE Keeps
  OBVIOUS
<1> USE DEF Flags, Surroundings, Takes, Prompts
<1>1. CASE QuitAnswered
  <2>1. Flags'
    BY <1>1 DEF QuitAnswered, Close, Inv
  <2> QED BY <1>1, <2>1, PictureStays, RedrawHere DEF QuitAnswered, Close
<1>2. CASE PromptCancelled
  BY <1>2, RedrawHere DEF PromptCancelled, SwitchMode, Inv
<1>3. ASSUME NEW needle \in Needles, Search(needle) PROVE Keeps
  <2>1. Flags'
    BY <1>3 DEF Search, SwitchMode, Inv
  <2>2. needle \in Seq(Symbols)
    BY NeedlesAssumption
  <2>3. CASE HasNeedle(needle) # {}
    BY <1>3, <2>1, <2>2, <2>3, MatchInText, RedrawKeeps DEF Search
  <2>4. CASE HasNeedle(needle) = {}
    BY <1>3, <2>1, <2>4, RedrawHere DEF Search
  <2> QED BY <2>3, <2>4
<1>4. ASSUME NEW number \in 1..MaxLines + 1, Goto(number) PROVE Keeps
  <2> DEFINE line == Minimum(number, Len(lines))
  <2>1. Flags'
    BY <1>4 DEF Goto, SwitchMode, Inv
  <2>2. CursorAt(lines, line, Minimum(curCol, Len(lines[line])))
    BY LinesAreSeqs DEF CursorAt, Minimum
  <2> QED BY <1>4, <2>1, <2>2, RedrawKeeps DEF Goto
<1> QED BY <1>1, <1>2, <1>3, <1>4 DEF PromptKey

LEMMA AroundKeeps == Inv /\ Around => Keeps
<1> SUFFICES ASSUME Inv, Around PROVE Keeps
  OBVIOUS
<1>1. CASE FocusLeaves \/ FocusReturns
  <2>1. Placed' /\ Flags' /\ mode' = mode
    BY <1>1 DEF FocusLeaves, FocusReturns, Buffer, Inv, Placed, CursorAt, CursorVisible, Flags
  <2>2. UNCHANGED <<lines, topLine, screen>> /\ ~UpToDate'
    BY <1>1 DEF FocusLeaves, FocusReturns, Buffer, UpToDate
  <2>3. Shows => Shows'
    BY <2>2 DEF Shows, Row, NoLine, Marks, Intruded, Foreign
  <2> QED BY <2>1, <2>3 DEF Keeps, Inv, Drawn
<1>2. CASE OthersDraw
  <2>1. Placed' /\ Flags' /\ mode' = mode
    BY <1>2 DEF OthersDraw, Buffer, Inv, Placed, CursorAt, CursorVisible, Flags
  <2>2. UNCHANGED <<lines, topLine, focused, event>>
    BY <1>2 DEF OthersDraw, Buffer
  <2>3. Marks' = Marks
    BY <2>2 DEF Marks, UpToDate, Intruded, Foreign
  <2>4. \A row \in Rows : screen'[row] \in {screen[row]} \cup Marks
    BY <1>2 DEF OthersDraw, Marks
  <2>5. Shows => Shows'
    BY <2>2, <2>3, <2>4 DEF Shows, Row, NoLine
  <2> QED BY <2>1, <2>5 DEF Keeps, Inv, Drawn
<1>3. CASE SeeFocus
  BY <1>3, RedrawHere DEF SeeFocus, Inv, Flags
<1>4. CASE FileDeleted
  <2>1. Flags'
    BY <1>4 DEF FileDeleted, Buffer, Inv, Flags
  <2> QED BY <1>4, <2>1, PictureStays DEF FileDeleted, Buffer
<1> QED BY <1>1, <1>2, <1>3, <1>4 DEF Around

-----------------------------------------------------------------------------
\* The theorems.

LEMMA InitInv == Init => Inv /\ Drawn
<1> SUFFICES ASSUME Init PROVE Inv /\ Drawn
  OBVIOUS
<1>1. lines \in Buffers
  BY FilesAssumption, Loads DEF Init, Buffers
<1>2. curLine = 1 /\ curCol = 0 /\ topLine = 1
  BY DEF Init
<1>3. CursorAt(lines, curLine, curCol)
  BY <1>1, <1>2 DEF CursorAt, Buffers
<1>4. CursorVisible
  BY <1>2, TextRowsAssumption DEF CursorVisible
<1>5. DOMAIN screen = Rows /\ Shows
  BY <1>2 DEF Init, Shows
<1>6. Placed
  BY <1>1, <1>2, <1>3, <1>4, <1>5 DEF Placed
<1> QED BY <1>5, <1>6 DEF Inv, Flags, Drawn, Init

LEMMA NextKeeps == Inv /\ [Next]_vars => Inv' /\ ([~SplitFails]_vars /\ Drawn => Drawn')
<1> SUFFICES ASSUME Inv, [Next]_vars PROVE Inv' /\ ([~SplitFails]_vars /\ Drawn => Drawn')
  OBVIOUS
<1>1. CASE WriteMove
  BY <1>1, MovesKeep, PagesKeep DEF WriteMove, Keeps
<1>2. CASE TypeChar \/ TypeTab \/ Backspace \/ Delete \/ Split
  BY <1>2, TypingKeeps, ErasingKeeps, SplitKeeps DEF Keeps
<1>3. CASE SplitFails /\ ~UNCHANGED vars
  BY <1>3, SplitFailsInv
<1>4. CASE Escape \/ CommandKey \/ PromptKey \/ Around
  BY <1>4, CommandsKeep, PromptsKeep, AroundKeeps DEF Keeps
<1>5. CASE UNCHANGED vars
  <2>1. Placed' /\ Flags'
    BY <1>5 DEF vars, Inv, Placed, Flags, CursorAt, CursorVisible
  <2>2. Shows => Shows'
    BY <1>5 DEF vars, Shows, Row, NoLine, Marks, UpToDate, Intruded, Foreign
  <2> QED BY <1>5, <2>1, <2>2 DEF vars, Inv, Drawn
<1> QED BY <1>1, <1>2, <1>3, <1>4, <1>5 DEF Next, WriteEdit

LEMMA InvHolds == Spec => []Inv
<1>1. Init => Inv
  BY InitInv
<1>2. Inv /\ [Next]_vars => Inv'
  BY NextKeeps
<1> QED BY <1>1, <1>2, PTL DEF Spec

\* For every size of the screen and of the array of lines, and whatever the file holds:
\* no sequence of keys takes the cursor out of the text, also where splits fail and the
\* file was cut when it was loaded (scribe_insert_char and the others index without a
\* check).
THEOREM CursorStaysInText == Spec => []CursorInText
BY InvHolds, InvIsCursor, PTL

\* The line with the cursor is always among those in view (scribe_keep_cursor_visible).
THEOREM CursorStaysVisible == Spec => []CursorVisible
BY InvHolds, InvIsCursor, PTL

\* As long as no split fails, the rows a handler draws with those it leaves alone show the
\* text as it is now, except where others have drawn since; what they drew before the
\* focus was seen is gone.  A split that fails leaves the end of the line on the screen
\* (scribe_split_line).
THEOREM ScreenKept == Spec /\ [][~SplitFails]_vars => []ScreenShowsText
<1>1. Init => Drawn
  BY InitInv
<1>2. Inv /\ Drawn /\ [Next]_vars /\ [~SplitFails]_vars => Drawn'
  BY NextKeeps
<1>3. Inv /\ Drawn => ScreenShowsText
  BY DrawnIsShown
<1> QED BY <1>1, <1>2, <1>3, InvHolds, PTL DEF Spec

-----------------------------------------------------------------------------
\* The text of several lines, from the first n of them.

LEMMA LeastOfSome ==
  ASSUME NEW S \in SUBSET Nat, S # {}
  PROVE  \E n \in S : \A m \in S : n <= m
<1>1. PICK n \in S : \A m \in S : <<m, n>> \notin OpToRel(<, Nat)
  BY NatLessThanWellFounded, WFMin, Zenon
<1>2. \A m \in S : ~(m < n)
  BY <1>1 DEF OpToRel
<1> QED BY <1>2

\* From the least number that is not in S
LEMMA Induction ==
  ASSUME NEW S \in SUBSET Nat, 0 \in S, \A n \in S : n + 1 \in S
  PROVE  S = Nat
<1>1. SUFFICES ASSUME Nat \ S # {} PROVE FALSE
  OBVIOUS
<1>2. PICK n \in Nat \ S : \A m \in Nat \ S : n <= m
  BY <1>1, LeastOfSome
<1>3. n - 1 \in S
  BY <1>2
<1> QED BY <1>2, <1>3

\* Sequences of lines
LineLists == Seq(Seq(Symbols)) \ {<<>>}

\* h joins the first n lines, one after the other.
Joins(ls, n, h) ==
  /\ h \in [1..n -> Seq(Symbols)]
  /\ \A i \in 1..n : h[i] = IF i = 1 THEN ls[1] ELSE h[i - 1] \o (<<NL>> \o ls[i])

LEMMA Associative ==
  ASSUME NEW S, NEW a \in Seq(S), NEW b \in Seq(S), NEW c \in Seq(S)
  PROVE  (a \o b) \o c = a \o (b \o c)
BY ConcatAssociative

LEMMA TextsAssociate ==
  \A a \in Seq(Symbols), b \in Seq(Symbols), c \in Seq(Symbols) :
    (a \o b) \o c = a \o (b \o c)
<1> TAKE a \in Seq(Symbols), b \in Seq(Symbols), c \in Seq(Symbols)
<1> DEFINE S == Symbols
<1>1. a \in Seq(S) /\ b \in Seq(S) /\ c \in Seq(S)
  OBVIOUS
<1> HIDE DEF S
<1> QED BY <1>1, Associative

LEMMA NLIsSymbol == <<NL>> \in Seq(Symbols) /\ Len(<<NL>>) = 1
BY DEF Symbols

LEMMA JoinsExist ==
  ASSUME NEW ls \in LineLists, NEW n \in 0..Len(ls)
  PROVE  \E h : Joins(ls, n, h)
<1> DEFINE Some == {m \in Nat : m <= Len(ls) => \E h : Joins(ls, m, h)}
<1>1. 0 \in Some
  <2>1. Joins(ls, 0, [i \in 1..0 |-> <<>>])
    BY DEF Joins
  <2> QED BY <2>1
<1>2. ASSUME NEW m \in Some PROVE m + 1 \in Some
  <2>1. SUFFICES ASSUME m + 1 <= Len(ls) PROVE \E h : Joins(ls, m + 1, h)
    OBVIOUS
  <2>2. Len(ls) \in Nat /\ m \in Nat /\ m + 1 \in 1..Len(ls) /\ m <= Len(ls)
    BY <2>1 DEF LineLists
  <2>3. PICK h : Joins(ls, m, h)
    BY <2>2
  <2>4. ls[m + 1] \in Seq(Symbols) /\ ls[1] \in Seq(Symbols)
    BY <2>2 DEF LineLists
  <2> DEFINE last == IF m = 0 THEN ls[1] ELSE h[m] \o (<<NL>> \o ls[m + 1])
             g == [i \in 1..m + 1 |-> IF i = m + 1 THEN last ELSE h[i]]
  <2>5. last \in Seq(Symbols)
    <3>1. m # 0 => h[m] \in Seq(Symbols)
      BY <2>2, <2>3 DEF Joins
    <3>2. <<NL>> \o ls[m + 1] \in Seq(Symbols)
      BY <2>4, NLIsSymbol, ConcatProperties
    <3> QED BY <2>4, <3>1, <3>2, ConcatProperties
  <2>6. m # 0 => last = h[m] \o (<<NL>> \o ls[m + 1])
    OBVIOUS
  <2>7. m = 0 => last = ls[1]
    OBVIOUS
  <2> HIDE DEF last
  <2>8. g \in [1..m + 1 -> Seq(Symbols)]
    BY <2>2, <2>3, <2>5 DEF Joins
  <2>9. ASSUME NEW i \in 1..m + 1
        PROVE  g[i] = IF i = 1 THEN ls[1] ELSE g[i - 1] \o (<<NL>> \o ls[i])
    <3>1. CASE i = m + 1
      <4>1. CASE m = 0
        BY <3>1, <4>1, <2>7
      <4>2. CASE m # 0
        <5>1. g[m] = h[m] /\ g[i] = last /\ i - 1 = m /\ i # 1
          BY <2>2, <3>1, <4>2
        <5> QED BY <5>1, <4>2, <2>6, <3>1
      <4> QED BY <4>1, <4>2
    <3>2. CASE i # m + 1
      <4>1. i \in 1..m /\ g[i] = h[i]
        BY <2>2, <3>2
      <4>2. i # 1 => i - 1 \in 1..m + 1 /\ i - 1 # m + 1
        BY <2>2, <4>1
      <4>3. i # 1 => g[i - 1] = h[i - 1]
        BY <4>2
      <4> HIDE DEF g
      <4> QED BY <2>3, <4>1, <4>3 DEF Joins
    <3> QED BY <3>1, <3>2
  <2>10. Joins(ls, m + 1, g)
    <3> HIDE DEF g
    <3> QED BY <2>8, <2>9 DEF Joins
  <2> QED BY <2>10
<1>3. Some = Nat
  <2> HIDE DEF Some
  <2>1. Some \in SUBSET Nat
    BY DEF Some
  <2> QED BY <1>1, <1>2, <2>1, Induction
<1> HIDE DEF Some
<1>4. n \in Nat /\ n <= Len(ls)
  BY DEF LineLists
<1>5. n \in Some
  BY <1>3, <1>4
<1> QED BY <1>4, <1>5 DEF Some

LEMMA JoinIsLast ==
  ASSUME NEW ls \in LineLists, NEW h, Joins(ls, Len(ls), h)
  PROVE  Join(ls) = h[Len(ls)]
<1> DEFINE n == Len(ls)
           seqs == [i \in DOMAIN ls |-> IF i < Len(ls) THEN Append(ls[i], NL) ELSE ls[i]]
           Flattens(g) == g = [i \in 1..n |-> IF i = 1 THEN seqs[i] ELSE g[i - 1] \o seqs[i]]
           flat == CHOOSE g : Flattens(g)
           mine == [i \in 1..n |-> IF i < n THEN Append(h[i], NL) ELSE h[i]]
<1>1. n \in Nat /\ n >= 1 /\ DOMAIN ls = 1..n /\ \A i \in 1..n : ls[i] \in Seq(Symbols)
  BY EmptySeq DEF LineLists
<1>2. DOMAIN seqs = 1..n /\ Len(seqs) = n
  BY <1>1
<1>3. Join(ls) = flat[n]
  <2>1. Join(ls) = FlattenSeq(seqs)
    BY DEF Join
  <2> HIDE DEF seqs
  <2>2. FlattenSeq(seqs) = flat[n]
    BY <1>1, <1>2 DEF FlattenSeq
  <2> QED BY <2>1, <2>2
<1>4. ASSUME NEW i \in 1..n PROVE seqs[i] = IF i < n THEN Append(ls[i], NL) ELSE ls[i]
  BY <1>1
<1> HIDE DEF seqs
<1>5. Flattens(mine)
  <2>1. ASSUME NEW i \in 1..n
        PROVE  mine[i] = IF i = 1 THEN seqs[i] ELSE mine[i - 1] \o seqs[i]
    <3>1. h[i] \in Seq(Symbols) /\ ls[i] \in Seq(Symbols) /\ i \in Nat
      BY <1>1 DEF Joins
    <3>2. CASE i = 1
      BY <1>1, <1>4, <3>2 DEF Joins
    <3>3. CASE i # 1
      <4>1. i - 1 \in 1..n /\ i - 1 < n /\ h[i - 1] \in Seq(Symbols)
        <5>1. i - 1 \in 1..n /\ i - 1 < n
          BY <1>1, <3>3
        <5> QED BY <5>1 DEF Joins
      <4>2. h[i] = h[i - 1] \o (<<NL>> \o ls[i])
        BY <3>3 DEF Joins
      <4>3. mine[i - 1] = Append(h[i - 1], NL)
        BY <4>1
      <4>4. Append(h[i - 1], NL) = h[i - 1] \o <<NL>>
        BY <4>1, AppendIsConcat DEF Symbols
      <4>5. h[i] = (h[i - 1] \o <<NL>>) \o ls[i]
        BY <3>1, <4>1, <4>2, NLIsSymbol, TextsAssociate, Zenon
      <4>6. CASE i < n
        <5>1. mine[i] = Append(h[i], NL) /\ seqs[i] = Append(ls[i], NL)
          BY <1>4, <4>6
        <5>2. Append(h[i], NL) = h[i] \o <<NL>> /\ Append(ls[i], NL) = ls[i] \o <<NL>>
          BY <3>1, AppendIsConcat DEF Symbols
        <5> DEFINE before == h[i - 1] \o <<NL>>
        <5>3. before \in Seq(Symbols)
          BY <4>1, NLIsSymbol, ConcatProperties
        <5> HIDE DEF before
        <5>4. (before \o ls[i]) \o <<NL>> = before \o (ls[i] \o <<NL>>)
          BY <3>1, <5>3, NLIsSymbol, TextsAssociate, Zenon
        <5>5. mine[i] = (before \o ls[i]) \o <<NL>>
          BY <5>1, <5>2, <4>5 DEF before
        <5>6. mine[i - 1] = before
          BY <4>3, <4>4 DEF before
        <5>7. seqs[i] = ls[i] \o <<NL>>
          BY <5>1, <5>2
        <5> HIDE DEF mine
        <5> QED BY <3>3, <5>4, <5>5, <5>6, <5>7
      <4>7. CASE ~(i < n)
        <5>1. mine[i] = h[i] /\ seqs[i] = ls[i]
          BY <1>4, <4>7
        <5> HIDE DEF mine
        <5> QED BY <3>3, <4>3, <4>4, <4>5, <5>1
      <4> QED BY <4>6, <4>7
    <3> QED BY <3>2, <3>3
  <2> DEFINE other == [i \in 1..n |-> IF i = 1 THEN seqs[i] ELSE mine[i - 1] \o seqs[i]]
  <2>2. \A i \in 1..n : mine[i] = other[i]
    <3> HIDE DEF mine
    <3> QED BY <2>1
  <2>3. DOMAIN mine = 1..n /\ DOMAIN other = 1..n
    OBVIOUS
  <2>4. mine = [i \in 1..n |-> mine[i]] /\ other = [i \in 1..n |-> other[i]]
    OBVIOUS
  <2>5. mine = other
    <3> HIDE DEF mine, other, n
    <3> QED BY <2>2, <2>4
  <2> QED BY <2>5
<1>6. Flattens(flat)
  <2> HIDE DEF Flattens, mine
  <2> QED BY <1>5
<1>7. flat[n] = mine[n]
  <2> DEFINE Same == {i \in Nat : i + 1 <= n => flat[i + 1] = mine[i + 1]}
  <2>1. \A i \in 1..n : flat[i] = IF i = 1 THEN seqs[i] ELSE flat[i - 1] \o seqs[i]
    <3> HIDE DEF flat
    <3> QED BY <1>6
  <2>2. \A i \in 1..n : mine[i] = IF i = 1 THEN seqs[i] ELSE mine[i - 1] \o seqs[i]
    <3> HIDE DEF mine
    <3> QED BY <1>5
  <2> HIDE DEF flat, mine, Flattens
  <2>3. 0 \in Same
    BY <1>1, <2>1, <2>2
  <2>4. ASSUME NEW i \in Same PROVE i + 1 \in Same
    <3>1. SUFFICES ASSUME (i + 1) + 1 <= n PROVE flat[(i + 1) + 1] = mine[(i + 1) + 1]
      OBVIOUS
    <3>2. /\ (i + 1) + 1 \in 1..n /\ (i + 1) + 1 # 1 /\ ((i + 1) + 1) - 1 = i + 1
          /\ i + 1 <= n
      BY <1>1, <3>1
    <3>3. flat[i + 1] = mine[i + 1]
      BY <3>2
    <3> QED BY <2>1, <2>2, <3>2, <3>3
  <2>5. Same = Nat
    <3> HIDE DEF Same
    <3>1. Same \in SUBSET Nat
      BY DEF Same
    <3> QED BY <2>3, <2>4, <3>1, Induction
  <2>6. n - 1 \in Same
    <3> HIDE DEF Same
    <3> QED BY <1>1, <2>5
  <2>7. (n - 1) + 1 = n
    BY <1>1
  <2>8. flat[(n - 1) + 1] = mine[(n - 1) + 1]
    BY <1>1, <2>6, <2>7
  <2> QED BY <2>7, <2>8
<1>8. mine[n] = h[n]
  BY <1>1
<1> QED BY <1>3, <1>7, <1>8

-----------------------------------------------------------------------------
\* The text of lines put together.

Lines == Seq(Symbols)

LEMMA JoinIsText ==
  ASSUME NEW ls \in LineLists
  PROVE  Join(ls) \in Lines
<1>1. Len(ls) \in 1..Len(ls)
  BY EmptySeq DEF LineLists
<1>2. PICK h : Joins(ls, Len(ls), h)
  BY <1>1, JoinsExist
<1>3. h[Len(ls)] \in Seq(Symbols)
  BY <1>1, <1>2 DEF Joins
<1> QED BY <1>2, <1>3, JoinIsLast DEF Lines

LEMMA JoinOfOne ==
  ASSUME NEW l \in Lines
  PROVE  <<l>> \in LineLists /\ Join(<<l>>) = l
<1>1. <<l>> \in LineLists /\ Len(<<l>>) = 1 /\ <<l>>[1] = l
  BY DEF Lines, LineLists
<1> DEFINE ls == <<l>>
<1> HIDE DEF ls
<1>2. PICK h : Joins(ls, Len(ls), h)
  BY <1>1, JoinsExist DEF ls
<1>3. h[1] = l
  BY <1>1, <1>2 DEF Joins, ls
<1>4. Join(ls) = h[Len(ls)]
  BY <1>1, <1>2, JoinIsLast DEF ls
<1> QED BY <1>1, <1>3, <1>4 DEF ls

LEMMA JoinOfMore ==
  ASSUME NEW ls \in LineLists, NEW l \in Lines
  PROVE  /\ Append(ls, l) \in LineLists
         /\ Join(Append(ls, l)) = Join(ls) \o (<<NL>> \o l)
<1> DEFINE more == Append(ls, l)
           n == Len(ls)
<1>1. ls \in Seq(Seq(Symbols)) /\ l \in Seq(Symbols) /\ n \in Nat /\ n >= 1
  BY EmptySeq DEF LineLists, Lines
<1>2. /\ more \in LineLists /\ Len(more) = n + 1 /\ more[n + 1] = l
      /\ \A i \in 1..n : more[i] = ls[i]
  BY <1>1 DEF LineLists
<1> HIDE DEF more
<1>3. PICK h : Joins(more, n + 1, h)
  BY <1>1, <1>2, JoinsExist
<1>4. Join(more) = h[n + 1]
  BY <1>2, <1>3, JoinIsLast
<1> DEFINE g == [i \in 1..n |-> h[i]]
<1>5. Joins(ls, n, g)
  <2>1. g \in [1..n -> Seq(Symbols)]
    BY <1>1, <1>3 DEF Joins
  <2>2. ASSUME NEW i \in 1..n
        PROVE  g[i] = IF i = 1 THEN ls[1] ELSE g[i - 1] \o (<<NL>> \o ls[i])
    <3>1. g[i] = h[i] /\ i \in 1..n + 1 /\ more[i] = ls[i] /\ more[1] = ls[1]
      BY <1>1, <1>2
    <3>2. i # 1 => g[i - 1] = h[i - 1]
      BY <1>1
    <3> HIDE DEF g
    <3> QED BY <1>3, <3>1, <3>2 DEF Joins
  <2> HIDE DEF g
  <2> QED BY <2>1, <2>2 DEF Joins
<1>6. Join(ls) = h[n]
  <2>1. g[n] = h[n]
    BY <1>1
  <2> HIDE DEF g
  <2> QED BY <1>5, <2>1, JoinIsLast
<1>7. h[n + 1] = h[n] \o (<<NL>> \o l)
  <2>1. n + 1 \in 1..n + 1 /\ n + 1 # 1 /\ (n + 1) - 1 = n
    BY <1>1
  <2> QED BY <1>2, <1>3, <2>1 DEF Joins
<1>8. Join(more) = Join(ls) \o (<<NL>> \o l)
  BY <1>4, <1>6, <1>7
<1> QED BY <1>2, <1>8 DEF more

LEMMA ListsAssociate ==
  \A a \in Seq(Lines), b \in Seq(Lines), c \in Seq(Lines) : (a \o b) \o c = a \o (b \o c)
<1> TAKE a \in Seq(Lines), b \in Seq(Lines), c \in Seq(Lines)
<1> DEFINE S == Lines
<1>1. a \in Seq(S) /\ b \in Seq(S) /\ c \in Seq(S)
  OBVIOUS
<1> HIDE DEF S
<1> QED BY <1>1, Associative

LEMMA Lists ==
  LineLists = Seq(Lines) \ {<<>>} /\ \A ls \in LineLists : Len(ls) \in Nat /\ Len(ls) >= 1
BY EmptySeq DEF LineLists, Lines

LEMMA JoinConcat ==
  ASSUME NEW u \in LineLists, NEW w \in LineLists
  PROVE  u \o w \in LineLists /\ Join(u \o w) = Join(u) \o (<<NL>> \o Join(w))
<1> DEFINE Splits(v) == u \o v \in LineLists /\ Join(u \o v) = Join(u) \o (<<NL>> \o Join(v))
           Good == {n \in Nat : \A v \in LineLists : Len(v) = n + 1 => Splits(v)}
<1>1. 0 \in Good
  <2>1. SUFFICES ASSUME NEW v \in LineLists, Len(v) = 1 PROVE Splits(v)
    OBVIOUS
  <2> DEFINE l == v[1]
  <2>2. v = <<l>> /\ l \in Lines
    BY <2>1, Lists
  <2> HIDE DEF l
  <2>3. u \o v = Append(u, l)
    BY <2>2, Lists, AppendIsConcat
  <2>4. Append(u, l) \in LineLists /\ Join(Append(u, l)) = Join(u) \o (<<NL>> \o l)
    BY <2>2, JoinOfMore
  <2>5. Join(v) = l
    BY <2>2, JoinOfOne
  <2> QED BY <2>3, <2>4, <2>5
<1>2. ASSUME NEW n \in Good PROVE n + 1 \in Good
  <2>1. SUFFICES ASSUME NEW v \in LineLists, Len(v) = (n + 1) + 1 PROVE Splits(v)
    OBVIOUS
  <2>2. v \in Seq(Lines) /\ v # <<>>
    BY Lists
  <2>3. PICK r \in Seq(Lines), l \in Lines : v = Append(r, l)
    BY <2>2, SequenceEmptyOrAppend
  <2>4. Len(r) = n + 1 /\ n \in Nat
    BY <2>1, <2>3
  <2>5. r \in LineLists
    BY <2>4, Lists
  <2>6. Splits(r)
    BY <2>4, <2>5
  <2>7. /\ v \in LineLists /\ Join(v) = Join(r) \o (<<NL>> \o l)
    BY <2>3, <2>5, JoinOfMore
  <2>8. u \o v = Append(u \o r, l)
    <3>1. u \in Seq(Lines)
      BY Lists
    <3>2. v = r \o <<l>>
      BY <2>3, AppendIsConcat
    <3>3. Append(u \o r, l) = (u \o r) \o <<l>>
      BY <3>1, ConcatProperties, AppendIsConcat
    <3>4. <<l>> \in Seq(Lines)
      OBVIOUS
    <3>5. (u \o r) \o <<l>> = u \o (r \o <<l>>)
      BY <3>1, <3>4, ListsAssociate, Zenon
    <3> QED BY <3>2, <3>3, <3>5
  <2>9. /\ Append(u \o r, l) \in LineLists
        /\ Join(Append(u \o r, l)) = Join(u \o r) \o (<<NL>> \o l)
    BY <2>6, JoinOfMore
  <2>10. (Join(u) \o (<<NL>> \o Join(r))) \o (<<NL>> \o l)
           = Join(u) \o (<<NL>> \o (Join(r) \o (<<NL>> \o l)))
    <3> DEFINE U == Join(u)
               R == Join(r)
               E == <<NL>> \o l
               N == <<NL>>
    <3>1. U \in Seq(Symbols) /\ R \in Seq(Symbols) /\ N \in Seq(Symbols) /\ E \in Seq(Symbols)
      BY <2>5, JoinIsText, NLIsSymbol, ConcatProperties DEF Lines
    <3> HIDE DEF U, R, E, N
    <3>2. N \o R \in Seq(Symbols)
      BY <3>1, ConcatProperties
    <3>3. (U \o (N \o R)) \o E = U \o ((N \o R) \o E)
      BY <3>1, <3>2, TextsAssociate, Zenon
    <3>4. (N \o R) \o E = N \o (R \o E)
      BY <3>1, TextsAssociate, Zenon
    <3>5. (U \o (N \o R)) \o E = U \o (N \o (R \o E))
      BY <3>3, <3>4, Zenon
    <3> QED BY <3>5 DEF U, R, E, N
  <2> QED BY <2>6, <2>7, <2>8, <2>9, <2>10, Zenon
<1>3. Good = Nat
  <2> HIDE DEF Good
  <2>1. Good \in SUBSET Nat
    BY DEF Good
  <2> QED BY <1>1, <1>2, <2>1, Induction
<1> HIDE DEF Splits
<1>4. Len(w) - 1 \in Nat /\ (Len(w) - 1) + 1 = Len(w)
  BY Lists
<1>5. Splits(w)
  <2> DEFINE n == Len(w) - 1
  <2> HIDE DEF n
  <2>1. n \in Good /\ Len(w) = n + 1
    <3> HIDE DEF Good
    <3> QED BY <1>3, <1>4 DEF n
  <2> QED BY <2>1
<1> QED BY <1>5 DEF Splits

\* What stands before and after some lines of a text
Ahead(u) == IF u = <<>> THEN <<>> ELSE Join(u) \o <<NL>>
Behind(v) == IF v = <<>> THEN <<>> ELSE <<NL>> \o Join(v)

LEMMA AroundAreTexts ==
  ASSUME NEW u \in Seq(Lines)
  PROVE  Ahead(u) \in Lines /\ Behind(u) \in Lines
<1>1. CASE u = <<>>
  BY <1>1 DEF Ahead, Behind, Lines
<1>2. CASE u # <<>>
  <2>1. Join(u) \in Lines
    BY <1>2, Lists, JoinIsText
  <2> QED BY <1>2, <2>1, NLIsSymbol, ConcatProperties DEF Ahead, Behind, Lines
<1> QED BY <1>1, <1>2

LEMMA JoinAround ==
  ASSUME NEW u \in Seq(Lines), NEW w \in LineLists, NEW v \in Seq(Lines)
  PROVE  Join((u \o w) \o v) = (Ahead(u) \o Join(w)) \o Behind(v)
<1> DEFINE W == Join(w)
           N == <<NL>>
<1>1. W \in Seq(Symbols) /\ N \in Seq(Symbols)
  BY JoinIsText, NLIsSymbol DEF Lines
<1>2. u \o w \in LineLists /\ Join(u \o w) = Ahead(u) \o W
  <2>1. CASE u = <<>>
    <3>1. u \o w = w
      BY <2>1, Lists, ConcatEmptySeq
    <3>2. Ahead(u) \o W = W
      BY <1>1, <2>1, ConcatEmptySeq DEF Ahead
    <3> QED BY <3>1, <3>2
  <2>2. CASE u # <<>>
    <3>1. u \in LineLists
      BY <2>2, Lists
    <3>2. u \o w \in LineLists /\ Join(u \o w) = Join(u) \o (N \o W)
      BY <3>1, JoinConcat
    <3>3. Join(u) \in Seq(Symbols)
      BY <3>1, JoinIsText DEF Lines
    <3>4. Ahead(u) = Join(u) \o N
      BY <2>2 DEF Ahead
    <3> HIDE DEF W, N
    <3>5. (Join(u) \o N) \o W = Join(u) \o (N \o W)
      BY <1>1, <3>3, TextsAssociate, Zenon
    <3> QED BY <3>2, <3>4, <3>5
  <2> QED BY <2>1, <2>2
<1> DEFINE front == u \o w
<1>3. front \in LineLists /\ front \in Seq(Lines) /\ Join(front) \in Seq(Symbols)
  BY <1>2, Lists, JoinIsText DEF Lines
<1>4. Join(front \o v) = Join(front) \o Behind(v)
  <2> HIDE DEF front
  <2>1. CASE v = <<>>
    <3>1. front \o v = front
      BY <1>3, <2>1, ConcatEmptySeq
    <3>2. Join(front) \o Behind(v) = Join(front)
      BY <1>3, <2>1, ConcatEmptySeq DEF Behind
    <3> QED BY <3>1, <3>2
  <2>2. CASE v # <<>>
    <3>1. v \in LineLists
      BY <2>2, Lists
    <3> QED BY <1>3, <2>2, <3>1, JoinConcat DEF Behind
  <2> QED BY <2>1, <2>2
<1> QED BY <1>2, <1>4

-----------------------------------------------------------------------------
\* A text in three pieces.

\* Three pieces of a sequence, one after the other
Pieces(a, b, c) == (a \o b) \o c

Shown(s, a, b, c) ==
  /\ Len(s) = Len(a) + Len(b) + Len(c)
  /\ \A i \in 1..Len(a) : s[i] = a[i]
  /\ \A i \in 1..Len(b) : s[Len(a) + i] = b[i]
  /\ \A i \in 1..Len(c) : s[Len(a) + Len(b) + i] = c[i]

LEMMA ThreePieces ==
  ASSUME NEW S, NEW a \in Seq(S), NEW b \in Seq(S), NEW c \in Seq(S)
  PROVE  Pieces(a, b, c) \in Seq(S) /\ Shown(Pieces(a, b, c), a, b, c)
<1> DEFINE d == a \o b
<1>1. /\ d \in Seq(S) /\ Len(d) = Len(a) + Len(b)
      /\ \A i \in 1..Len(a) + Len(b) : d[i] = IF i <= Len(a) THEN a[i] ELSE b[i - Len(a)]
      /\ Len(a) \in Nat /\ Len(b) \in Nat /\ Len(c) \in Nat
  BY ConcatProperties
<1> HIDE DEF d
<1>2. /\ d \o c \in Seq(S) /\ Len(d \o c) = Len(d) + Len(c)
      /\ \A i \in 1..Len(d) + Len(c) : (d \o c)[i] = IF i <= Len(d) THEN d[i] ELSE c[i - Len(d)]
  <2>1. d \o c \in Seq(S) /\ Len(d \o c) = Len(d) + Len(c)
    BY <1>1, ConcatProperties
  <2>2. ASSUME NEW i \in 1..Len(d) + Len(c)
        PROVE  (d \o c)[i] = IF i <= Len(d) THEN d[i] ELSE c[i - Len(d)]
    BY <1>1, ConcatProperties
  <2> QED BY <2>1, <2>2
<1>3. ASSUME NEW i \in 1..Len(a) PROVE (d \o c)[i] = a[i]
  <2>1. i \in 1..Len(a) + Len(b) /\ i \in 1..Len(d) + Len(c) /\ i <= Len(d) /\ i <= Len(a)
    BY <1>1
  <2> QED BY <1>1, <1>2, <2>1
<1>4. ASSUME NEW i \in 1..Len(b) PROVE (d \o c)[Len(a) + i] = b[i]
  <2> DEFINE k == Len(a) + i
  <2>1. /\ k \in 1..Len(a) + Len(b) /\ k \in 1..Len(d) + Len(c) /\ k <= Len(d) /\ ~(k <= Len(a))
        /\ k - Len(a) = i
    BY <1>1
  <2> HIDE DEF k
  <2>2. (d \o c)[k] = b[i]
    BY <1>1, <1>2, <2>1
  <2> QED BY <2>2 DEF k
<1>5. ASSUME NEW i \in 1..Len(c) PROVE (d \o c)[Len(a) + Len(b) + i] = c[i]
  <2> DEFINE k == Len(a) + Len(b) + i
  <2>1. k \in 1..Len(d) + Len(c) /\ ~(k <= Len(d)) /\ k - Len(d) = i
    BY <1>1
  <2> HIDE DEF k
  <2>2. (d \o c)[k] = c[i]
    BY <1>1, <1>2, <2>1
  <2> QED BY <2>2 DEF k
<1>6. d \o c \in Seq(S) /\ Len(d \o c) = Len(a) + Len(b) + Len(c)
  BY <1>1, <1>2
<1>7. Pieces(a, b, c) = d \o c
  BY DEF Pieces, d
<1> QED BY <1>3, <1>4, <1>5, <1>6, <1>7 DEF Shown

\* A sequence that shows the three pieces is the three pieces.
LEMMA IsThreePieces ==
  ASSUME NEW S, NEW s \in Seq(S), NEW a \in Seq(S), NEW b \in Seq(S), NEW c \in Seq(S),
         Shown(s, a, b, c)
  PROVE  s = Pieces(a, b, c)
<1> DEFINE t == Pieces(a, b, c)
<1>1. t \in Seq(S) /\ Shown(t, a, b, c)
  BY ThreePieces
<1> HIDE DEF t
<1>2. Len(a) \in Nat /\ Len(b) \in Nat /\ Len(c) \in Nat /\ Len(s) = Len(a) + Len(b) + Len(c)
  BY DEF Shown
<1>3. ASSUME NEW i \in 1..Len(s) PROVE s[i] = t[i]
  <2>0. i \in 1..Len(a) + Len(b) + Len(c) /\ i \in Nat
    BY <1>2
  <2>1. CASE i <= Len(a)
    <3>1. i \in 1..Len(a)
      BY <2>0, <2>1
    <3> QED BY <1>1, <3>1 DEF Shown
  <2>2. CASE i > Len(a) /\ i <= Len(a) + Len(b)
    <3>1. i - Len(a) \in 1..Len(b) /\ Len(a) + (i - Len(a)) = i
      BY <1>2, <2>0, <2>2
    <3> DEFINE k == i - Len(a)
    <3>2. s[Len(a) + k] = b[k] /\ t[Len(a) + k] = b[k]
      BY <1>1, <3>1 DEF Shown
    <3>3. Len(a) + k = i
      BY <3>1
    <3> HIDE DEF k
    <3> QED BY <3>2, <3>3
  <2>3. CASE i > Len(a) + Len(b)
    <3> DEFINE k == i - (Len(a) + Len(b))
    <3>1. k \in 1..Len(c) /\ Len(a) + Len(b) + k = i
      BY <1>2, <2>0, <2>3
    <3> HIDE DEF k
    <3>2. s[Len(a) + Len(b) + k] = c[k] /\ t[Len(a) + Len(b) + k] = c[k]
      BY <1>1, <3>1 DEF Shown
    <3> QED BY <3>1, <3>2
  <2> QED BY <1>2, <2>0, <2>1, <2>2, <2>3
<1>4. Len(s) = Len(t)
  BY <1>1 DEF Shown
<1>5. s = t
  BY <1>1, <1>3, <1>4, SeqEqual
<1> QED BY <1>5 DEF t

\* Erasing the element between two pieces
LEMMA ErasedBetween ==
  ASSUME NEW S, NEW p \in Seq(S), NEW e \in S, NEW q \in Seq(S)
  PROVE  RemoveAt(Pieces(p, <<e>>, q), Len(p) + 1) = p \o q
<1> DEFINE one == <<e>>
           s == Pieces(p, one, q)
           r == RemoveAt(s, Len(p) + 1)
<1>1. one \in Seq(S) /\ Len(one) = 1 /\ one[1] = e
  OBVIOUS
<1> HIDE DEF one
<1>0. s \in Seq(S) /\ Shown(s, p, one, q)
  BY <1>1, ThreePieces
<1> HIDE DEF s
<1>2. /\ Len(s) = Len(p) + 1 + Len(q) /\ Len(p) \in Nat /\ Len(q) \in Nat
      /\ \A i \in 1..Len(p) : s[i] = p[i]
      /\ \A i \in 1..Len(q) : s[Len(p) + 1 + i] = q[i]
  BY <1>0, <1>1 DEF Shown
<1>3. Len(p) + 1 \in 1..Len(s)
  BY <1>2
<1>4. /\ r \in Seq(S) /\ Len(r) = Len(s) - 1
      /\ \A i \in 1..Len(s) - 1 : r[i] = IF i < Len(p) + 1 THEN s[i] ELSE s[i + 1]
  BY <1>0, <1>3, RemovedIsSeq
<1> HIDE DEF r
<1> DEFINE t == p \o q
<1>5. /\ t \in Seq(S) /\ Len(t) = Len(p) + Len(q)
      /\ \A i \in 1..Len(p) + Len(q) : t[i] = IF i <= Len(p) THEN p[i] ELSE q[i - Len(p)]
  BY ConcatProperties
<1> HIDE DEF t
<1>6. ASSUME NEW i \in 1..Len(r) PROVE r[i] = t[i]
  <2>1. i \in 1..Len(s) - 1 /\ i \in 1..Len(p) + Len(q) /\ i \in Nat
    BY <1>2, <1>4
  <2>2. CASE i <= Len(p)
    <3>1. i \in 1..Len(p) /\ i < Len(p) + 1
      BY <1>2, <2>1, <2>2
    <3>2. r[i] = s[i] /\ s[i] = p[i] /\ t[i] = p[i]
      BY <1>2, <1>4, <1>5, <2>1, <2>2, <3>1
    <3> QED BY <3>2
  <2>3. CASE i > Len(p)
    <3> DEFINE k == i - Len(p)
    <3>1. k \in 1..Len(q) /\ Len(p) + 1 + k = i + 1 /\ ~(i < Len(p) + 1)
      BY <1>2, <2>1, <2>3
    <3>2. t[i] = q[k] /\ r[i] = s[i + 1]
      BY <1>2, <1>4, <1>5, <2>1, <2>3, <3>1
    <3> HIDE DEF k
    <3>3. s[Len(p) + 1 + k] = q[k]
      BY <1>2, <3>1
    <3> QED BY <3>1, <3>2, <3>3
  <2> QED BY <1>2, <2>1, <2>2, <2>3
<1>7. Len(r) = Len(t)
  BY <1>2, <1>4, <1>5
<1>8. r = t
  BY <1>4, <1>5, <1>6, <1>7, SeqEqual
<1> QED BY <1>8 DEF r, s, t, one

\* The two parts of a joined sequence
LEMMA PartsOfJoined ==
  ASSUME NEW S, NEW p \in Seq(S), NEW q \in Seq(S)
  PROVE  /\ SubSeq(p \o q, 1, Len(p)) = p
         /\ SubSeq(p \o q, Len(p) + 1, Len(p \o q)) = q
<1> DEFINE s == p \o q
           x == SubSeq(s, 1, Len(p))
           y == SubSeq(s, Len(p) + 1, Len(s))
<1>1. /\ s \in Seq(S) /\ Len(s) = Len(p) + Len(q) /\ Len(p) \in Nat /\ Len(q) \in Nat
      /\ \A i \in 1..Len(p) + Len(q) : s[i] = IF i <= Len(p) THEN p[i] ELSE q[i - Len(p)]
  BY ConcatProperties
<1> HIDE DEF s
<1>2. /\ 1 \in 1..Len(s) + 1 /\ Len(p) \in 0..Len(s)
      /\ Len(p) + 1 \in 1..Len(s) + 1 /\ Len(s) \in 0..Len(s)
  BY <1>1
<1>3. /\ x \in Seq(S) /\ Len(x) = Len(p) /\ \A i \in 1..Len(x) : x[i] = s[i]
  <2>1. /\ x \in Seq(S) /\ Len(x) = (IF 1 <= Len(p) THEN Len(p) - 1 + 1 ELSE 0)
        /\ \A i \in 1..Len(x) : x[i] = s[1 + i - 1]
    BY <1>1, <1>2, PartIsSeq
  <2> HIDE DEF x
  <2> QED BY <1>1, <2>1
<1>4. /\ y \in Seq(S) /\ Len(y) = Len(q) /\ \A i \in 1..Len(y) : y[i] = s[Len(p) + i]
  <2>1. /\ y \in Seq(S)
        /\ Len(y) = (IF Len(p) + 1 <= Len(s) THEN Len(s) - (Len(p) + 1) + 1 ELSE 0)
        /\ \A i \in 1..Len(y) : y[i] = s[(Len(p) + 1) + i - 1]
    BY <1>1, <1>2, PartIsSeq
  <2> HIDE DEF y
  <2>2. Len(y) = Len(q)
    BY <1>1, <2>1
  <2>3. ASSUME NEW i \in 1..Len(y) PROVE y[i] = s[Len(p) + i]
    <3>1. (Len(p) + 1) + i - 1 = Len(p) + i
      BY <1>1, <2>2
    <3>2. y[i] = s[(Len(p) + 1) + i - 1]
      BY <2>1
    <3> QED BY <3>1, <3>2
  <2> QED BY <2>1, <2>2, <2>3
<1> HIDE DEF x, y
<1>5. \A i \in 1..Len(x) : x[i] = p[i]
  BY <1>1, <1>3
<1>6. ASSUME NEW i \in 1..Len(y) PROVE y[i] = q[i]
  <2>1. /\ Len(p) + i \in 1..Len(p) + Len(q) /\ ~(Len(p) + i <= Len(p))
        /\ (Len(p) + i) - Len(p) = i
    BY <1>1, <1>4
  <2>2. s[Len(p) + i] = q[(Len(p) + i) - Len(p)]
    BY <1>1, <2>1
  <2> QED BY <1>4, <2>1, <2>2
<1>7. x = p /\ y = q
  BY <1>3, <1>4, <1>5, <1>6, SeqEqual
<1> QED BY <1>7 DEF x, y, s

-----------------------------------------------------------------------------
\* Lines replaced, cut in two and put together.

LEMMA JoinOfPieces ==
  ASSUME NEW u \in Seq(Lines), NEW w \in LineLists, NEW v \in Seq(Lines)
  PROVE  /\ Join(Pieces(u, w, v)) = Pieces(Ahead(u), Join(w), Behind(v))
         /\ Pieces(u, w, v) \in LineLists
<1>1. Join(Pieces(u, w, v)) = Pieces(Ahead(u), Join(w), Behind(v))
  BY JoinAround DEF Pieces
<1>2. w \in Seq(Lines) /\ Len(w) >= 1 /\ Len(w) \in Nat
  BY Lists
<1>3. Pieces(u, w, v) \in Seq(Lines) /\ Shown(Pieces(u, w, v), u, w, v)
  BY <1>2, ThreePieces
<1>4. Len(Pieces(u, w, v)) # 0
  <2>1. Len(Pieces(u, w, v)) = Len(u) + Len(w) + Len(v) /\ Len(u) \in Nat /\ Len(v) \in Nat
    BY <1>3 DEF Shown
  <2> QED BY <1>2, <2>1
<1>5. Pieces(u, w, v) # <<>>
  BY <1>4
<1> QED BY <1>1, <1>3, <1>5, Lists

LEMMA JoinOfTwo ==
  ASSUME NEW x \in Lines, NEW y \in Lines
  PROVE  <<x, y>> \in LineLists /\ Join(<<x, y>>) = Pieces(x, <<NL>>, y)
<1> DEFINE one == <<x>>
           nl == <<NL>>
<1>1. one \in LineLists /\ Join(one) = x
  BY JoinOfOne
<1>2. <<x, y>> = Append(one, y)
  OBVIOUS
<1> HIDE DEF one
<1>3. Append(one, y) \in LineLists /\ Join(Append(one, y)) = x \o (nl \o y)
  BY <1>1, JoinOfMore
<1>4. nl \in Seq(Symbols) /\ x \in Seq(Symbols) /\ y \in Seq(Symbols)
  BY NLIsSymbol DEF Lines
<1> HIDE DEF nl
<1>5. x \o (nl \o y) = (x \o nl) \o y
  BY <1>4, TextsAssociate, Zenon
<1> QED BY <1>2, <1>3, <1>5 DEF Pieces, nl

\* The lines before and after the nth
Upper(ls, n) == SubSeq(ls, 1, n - 1)
Lower(ls, n) == SubSeq(ls, n + 1, Len(ls))

LEMMA UpperLower ==
  ASSUME NEW S, NEW ls \in Seq(S), NEW n \in 1..Len(ls)
  PROVE  /\ Upper(ls, n) \in Seq(S) /\ Len(Upper(ls, n)) = n - 1
         /\ \A i \in 1..n - 1 : Upper(ls, n)[i] = ls[i]
         /\ Lower(ls, n) \in Seq(S) /\ Len(Lower(ls, n)) = Len(ls) - n
         /\ \A i \in 1..Len(ls) - n : Lower(ls, n)[i] = ls[n + i]
<1>1. Len(ls) \in Nat /\ 1 \in 1..Len(ls) + 1 /\ n - 1 \in 0..Len(ls) /\ n + 1 \in 1..Len(ls) + 1
  OBVIOUS
<1>2. /\ Upper(ls, n) \in Seq(S) /\ Len(Upper(ls, n)) = n - 1
      /\ \A i \in 1..n - 1 : Upper(ls, n)[i] = ls[i]
  BY <1>1, PartIsSeq DEF Upper
<1>3. /\ Lower(ls, n) \in Seq(S) /\ Len(Lower(ls, n)) = Len(ls) - n
      /\ \A i \in 1..Len(ls) - n : Lower(ls, n)[i] = ls[n + i]
  <2>1. /\ Lower(ls, n) \in Seq(S) /\ Len(Lower(ls, n)) = Len(ls) - n
        /\ \A i \in 1..Len(Lower(ls, n)) : Lower(ls, n)[i] = ls[n + 1 + i - 1]
    BY <1>1, PartIsSeq DEF Lower
  <2>2. ASSUME NEW i \in 1..Len(ls) - n PROVE Lower(ls, n)[i] = ls[n + i]
    <3>1. i \in 1..Len(Lower(ls, n)) /\ n + 1 + i - 1 = n + i
      BY <2>1
    <3> QED BY <2>1, <3>1
  <2> QED BY <2>1, <2>2
<1> QED BY <1>2, <1>3

\* A line replaced by another, or by itself
LEMMA ReplacedIs ==
  ASSUME NEW S, NEW ls \in Seq(S), NEW n \in 1..Len(ls), NEW l \in S
  PROVE  /\ ReplaceAt(ls, n, l) = Pieces(Upper(ls, n), <<l>>, Lower(ls, n))
         /\ ls = Pieces(Upper(ls, n), <<ls[n]>>, Lower(ls, n))
<1> DEFINE u == Upper(ls, n)
           v == Lower(ls, n)
<1>1. /\ u \in Seq(S) /\ Len(u) = n - 1 /\ \A i \in 1..n - 1 : u[i] = ls[i]
      /\ v \in Seq(S) /\ Len(v) = Len(ls) - n /\ \A i \in 1..Len(ls) - n : v[i] = ls[n + i]
  BY UpperLower
<1> HIDE DEF u, v
<1>2. ASSUME NEW s \in Seq(S), NEW x \in S, Len(s) = Len(ls), s[n] = x,
             \A i \in 1..Len(ls) : i # n => s[i] = ls[i]
      PROVE  s = Pieces(u, <<x>>, v)
  <2> DEFINE one == <<x>>
  <2>1. one \in Seq(S) /\ Len(one) = 1 /\ one[1] = x
    OBVIOUS
  <2> HIDE DEF one
  <2>2. ASSUME NEW i \in 1..Len(u) PROVE s[i] = u[i]
    <3>1. i \in 1..n - 1 /\ i \in 1..Len(ls) /\ i # n
      BY <1>1
    <3> QED BY <1>1, <1>2, <3>1
  <2>3. ASSUME NEW i \in 1..Len(one) PROVE s[Len(u) + i] = one[i]
    <3>1. i = 1 /\ Len(u) + i = n
      BY <1>1, <2>1
    <3> QED BY <1>2, <2>1, <3>1
  <2>4. ASSUME NEW i \in 1..Len(v) PROVE s[Len(u) + Len(one) + i] = v[i]
    <3>1. /\ Len(u) + Len(one) + i = n + i /\ n + i \in 1..Len(ls) /\ n + i # n
          /\ i \in 1..Len(ls) - n
      BY <1>1, <2>1
    <3> QED BY <1>1, <1>2, <3>1
  <2>5. Len(s) = Len(u) + Len(one) + Len(v)
    BY <1>1, <1>2, <2>1
  <2>6. Shown(s, u, one, v)
    BY <2>2, <2>3, <2>4, <2>5 DEF Shown
  <2>7. s = Pieces(u, one, v)
    BY <1>1, <2>1, <2>6, IsThreePieces
  <2> QED BY <2>7 DEF one
<1>3. ls[n] \in S
  OBVIOUS
<1>4. ls = Pieces(u, <<ls[n]>>, v)
  BY <1>2, <1>3
<1> DEFINE r == ReplaceAt(ls, n, l)
<1>5. r \in Seq(S) /\ Len(r) = Len(ls) /\ r[n] = l /\ \A i \in 1..Len(ls) : i # n => r[i] = ls[i]
  BY DEF ReplaceAt
<1> HIDE DEF r
<1>6. r = Pieces(u, <<l>>, v)
  BY <1>2, <1>5
<1> QED BY <1>4, <1>6 DEF r, u, v

LEMMA InsertedIsPieces ==
  ASSUME NEW s, NEW i, NEW e
  PROVE  InsertAt(s, i, e) = Pieces(SubSeq(s, 1, i - 1), <<e>>, SubSeq(s, i, Len(s)))
BY DEF InsertAt, Pieces

\* Two lines in the place of one
LEMMA SplitIs ==
  ASSUME NEW S, NEW ls \in Seq(S), NEW n \in 1..Len(ls), NEW x \in S, NEW y \in S
  PROVE  InsertAt(ReplaceAt(ls, n, x), n + 1, y) = Pieces(Upper(ls, n), <<x, y>>, Lower(ls, n))
<1> DEFINE u == Upper(ls, n)
           v == Lower(ls, n)
           r == ReplaceAt(ls, n, x)
           a == SubSeq(r, 1, n)
           b == SubSeq(r, n + 1, Len(r))
           two == <<x, y>>
           one == <<y>>
           s == Pieces(a, one, b)
<1>1. /\ u \in Seq(S) /\ Len(u) = n - 1 /\ \A i \in 1..n - 1 : u[i] = ls[i]
      /\ v \in Seq(S) /\ Len(v) = Len(ls) - n /\ \A i \in 1..Len(ls) - n : v[i] = ls[n + i]
  BY UpperLower
<1>2. r \in Seq(S) /\ Len(r) = Len(ls) /\ r[n] = x /\ \A i \in 1..Len(ls) : i # n => r[i] = ls[i]
  BY DEF ReplaceAt
<1>3. InsertAt(r, n + 1, y) = s
  <2> DEFINE m == n + 1
  <2>1. m - 1 = n
    OBVIOUS
  <2> HIDE DEF r, m
  <2>2. InsertAt(r, m, y) = Pieces(SubSeq(r, 1, m - 1), <<y>>, SubSeq(r, m, Len(r)))
    BY InsertedIsPieces
  <2> QED BY <2>1, <2>2 DEF m
<1>4. one \in Seq(S) /\ Len(one) = 1 /\ one[1] = y
  OBVIOUS
<1>5. two \in Seq(S) /\ Len(two) = 2 /\ two[1] = x /\ two[2] = y
  OBVIOUS
<1> HIDE DEF u, v, r, one, two
<1>6. a \in Seq(S) /\ Len(a) = n /\ \A i \in 1..n : a[i] = r[i]
  <2>1. 1 \in 1..Len(r) + 1 /\ n \in 0..Len(r)
    BY <1>2
  <2>2. /\ a \in Seq(S) /\ Len(a) = (IF 1 <= n THEN n - 1 + 1 ELSE 0)
        /\ \A i \in 1..Len(a) : a[i] = r[1 + i - 1]
    BY <1>2, <2>1, PartIsSeq
  <2> HIDE DEF a
  <2> QED BY <2>2
<1>7. b = Lower(r, n)
  BY DEF Lower
<1>8. b \in Seq(S) /\ Len(b) = Len(ls) - n /\ \A i \in 1..Len(ls) - n : b[i] = r[n + i]
  <2>1. n \in 1..Len(r)
    BY <1>2
  <2>2. /\ Lower(r, n) \in Seq(S) /\ Len(Lower(r, n)) = Len(r) - n
        /\ \A i \in 1..Len(r) - n : Lower(r, n)[i] = r[n + i]
    BY <1>2, <2>1, UpperLower
  <2> HIDE DEF b
  <2> QED BY <1>2, <1>7, <2>2
<1> HIDE DEF a, b
<1>9. s \in Seq(S) /\ Shown(s, a, one, b)
  BY <1>4, <1>6, <1>8, ThreePieces
<1> HIDE DEF s
<1>10. /\ Len(s) = Len(ls) + 1
       /\ \A i \in 1..n : s[i] = a[i]
       /\ s[n + 1] = y
       /\ \A i \in 1..Len(ls) - n : s[n + 1 + i] = b[i]
  BY <1>4, <1>6, <1>8, <1>9 DEF Shown
<1>11. ASSUME NEW i \in 1..Len(u) PROVE s[i] = u[i]
  <2>1. i \in 1..n - 1 /\ i \in 1..n /\ i \in 1..Len(ls) /\ i # n
    BY <1>1
  <2> QED BY <1>1, <1>2, <1>6, <1>10, <2>1
<1>12. ASSUME NEW i \in 1..Len(two) PROVE s[Len(u) + i] = two[i]
  <2>1. (i = 1 \/ i = 2) /\ Len(u) + 1 = n /\ Len(u) + 2 = n + 1 /\ n \in 1..n
    BY <1>1, <1>5
  <2>2. s[n] = x
    BY <1>2, <1>6, <1>10, <2>1
  <2> QED BY <1>5, <1>10, <2>1, <2>2
<1>13. ASSUME NEW i \in 1..Len(v) PROVE s[Len(u) + Len(two) + i] = v[i]
  <2>1. /\ Len(u) + Len(two) + i = n + 1 + i /\ i \in 1..Len(ls) - n
        /\ n + i \in 1..Len(ls) /\ n + i # n
    BY <1>1, <1>5
  <2>2. s[n + 1 + i] = b[i] /\ b[i] = r[n + i] /\ r[n + i] = ls[n + i] /\ v[i] = ls[n + i]
    BY <1>1, <1>2, <1>8, <1>10, <2>1
  <2> QED BY <2>1, <2>2
<1>14. Len(s) = Len(u) + Len(two) + Len(v)
  BY <1>1, <1>5, <1>10
<1>15. s = Pieces(u, two, v)
  <2>1. Shown(s, u, two, v)
    BY <1>11, <1>12, <1>13, <1>14 DEF Shown
  <2> QED BY <1>1, <1>5, <1>9, <2>1, IsThreePieces
<1> QED BY <1>3, <1>15 DEF u, v, r, two

\* One line in the place of two
LEMMA MergedIs ==
  ASSUME NEW S, NEW ls \in Seq(S), NEW n \in 1..Len(ls) - 1, NEW x \in S
  PROVE  /\ RemoveAt(ReplaceAt(ls, n, x), n + 1) = Pieces(Upper(ls, n), <<x>>, Lower(ls, n + 1))
         /\ ls = Pieces(Upper(ls, n), <<ls[n], ls[n + 1]>>, Lower(ls, n + 1))
<1> DEFINE u == Upper(ls, n)
           v == Lower(ls, n + 1)
           r == ReplaceAt(ls, n, x)
           s == RemoveAt(r, n + 1)
           m == n + 1
           two == <<ls[n], ls[n + 1]>>
           one == <<x>>
<1>0. Len(ls) \in Nat /\ n \in 1..Len(ls) /\ m \in 1..Len(ls) /\ m = n + 1 /\ n \in Nat
  OBVIOUS
<1>1. /\ u \in Seq(S) /\ Len(u) = n - 1 /\ \A i \in 1..n - 1 : u[i] = ls[i]
      /\ v \in Seq(S) /\ Len(v) = Len(ls) - m /\ \A i \in 1..Len(ls) - m : v[i] = ls[m + i]
  <2>1. v = Lower(ls, m)
    OBVIOUS
  <2> HIDE DEF m, v
  <2> QED BY <1>0, <2>1, UpperLower
<1>2. r \in Seq(S) /\ Len(r) = Len(ls) /\ r[n] = x /\ \A i \in 1..Len(ls) : i # n => r[i] = ls[i]
  BY <1>0 DEF ReplaceAt
<1>3. one \in Seq(S) /\ Len(one) = 1 /\ one[1] = x
  OBVIOUS
<1>4. two \in Seq(S) /\ Len(two) = 2 /\ two[1] = ls[n] /\ two[2] = ls[m]
  OBVIOUS
<1>5. /\ s \in Seq(S) /\ Len(s) = Len(ls) - 1
      /\ \A i \in 1..Len(ls) - 1 : s[i] = IF i < m THEN r[i] ELSE r[i + 1]
  <2> HIDE DEF m, r
  <2> DEFINE t == RemoveAt(r, m)
  <2>1. /\ t \in Seq(S) /\ Len(t) = Len(r) - 1
        /\ \A i \in 1..Len(r) - 1 : t[i] = IF i < m THEN r[i] ELSE r[i + 1]
    BY <1>0, <1>2, RemovedIsSeq
  <2>2. s = t
    BY <1>0
  <2> HIDE DEF t, s
  <2> QED BY <1>2, <2>1, <2>2
<1>6. two = <<ls[n], ls[m]>>
  OBVIOUS
<1> HIDE DEF u, v, r, s, m, one, two
<1>7. s = Pieces(u, one, v)
  <2>1. ASSUME NEW i \in 1..Len(u) PROVE s[i] = u[i]
    <3>1. i \in 1..n - 1 /\ i \in 1..Len(ls) - 1 /\ i < m /\ i \in 1..Len(ls) /\ i # n
      BY <1>0, <1>1
    <3> QED BY <1>1, <1>2, <1>5, <3>1
  <2>2. ASSUME NEW i \in 1..Len(one) PROVE s[Len(u) + i] = one[i]
    <3>1. i = 1 /\ Len(u) + i = n /\ n \in 1..Len(ls) - 1 /\ n < m
      BY <1>0, <1>1, <1>3
    <3> QED BY <1>2, <1>3, <1>5, <3>1
  <2>3. ASSUME NEW i \in 1..Len(v) PROVE s[Len(u) + Len(one) + i] = v[i]
    <3>1. /\ Len(u) + Len(one) + i = n + i /\ n + i \in 1..Len(ls) - 1 /\ ~(n + i < m)
          /\ (n + i) + 1 = m + i /\ m + i \in 1..Len(ls) /\ m + i # n /\ i \in 1..Len(ls) - m
      BY <1>0, <1>1, <1>3
    <3>2. s[n + i] = r[(n + i) + 1]
      BY <1>5, <3>1
    <3>3. r[m + i] = ls[m + i] /\ v[i] = ls[m + i]
      BY <1>1, <1>2, <3>1
    <3> QED BY <3>1, <3>2, <3>3
  <2>4. Len(s) = Len(u) + Len(one) + Len(v)
    BY <1>0, <1>1, <1>3, <1>5
  <2>5. Shown(s, u, one, v)
    BY <2>1, <2>2, <2>3, <2>4 DEF Shown
  <2> QED BY <1>1, <1>3, <1>5, <2>5, IsThreePieces
<1>8. ls = Pieces(u, two, v)
  <2>1. ASSUME NEW i \in 1..Len(u) PROVE ls[i] = u[i]
    BY <1>0, <1>1
  <2>2. ASSUME NEW i \in 1..Len(two) PROVE ls[Len(u) + i] = two[i]
    <3>1. (i = 1 \/ i = 2) /\ Len(u) + 1 = n /\ Len(u) + 2 = m
      BY <1>0, <1>1, <1>4
    <3> QED BY <1>4, <3>1
  <2>3. ASSUME NEW i \in 1..Len(v) PROVE ls[Len(u) + Len(two) + i] = v[i]
    <3>1. Len(u) + Len(two) + i = m + i /\ i \in 1..Len(ls) - m
      BY <1>0, <1>1, <1>4
    <3> QED BY <1>1, <3>1
  <2>4. Len(ls) = Len(u) + Len(two) + Len(v)
    BY <1>0, <1>1, <1>4
  <2>5. Shown(ls, u, two, v)
    BY <2>1, <2>2, <2>3, <2>4 DEF Shown
  <2> QED BY <1>1, <1>4, <2>5, IsThreePieces
<1> QED BY <1>0, <1>6, <1>7, <1>8 DEF u, v, r, s, m, one, two

-----------------------------------------------------------------------------
\* What that does to the text.

LEMMA JoinedLines == \A a \in Lines, b \in Lines : a \o b \in Lines /\ Len(a \o b) = Len(a) + Len(b)
BY ConcatProperties DEF Lines

LEMMA LinesAssociate ==
  \A a \in Lines, b \in Lines, c \in Lines : (a \o b) \o c = a \o (b \o c)
BY TextsAssociate DEF Lines

\* A name for the concatenation: the provers match it where they would unfold \o.
Cat(a, b) == a \o b

\* The middle belongs to both sides.
LEMMA MiddleJoined ==
  \A a \in Lines, b \in Lines, c \in Lines, d \in Lines :
    Pieces(a, Cat(b, c), d) = Cat(Cat(a, b), Cat(c, d))
<1> TAKE a \in Lines, b \in Lines, c \in Lines, d \in Lines
<1> DEFINE e == a \o b
<1>1. e \in Lines
  BY JoinedLines, Zenon
<1>2. a \o (b \o c) = e \o c
  BY LinesAssociate, Zenon
<1> HIDE DEF e
<1>3. (e \o c) \o d = e \o (c \o d)
  BY <1>1, LinesAssociate, Zenon
<1>4. Pieces(a, b \o c, d) = e \o (c \o d)
  BY <1>2, <1>3, Zenon DEF Pieces
<1> QED BY <1>4 DEF e, Cat

LEMMA MiddleInPieces ==
  \A a \in Lines, b \in Lines, c \in Lines, d \in Lines, e \in Lines :
    Pieces(a, Pieces(b, c, d), e) = Pieces(Cat(a, b), c, Cat(d, e))
<1> TAKE a \in Lines, b \in Lines, c \in Lines, d \in Lines, e \in Lines
<1> DEFINE m == b \o c
<1>1. m \in Lines
  BY JoinedLines, Zenon
<1>2. a \o m = (a \o b) \o c
  BY LinesAssociate, Zenon
<1>3. Pieces(b, c, d) = Cat(m, d)
  BY Zenon DEF Pieces, Cat
<1> HIDE DEF m
<1>4. Pieces(a, Cat(m, d), e) = Cat(Cat(a, m), Cat(d, e))
  BY <1>1, MiddleJoined
<1>5. Cat(Cat(a, m), Cat(d, e)) = Pieces(Cat(a, b), c, Cat(d, e))
  BY <1>2, Zenon DEF Cat, Pieces
<1> QED BY <1>3, <1>4, <1>5

LEMMA CutInTwo ==
  ASSUME NEW l \in Lines, NEW c \in 0..Len(l)
  PROVE  /\ SubSeq(l, 1, c) \in Lines /\ Len(SubSeq(l, 1, c)) = c
         /\ SubSeq(l, c + 1, Len(l)) \in Lines
         /\ l = SubSeq(l, 1, c) \o SubSeq(l, c + 1, Len(l))
<1> DEFINE S == Symbols
<1>1. l \in Seq(S)
  BY DEF Lines
<1> HIDE DEF S
<1>2. /\ 1 \in 1..Len(l) + 1 /\ c \in 1 - 1..Len(l) /\ Len(l) \in c..Len(l) /\ c + 1 \in 1..Len(l) + 1
      /\ c \in 0..Len(l) /\ Len(l) \in 0..Len(l)
  BY <1>1
<1>3. SubSeq(l, 1, c) \o SubSeq(l, c + 1, Len(l)) = SubSeq(l, 1, Len(l))
  BY <1>1, <1>2, ConcatAdjacentSubSeq
<1>4. SubSeq(l, 1, Len(l)) = l
  BY <1>1, SubSeqFull
<1>5. SubSeq(l, 1, c) \in Seq(S) /\ Len(SubSeq(l, 1, c)) = c /\ SubSeq(l, c + 1, Len(l)) \in Seq(S)
  BY <1>1, <1>2, PartIsSeq
<1> QED BY <1>3, <1>4, <1>5 DEF S, Lines

\* Inserting into a line is inserting into the text.
LEMMA TextInserted ==
  ASSUME NEW a \in Lines, NEW l \in Lines, NEW b \in Lines, NEW typed \in Lines,
         NEW c \in 0..Len(l), NEW k, k = Len(a) + c
  PROVE  LET t == Pieces(a, l, b)
         IN  Pieces(SubSeq(t, 1, k), typed, SubSeq(t, k + 1, Len(t)))
               = Pieces(a, Pieces(SubSeq(l, 1, c), typed, SubSeq(l, c + 1, Len(l))), b)
<1> DEFINE x == SubSeq(l, 1, c)
           y == SubSeq(l, c + 1, Len(l))
           t == Pieces(a, l, b)
           p == Cat(a, x)
           q == Cat(y, b)
<1>1. x \in Lines /\ Len(x) = c /\ y \in Lines /\ l = x \o y
  BY CutInTwo
<1> HIDE DEF x, y
<1>3. p \in Lines /\ q \in Lines /\ Len(p) = k
  BY <1>1, JoinedLines DEF Cat
<1>2. t = p \o q
  <2>1. l = Cat(x, y)
    BY <1>1 DEF Cat
  <2>2. t = Cat(p, q)
    BY <1>1, <2>1, MiddleJoined
  <2> QED BY <2>2 DEF Cat
<1>6. Pieces(p, typed, q) = Pieces(a, Pieces(x, typed, y), b)
  BY <1>1, MiddleInPieces
<1> HIDE DEF p, q, t
<1>4. SubSeq(p \o q, 1, Len(p)) = p /\ SubSeq(p \o q, Len(p) + 1, Len(p \o q)) = q
  BY <1>3, PartsOfJoined DEF Lines
<1>5. SubSeq(t, 1, k) = p /\ SubSeq(t, k + 1, Len(t)) = q
  BY <1>2, <1>3, <1>4
<1>7. Pieces(SubSeq(t, 1, k), typed, SubSeq(t, k + 1, Len(t))) = Pieces(a, Pieces(x, typed, y), b)
  BY <1>5, <1>6
<1> QED BY <1>7 DEF t, x, y

\* Erasing from a line is erasing from the text.
LEMMA TextErased ==
  ASSUME NEW a \in Lines, NEW l \in Lines, NEW b \in Lines, NEW at \in 1..Len(l),
         NEW k, k = Len(a) + at
  PROVE  RemoveAt(Pieces(a, l, b), k) = Pieces(a, RemoveAt(l, at), b)
<1> DEFINE S == Symbols
           x == Upper(l, at)
           y == Lower(l, at)
           one == <<l[at]>>
           p == Cat(a, x)
           q == Cat(y, b)
<1>0. l \in Seq(S) /\ Lines = Seq(S)
  BY DEF Lines
<1> HIDE DEF S
<1>1. /\ x \in Lines /\ Len(x) = at - 1 /\ y \in Lines /\ l[at] \in S
      /\ l = Pieces(x, one, y)
  <2>1. x \in Seq(S) /\ Len(x) = at - 1 /\ y \in Seq(S)
    BY <1>0, UpperLower
  <2>2. l[at] \in S
    BY <1>0
  <2>3. l = Pieces(x, one, y)
    BY <1>0, <2>2, ReplacedIs
  <2> QED BY <1>0, <2>1, <2>2, <2>3
<1>2. one \in Lines
  BY <1>0, <1>1
<1>3. RemoveAt(l, at) = x \o y
  BY DEF RemoveAt, Upper, Lower
<1> HIDE DEF x, y
<1>4. Pieces(a, l, b) = Pieces(p, one, q)
  <2> HIDE DEF one
  <2> QED BY <1>1, <1>2, MiddleInPieces
<1>6. p \o q = Pieces(a, x \o y, b)
  <2>1. Pieces(a, Cat(x, y), b) = Cat(p, q)
    BY <1>1, MiddleJoined
  <2> HIDE DEF p, q
  <2> QED BY <2>1 DEF Cat
<1>5. p \in Lines /\ q \in Lines /\ Len(p) + 1 = k
  <2>1. p \in Lines /\ q \in Lines /\ Len(p) = Len(a) + Len(x)
    BY <1>1, JoinedLines DEF Cat
  <2>2. Len(a) \in Nat
    BY DEF Lines
  <2> HIDE DEF p, q
  <2> QED BY <1>1, <2>1, <2>2
<1> HIDE DEF p, q
<1>7. RemoveAt(Pieces(p, one, q), Len(p) + 1) = p \o q
  BY <1>0, <1>1, <1>5, ErasedBetween
<1> QED BY <1>3, <1>4, <1>5, <1>6, <1>7

\* Two lines with their break, without it
LEMMA BreakErased ==
  ASSUME NEW a \in Lines, NEW b \in Lines
  PROVE  /\ Pieces(a, <<NL>>, b) \in Lines
         /\ Len(a) + 1 \in 1..Len(Pieces(a, <<NL>>, b))
         /\ RemoveAt(Pieces(a, <<NL>>, b), Len(a) + 1) = a \o b
<1> DEFINE S == Symbols
           nl == <<NL>>
<1>1. a \in Seq(S) /\ b \in Seq(S) /\ NL \in S /\ Lines = Seq(S)
  BY DEF Lines, Symbols
<1>2. nl \in Seq(S) /\ Len(nl) = 1
  BY <1>1
<1> HIDE DEF S
<1>3. RemoveAt(Pieces(a, nl, b), Len(a) + 1) = a \o b
  BY <1>1, ErasedBetween
<1> HIDE DEF nl
<1>4. Pieces(a, nl, b) \in Seq(S) /\ Len(Pieces(a, nl, b)) = Len(a) + 1 + Len(b)
  <2>1. Pieces(a, nl, b) \in Seq(S) /\ Shown(Pieces(a, nl, b), a, nl, b)
    BY <1>1, <1>2, ThreePieces
  <2> QED BY <1>2, <2>1 DEF Shown
<1>5. Len(a) \in Nat /\ Len(b) \in Nat
  BY <1>1
<1>6. Len(a) + 1 \in 1..Len(Pieces(a, nl, b))
  BY <1>4, <1>5
<1> QED BY <1>1, <1>3, <1>4, <1>6 DEF nl

-----------------------------------------------------------------------------
PointAt(ls, n, c) == Len(Join(Append(SubSeq(ls, 1, n - 1), SubSeq(ls[n], 1, c))))

LEMMA AheadGrows ==
  ASSUME NEW u \in Seq(Lines), NEW l \in Lines
  PROVE  /\ Append(u, l) \in LineLists
         /\ Join(Append(u, l)) = Ahead(u) \o l
         /\ Ahead(Append(u, l)) = Pieces(Ahead(u), l, <<NL>>)
<1> DEFINE w == <<l>>
           none == <<>>
           more == Append(u, l)
<1>1. w \in LineLists /\ Join(w) = l /\ w \in Seq(Lines)
  BY JoinOfOne, Lists
<1>2. none \in Seq(Lines) /\ Behind(none) = <<>>
  BY DEF Behind
<1>3. more = u \o w
  BY AppendIsConcat
<1> HIDE DEF w, more
<1>4. u \o w \in Seq(Lines)
  BY <1>1, ConcatProperties
<1>5. Pieces(u, w, none) = more
  BY <1>3, <1>4, ConcatEmptySeq DEF Pieces
<1> HIDE DEF none
<1>6. Join(Pieces(u, w, none)) = Pieces(Ahead(u), l, <<>>) /\ Pieces(u, w, none) \in LineLists
  BY <1>1, <1>2, JoinOfPieces
<1>7. Ahead(u) \o l \in Lines
  BY AroundAreTexts, JoinedLines
<1>8. (Ahead(u) \o l) \o <<>> = Ahead(u) \o l
  BY <1>7, ConcatEmptySeq DEF Lines
<1>9. Join(more) = Ahead(u) \o l /\ more \in LineLists
  BY <1>5, <1>6, <1>8 DEF Pieces
<1>10. more # <<>>
  BY <1>9, Lists
<1>11. Ahead(more) = Pieces(Ahead(u), l, <<NL>>)
  BY <1>9, <1>10 DEF Ahead, Pieces
<1> QED BY <1>9, <1>11 DEF more

\* The text around the cursor, and the point in it
LEMMA PointIs ==
  ASSUME NEW ls \in LineLists, NEW n \in 1..Len(ls), NEW c \in 0..Len(ls[n])
  PROVE  /\ ls[n] \in Lines
         /\ Ahead(Upper(ls, n)) \in Lines /\ Behind(Lower(ls, n)) \in Lines
         /\ Join(ls) = Pieces(Ahead(Upper(ls, n)), ls[n], Behind(Lower(ls, n)))
         /\ PointAt(ls, n, c) = Len(Ahead(Upper(ls, n))) + c
         /\ PointAt(ls, n, c) \in 0..Len(Join(ls))
<1> DEFINE u == Upper(ls, n)
           v == Lower(ls, n)
           l == ls[n]
           one == <<l>>
           part == SubSeq(l, 1, c)
           A == Ahead(u)
           B == Behind(v)
<1>1. ls \in Seq(Lines) /\ l \in Lines
  BY Lists
<1>0. ls[n] \in Lines
  BY <1>1
<1>2. u \in Seq(Lines) /\ v \in Seq(Lines)
  BY <1>1, UpperLower
<1>3. ls = Pieces(u, one, v)
  BY <1>1, ReplacedIs
<1>4. one \in LineLists /\ Join(one) = l
  BY <1>1, JoinOfOne
<1>5. Join(ls) = Pieces(A, l, B)
  <2> HIDE DEF u, v, one, l
  <2> QED BY <1>2, <1>3, <1>4, JoinOfPieces
<1>6. part \in Lines /\ Len(part) = c
  BY <1>1, CutInTwo
<1>7. A \in Lines /\ B \in Lines
  BY <1>2, AroundAreTexts
<1>8. PointAt(ls, n, c) = Len(Join(Append(u, part)))
  BY DEF PointAt, Upper
<1> HIDE DEF u, v, l, one, part
<1>9. Join(Append(u, part)) = A \o part
  BY <1>2, <1>6, AheadGrows
<1> HIDE DEF A, B
<1>10. PointAt(ls, n, c) = Len(A) + c
  BY <1>6, <1>7, <1>8, <1>9, JoinedLines
<1>11. Len(Join(ls)) = Len(A) + Len(l) + Len(B) /\ Len(A) \in Nat /\ Len(l) \in Nat /\ Len(B) \in Nat
  <2>1. Shown(Join(ls), A, l, B)
    BY <1>0, <1>5, <1>7, ThreePieces DEF Lines, l
  <2>2. l \in Lines
    BY <1>0 DEF l
  <2> QED BY <1>7, <2>1, <2>2 DEF Lines, Shown
<1>12. PointAt(ls, n, c) \in 0..Len(Join(ls))
  <2>1. c \in 0..Len(l)
    BY DEF l
  <2> QED BY <1>10, <1>11, <2>1
<1> QED BY <1>1, <1>5, <1>7, <1>10, <1>12 DEF A, B, u, v, l

LEMMA ConcatIsPieces ==
  ASSUME NEW S, NEW u \in Seq(S), NEW w \in Seq(S), NEW v \in Seq(S)
  PROVE  Pieces(u, w, v) = Cat(u, Cat(w, v)) /\ Cat(w, v) \in Seq(S)
<1>1. (u \o w) \o v = u \o (w \o v)
  BY Associative
<1>2. w \o v \in Seq(S)
  BY ConcatProperties
<1> QED BY <1>1, <1>2 DEF Pieces, Cat

LEMMA FrontOfPieces ==
  ASSUME NEW S, NEW u \in Seq(S), NEW e \in S, NEW v \in Seq(S), NEW n, n = Len(u) + 1
  PROVE  /\ SubSeq(Pieces(u, <<e>>, v), 1, n - 1) = u
         /\ Pieces(u, <<e>>, v)[n] = e
         /\ n \in 1..Len(Pieces(u, <<e>>, v))
<1> DEFINE one == <<e>>
           q == Cat(one, v)
           s == Pieces(u, one, v)
<1>1. one \in Seq(S) /\ Len(one) = 1 /\ one[1] = e
  OBVIOUS
<1> HIDE DEF one
<1>2. s = u \o q /\ q \in Seq(S)
  <2>1. s = Cat(u, q) /\ q \in Seq(S)
    BY <1>1, ConcatIsPieces
  <2> QED BY <2>1 DEF Cat
<1>3. s \in Seq(S) /\ Shown(s, u, one, v)
  BY <1>1, ThreePieces
<1> HIDE DEF q, s
<1>4. SubSeq(u \o q, 1, Len(u)) = u
  BY <1>2, PartsOfJoined
<1>5. Len(u) \in Nat /\ Len(v) \in Nat /\ n - 1 = Len(u)
  OBVIOUS
<1>6. SubSeq(s, 1, n - 1) = u
  BY <1>2, <1>4, <1>5
<1>7. s[n] = e /\ n \in 1..Len(s)
  BY <1>1, <1>3, <1>5 DEF Shown
<1> QED BY <1>6, <1>7 DEF s, one

LEMMA TwoInPieces ==
  ASSUME NEW S, NEW u \in Seq(S), NEW x \in S, NEW y \in S, NEW v \in Seq(S)
  PROVE  /\ Pieces(u, <<x, y>>, v) = Pieces(Append(u, x), <<y>>, v)
         /\ Append(u, x) \in Seq(S) /\ Len(Append(u, x)) = Len(u) + 1
<1> DEFINE a == <<x>>
           b == <<y>>
           two == <<x, y>>
           more == Append(u, x)
<1>1. a \in Seq(S) /\ b \in Seq(S) /\ two = a \o b
  <2>1. a \in Seq(S) /\ b \in Seq(S)
    OBVIOUS
  <2>2. two = Append(a, y)
    OBVIOUS
  <2>3. Append(a, y) = a \o b
    BY <2>1, AppendIsConcat
  <2> QED BY <2>1, <2>2, <2>3
<1>2. more = u \o a /\ more \in Seq(S) /\ Len(more) = Len(u) + 1
  BY AppendIsConcat
<1> HIDE DEF a, b, two, more
<1>3. (u \o a) \o b = u \o (a \o b)
  BY <1>1, Associative
<1>4. Pieces(u, two, v) = Pieces(more, b, v)
  BY <1>1, <1>2, <1>3 DEF Pieces
<1> QED BY <1>2, <1>4 DEF two, more, b

\* The text with a line between others, and the point in that line
LEMMA TextOfLine ==
  ASSUME NEW u \in Seq(Lines), NEW l \in Lines, NEW v \in Seq(Lines), NEW c \in 0..Len(l),
         NEW n, n = Len(u) + 1
  PROVE  /\ Join(Pieces(u, <<l>>, v)) = Pieces(Ahead(u), l, Behind(v))
         /\ PointAt(Pieces(u, <<l>>, v), n, c) = Len(Ahead(u)) + c
         /\ Len(Ahead(u)) + c \in Nat
<1> DEFINE one == <<l>>
           s == Pieces(u, one, v)
           part == SubSeq(l, 1, c)
           A == Ahead(u)
<1>1. one \in LineLists /\ Join(one) = l
  BY JoinOfOne
<1>2. SubSeq(s, 1, n - 1) = u /\ s[n] = l
  BY FrontOfPieces
<1> HIDE DEF one
<1>3. Join(s) = Pieces(A, l, Behind(v))
  BY <1>1, JoinOfPieces
<1>4. part \in Lines /\ Len(part) = c
  BY CutInTwo
<1> HIDE DEF s
<1>5. PointAt(s, n, c) = Len(Join(Append(u, part)))
  BY <1>2 DEF PointAt
<1> HIDE DEF part
<1>6. Join(Append(u, part)) = A \o part
  BY <1>4, AheadGrows
<1>7. A \in Lines
  BY AroundAreTexts
<1> HIDE DEF A
<1>8. PointAt(s, n, c) = Len(A) + c /\ Len(A) \in Nat
  <2>1. Len(A \o part) = Len(A) + Len(part)
    BY <1>4, <1>7, JoinedLines, Zenon
  <2>2. Len(A) \in Nat
    BY <1>7 DEF Lines
  <2> QED BY <1>4, <1>5, <1>6, <2>1, <2>2
<1>9. Len(A) + c \in Nat
  <2>1. c \in Nat
    BY DEF Lines
  <2> QED BY <1>8, <2>1
<1> QED BY <1>3, <1>8, <1>9 DEF s, one, A

LEMMA BrokenLength ==
  ASSUME NEW a \in Lines, NEW x \in Lines
  PROVE  Len(Pieces(a, x, <<NL>>)) = Len(a) + Len(x) + 1
<1> DEFINE nl == <<NL>>
<1>1. nl \in Lines /\ Len(nl) = 1
  BY NLIsSymbol DEF Lines
<1> HIDE DEF nl
<1>2. Shown(Pieces(a, x, nl), a, x, nl)
  BY <1>1, ThreePieces DEF Lines
<1>3. Len(Pieces(a, x, nl)) = Len(a) + Len(x) + 1
  BY <1>1, <1>2 DEF Shown
<1> QED BY <1>3 DEF nl

\* The text with two lines between others, and the point where the second begins
LEMMA TextOfTwo ==
  ASSUME NEW u \in Seq(Lines), NEW x \in Lines, NEW y \in Lines, NEW v \in Seq(Lines),
         NEW n, n = Len(u) + 2
  PROVE  /\ Join(Pieces(u, <<x, y>>, v)) = Pieces(Ahead(u), Pieces(x, <<NL>>, y), Behind(v))
         /\ PointAt(Pieces(u, <<x, y>>, v), n, 0) = Len(Pieces(Ahead(u), x, <<NL>>))
<1> DEFINE two == <<x, y>>
           more == Append(u, x)
           A == Ahead(u)
           nl == <<NL>>
<1>1. two \in LineLists /\ Join(two) = Pieces(x, nl, y)
  BY JoinOfTwo
<1>2. /\ Pieces(u, two, v) = Pieces(more, <<y>>, v)
      /\ more \in Seq(Lines) /\ Len(more) = Len(u) + 1
  BY TwoInPieces
<1>3. Ahead(more) = Pieces(A, x, nl)
  BY AheadGrows
<1> HIDE DEF two, more
<1>4. Join(Pieces(u, two, v)) = Pieces(A, Join(two), Behind(v))
  BY <1>1, JoinOfPieces
<1>5. n = Len(more) + 1 /\ 0 \in 0..Len(y)
  BY <1>2 DEF Lines
<1>6. PointAt(Pieces(more, <<y>>, v), n, 0) = Len(Ahead(more)) + 0
  BY <1>2, <1>5, TextOfLine
<1>7. nl \in Lines /\ Len(nl) = 1 /\ A \in Lines
  BY NLIsSymbol, AroundAreTexts DEF Lines
<1> HIDE DEF A, nl
<1>8. Len(Pieces(A, x, nl)) = Len(A) + Len(x) + 1
  BY <1>7, BrokenLength DEF nl
<1>9. Len(A) \in Nat /\ Len(x) \in Nat
  BY <1>7 DEF Lines
<1>10. PointAt(Pieces(u, two, v), n, 0) = Len(Pieces(A, x, nl))
  BY <1>2, <1>3, <1>6, <1>8, <1>9
<1> QED BY <1>1, <1>4, <1>10 DEF two, A, nl

-----------------------------------------------------------------------------
\* The cursor's line, and what the handlers do to the text.

LEMMA BufferIsLists ==
  ASSUME NEW ls \in Buffers
  PROVE  ls \in LineLists /\ ls \in Seq(Lines)
<1>1. LineSymbols \subseteq Symbols
  BY DEF LineSymbols
<1>2. Seq(LineSymbols) \subseteq Seq(Symbols)
  BY <1>1, SeqMonotonic
<1>3. Seq(Seq(LineSymbols)) \subseteq Seq(Seq(Symbols))
  BY <1>2, SeqMonotonic
<1>4. ls \in Seq(Seq(Symbols)) /\ Len(ls) \in 1..MaxLines
  BY <1>3 DEF Buffers
<1>5. ls # <<>>
  BY <1>4
<1> QED BY <1>4, <1>5 DEF LineLists, Lines

LEMMA CursorLine ==
  ASSUME Inv
  PROVE  /\ lines \in LineLists /\ lines \in Seq(Lines)
         /\ curLine \in 1..Len(lines) /\ lines[curLine] \in Lines
         /\ curCol \in 0..Len(lines[curLine]) /\ CurLen = Len(lines[curLine])
         /\ Point = PointAt(lines, curLine, curCol)
         /\ Point \in 0..Len(Join(lines)) /\ Len(Join(lines)) \in Nat
<1>1. lines \in LineLists /\ lines \in Seq(Lines)
  BY BufferIsLists DEF Inv, Placed
<1>2. curLine \in 1..Len(lines) /\ curCol \in 0..Len(lines[curLine])
  BY DEF Inv, Placed, CursorAt
<1>3. Point = PointAt(lines, curLine, curCol)
  BY DEF Point, PointAt
<1>4. Point \in 0..Len(Join(lines))
  BY <1>1, <1>2, <1>3, PointIs
<1>5. Join(lines) \in Lines
  BY <1>1, JoinIsText
<1>6. lines[curLine] \in Lines
  BY <1>1, <1>2, Lists
<1> QED BY <1>1, <1>2, <1>3, <1>4, <1>5, <1>6 DEF CurLen, Lines

\* A step that leaves the lines and the file alone only moves the point.
LEMMA OnlyMoves ==
  ASSUME Inv', UNCHANGED <<lines, file>>
  PROVE  D!Move
<1>1. Join(lines)' = Join(lines)
  OBVIOUS
<1>2. Point' \in 0..Len(Join(lines))
  <2>1. lines' \in LineLists /\ curLine' \in 1..Len(lines') /\ curCol' \in 0..Len(lines'[curLine'])
    BY BufferIsLists DEF Inv, Placed, CursorAt
  <2>2. Point' = PointAt(lines', curLine', curCol')
    BY DEF Point, PointAt
  <2>3. Point' \in 0..Len(Join(lines'))
    BY <2>1, <2>2, PointIs
  <2> QED BY <2>3
<1> QED BY <1>1, <1>2 DEF D!Move

LEMMA EditedText ==
  ASSUME NEW ls, NEW line, NEW col, NEW changed, Edit(ls, line, col, changed)
  PROVE  /\ Join(lines)' = Join(ls) /\ Point' = PointAt(ls, line, col)
         /\ UNCHANGED file
BY DEF Edit, View, Surroundings, Point, PointAt

\* The lines around the cursor's
Above == Upper(lines, curLine)
Below == Lower(lines, curLine)

LEMMA CursorText ==
  ASSUME Inv
  PROVE  /\ Above \in Seq(Lines) /\ Below \in Seq(Lines) /\ curLine = Len(Above) + 1
         /\ Ahead(Above) \in Lines /\ Behind(Below) \in Lines
         /\ Join(lines) = Pieces(Ahead(Above), lines[curLine], Behind(Below))
         /\ Point = Len(Ahead(Above)) + curCol
         /\ \A l \in Lines : ReplaceAt(lines, curLine, l) = Pieces(Above, <<l>>, Below)
<1>1. Above \in Seq(Lines) /\ Below \in Seq(Lines) /\ Len(Above) = curLine - 1
  BY CursorLine, UpperLower DEF Above, Below
<1>2. curLine = Len(Above) + 1
  BY <1>1, CursorLine
<1>3. /\ Ahead(Above) \in Lines /\ Behind(Below) \in Lines
      /\ Join(lines) = Pieces(Ahead(Above), lines[curLine], Behind(Below))
      /\ Point = Len(Ahead(Above)) + curCol
  BY CursorLine, PointIs DEF Above, Below
<1>4. \A l \in Lines : ReplaceAt(lines, curLine, l) = Pieces(Above, <<l>>, Below)
  BY CursorLine, ReplacedIs DEF Above, Below
<1> QED BY <1>1, <1>2, <1>3, <1>4

LEMMA InsertsText ==
  ASSUME Inv, NEW typed \in Lines, InsertText(typed)
  PROVE  D!Insert(typed)
<1> DEFINE l == lines[curLine]
           x == SubSeq(l, 1, curCol)
           y == SubSeq(l, curCol + 1, Len(l))
           new == Pieces(x, typed, y)
           A == Ahead(Above)
           B == Behind(Below)
           col == curCol + Len(typed)
           ls == ReplaceAt(lines, curLine, new)
           text == Join(lines)
<1>1. l \in Lines /\ curCol \in 0..Len(l)
  BY CursorLine
<1>2. Edit(ls, curLine, col, {curLine})
  BY DEF InsertText, Pieces
<1> HIDE DEF l
<1>3. x \in Lines /\ Len(x) = curCol /\ y \in Lines
  BY <1>1, CutInTwo
<1> HIDE DEF x, y
<1>4. new \in Lines /\ col \in 0..Len(new) /\ Len(typed) \in Nat /\ curCol \in Nat
  <2>1. new \in Lines /\ Shown(new, x, typed, y) /\ Len(y) \in Nat /\ Len(typed) \in Nat
    BY <1>3, ThreePieces DEF Lines
  <2>2. Len(new) = curCol + Len(typed) + Len(y)
    BY <1>3, <2>1 DEF Shown
  <2>3. curCol \in Nat
    BY <1>1 DEF Lines
  <2> QED BY <2>1, <2>2, <2>3
<1> HIDE DEF new
<1>5. ls = Pieces(Above, <<new>>, Below)
  BY <1>4, CursorText
<1> HIDE DEF ls, col
<1>6. Join(ls) = Pieces(A, new, B) /\ PointAt(ls, curLine, col) = Len(A) + col
  BY <1>4, <1>5, CursorText, TextOfLine
<1>7. A \in Lines /\ B \in Lines /\ text = Pieces(A, l, B) /\ Point = Len(A) + curCol
  BY CursorText DEF l
<1>8. Join(lines)' = Join(ls) /\ Point' = PointAt(ls, curLine, col) /\ UNCHANGED file
  BY <1>2, EditedText
<1> HIDE DEF A, B, text
<1>9. Pieces(SubSeq(text, 1, Point), typed, SubSeq(text, Point + 1, Len(text))) = Pieces(A, new, B)
  BY <1>1, <1>7, TextInserted DEF new, x, y
<1>10. Join(lines)' = Pieces(SubSeq(text, 1, Point), typed, SubSeq(text, Point + 1, Len(text)))
  BY <1>6, <1>8, <1>9
<1>11. Point' = Point + Len(typed)
  <2>1. Len(A) \in Nat
    BY <1>7 DEF Lines
  <2> QED BY <1>4, <1>6, <1>7, <1>8, <2>1 DEF col
<1> QED BY <1>8, <1>10, <1>11 DEF D!Insert, Pieces, text

\* A character of the cursor's line is erased, with the cursor behind it or before it.
LEMMA ErasesText ==
  ASSUME Inv, NEW at \in 1..CurLen, NEW col \in 0..CurLen - 1,
         Edit(ReplaceAt(lines, curLine, RemoveAt(lines[curLine], at)), curLine, col, {curLine})
  PROVE  /\ Join(lines)' = RemoveAt(Join(lines), Len(Ahead(Above)) + at)
         /\ Point' = Len(Ahead(Above)) + col
         /\ UNCHANGED file
<1> DEFINE l == lines[curLine]
           new == RemoveAt(l, at)
           A == Ahead(Above)
           B == Behind(Below)
           ls == ReplaceAt(lines, curLine, new)
           k == Len(A) + at
<1>1. l \in Lines /\ CurLen = Len(l)
  BY CursorLine
<1>2. Edit(ls, curLine, col, {curLine})
  OBVIOUS
<1> HIDE DEF l
<1>3. new \in Lines /\ Len(new) = CurLen - 1
  BY <1>1, RemovedIsSeq DEF Lines
<1> HIDE DEF new
<1>4. ls = Pieces(Above, <<new>>, Below)
  BY <1>3, CursorText
<1> HIDE DEF ls
<1>5. Join(ls) = Pieces(A, new, B) /\ PointAt(ls, curLine, col) = Len(A) + col
  BY <1>3, <1>4, CursorText, TextOfLine
<1>6. A \in Lines /\ B \in Lines /\ Join(lines) = Pieces(A, l, B)
  BY CursorText DEF l
<1>7. Join(lines)' = Join(ls) /\ Point' = PointAt(ls, curLine, col) /\ UNCHANGED file
  BY <1>2, EditedText
<1>8. k = Len(A) + at
  OBVIOUS
<1> HIDE DEF k
<1>9. RemoveAt(Pieces(A, l, B), k) = Pieces(A, RemoveAt(l, at), B)
  <2> HIDE DEF A, B
  <2> QED BY <1>1, <1>6, <1>8, TextErased
<1>10. Join(lines)' = RemoveAt(Join(lines), k)
  BY <1>5, <1>6, <1>7, <1>9 DEF new
<1> QED BY <1>5, <1>7, <1>8, <1>10

\* Two lines become one.
LEMMA MergesText ==
  ASSUME Inv, NEW n \in 1..Len(lines) - 1, NEW changed,
         Edit(Merged(n), n, Len(lines[n]), changed), NEW k,
         \/ curLine = n /\ curCol = Len(lines[n]) /\ k = Point + 1
         \/ curLine = n + 1 /\ curCol = 0 /\ k = Point
  PROVE  /\ Join(lines)' = RemoveAt(Join(lines), k)
         /\ k \in 1..Len(Join(lines)) /\ Point' = k - 1
         /\ UNCHANGED file
<1> DEFINE u == Upper(lines, n)
           v == Lower(lines, n + 1)
           a == lines[n]
           b == lines[n + 1]
           ab == a \o b
           m == n + 1
           two == Pieces(a, <<NL>>, b)
           ls == Merged(n)
           A == Ahead(u)
           B == Behind(v)
<1>1. lines \in Seq(Lines) /\ lines \in LineLists /\ Len(lines) \in Nat
  BY CursorLine, Lists
<1>2. a \in Lines /\ b \in Lines /\ n \in 1..Len(lines) /\ m \in 1..Len(lines)
  BY <1>1
<1>3. ab \in Lines /\ Len(ab) = Len(a) + Len(b) /\ Len(a) \in Nat /\ Len(b) \in Nat
  BY <1>2, JoinedLines DEF Lines
<1>4. ls = RemoveAt(ReplaceAt(lines, n, ab), n + 1)
  BY DEF Merged
<1> HIDE DEF a, b, ab
<1>5. u \in Seq(Lines) /\ Len(u) = n - 1 /\ v \in Seq(Lines)
  <2>1. u \in Seq(Lines) /\ Len(u) = n - 1
    BY <1>1, <1>2, UpperLower
  <2>2. Lower(lines, m) \in Seq(Lines)
    <3> HIDE DEF m
    <3> QED BY <1>1, <1>2, UpperLower
  <2> QED BY <2>1, <2>2
<1>6. /\ ls = Pieces(u, <<ab>>, v)
      /\ lines = Pieces(u, <<a, b>>, v)
  <2>1. /\ RemoveAt(ReplaceAt(lines, n, ab), n + 1) = Pieces(u, <<ab>>, v)
        /\ lines = Pieces(u, <<lines[n], lines[n + 1]>>, v)
    BY <1>1, <1>3, MergedIs
  <2> QED BY <1>4, <2>1 DEF a, b
<1>7. Edit(ls, n, Len(a), changed)
  BY DEF a
<1> HIDE DEF ls, u, v
<1>8. Join(ls) = Pieces(A, ab, B) /\ PointAt(ls, n, Len(a)) = Len(A) + Len(a)
  <2>1. n = Len(u) + 1 /\ Len(a) \in 0..Len(ab)
    BY <1>2, <1>3, <1>5
  <2> QED BY <1>3, <1>5, <1>6, <2>1, TextOfLine
<1>9. Join(lines) = Pieces(A, two, B) /\ PointAt(lines, m, 0) = Len(A) + Len(a) + 1
  <2>1. m = Len(u) + 2
    BY <1>2, <1>5
  <2> HIDE DEF m
  <2>2. /\ Join(Pieces(u, <<a, b>>, v)) = Pieces(Ahead(u), Pieces(a, <<NL>>, b), Behind(v))
        /\ PointAt(Pieces(u, <<a, b>>, v), m, 0) = Len(Pieces(Ahead(u), a, <<NL>>))
    BY <1>2, <1>5, <2>1, TextOfTwo
  <2>3. Ahead(u) \in Lines
    BY <1>5, AroundAreTexts
  <2>4. Len(Pieces(Ahead(u), a, <<NL>>)) = Len(Ahead(u)) + Len(a) + 1
    BY <1>2, <2>3, BrokenLength
  <2> QED BY <1>6, <2>2, <2>4
<1>10. /\ two \in Lines /\ Len(a) + 1 \in 1..Len(two) /\ RemoveAt(two, Len(a) + 1) = ab
  BY <1>2, BreakErased DEF ab
<1>11. A \in Lines /\ B \in Lines /\ Len(A) \in Nat
  BY <1>5, AroundAreTexts DEF Lines
<1> HIDE DEF two, A, B
<1>12. k = Len(A) + (Len(a) + 1)
  <2>1. CASE curLine = n /\ curCol = Len(lines[n]) /\ k = Point + 1
    <3>1. Point = Len(A) + curCol
      BY <2>1, CursorText DEF A, u, Above
    <3> QED BY <1>3, <1>11, <2>1, <3>1 DEF a
  <2>2. CASE curLine = n + 1 /\ curCol = 0 /\ k = Point
    <3>1. Point = PointAt(lines, m, 0)
      BY <2>2, CursorLine
    <3> QED BY <1>3, <1>9, <1>11, <2>2, <3>1
  <2> QED BY <2>1, <2>2
<1>13. RemoveAt(Pieces(A, two, B), k) = Pieces(A, RemoveAt(two, Len(a) + 1), B)
  <2> DEFINE at == Len(a) + 1
  <2>1. at \in 1..Len(two) /\ k = Len(A) + at
    BY <1>10, <1>12
  <2> HIDE DEF at
  <2>2. RemoveAt(Pieces(A, two, B), k) = Pieces(A, RemoveAt(two, at), B)
    BY <1>10, <1>11, <2>1, TextErased
  <2> QED BY <2>2 DEF at
<1>14. Join(lines)' = Join(ls) /\ Point' = PointAt(ls, n, Len(a)) /\ UNCHANGED file
  BY <1>7, EditedText
<1>15. Join(lines)' = RemoveAt(Join(lines), k)
  BY <1>8, <1>9, <1>10, <1>13, <1>14
<1>16. Point' = k - 1
  BY <1>3, <1>8, <1>11, <1>12, <1>14
<1>17. k \in 1..Len(Join(lines))
  <2>1. Shown(Join(lines), A, two, B) /\ Len(B) \in Nat /\ Len(two) \in Nat
    BY <1>9, <1>10, <1>11, ThreePieces DEF Lines
  <2>2. Len(Join(lines)) = Len(A) + Len(two) + Len(B)
    BY <2>1 DEF Shown
  <2> QED BY <1>3, <1>10, <1>11, <1>12, <2>1, <2>2
<1> QED BY <1>14, <1>15, <1>16, <1>17

-----------------------------------------------------------------------------
\* Each key does to the text what Document says.

LEMMA TypesText == Inv /\ (TypeChar \/ TypeTab) => D!Next
<1> SUFFICES ASSUME Inv, TypeChar \/ TypeTab PROVE D!Next
  OBVIOUS
<1>1. CASE TypeChar
  <2>1. PICK ch \in Chars : InsertText(<<ch>>)
    BY <1>1 DEF TypeChar
  <2>2. <<ch>> \in Lines
    BY DEF Lines, Symbols
  <2>3. D!Insert(<<ch>>)
    BY <2>1, <2>2, InsertsText
  <2>4. <<ch>> \in {<<c>> : c \in Chars \cup {NL}} \cup {Tabbed}
    OBVIOUS
  <2> QED BY <2>3, <2>4 DEF D!Next
<1>2. CASE TypeTab
  <2>1. Blank \in Symbols
    BY DEF Symbols
  <2>2. Tabbed \in Lines
    BY <2>1, TabWidthAssumption DEF Tabbed, Lines
  <2>3. D!Insert(Tabbed)
    BY <1>2, <2>2, InsertsText DEF TypeTab
  <2> QED BY <2>3 DEF D!Next
<1> QED BY <1>1, <1>2

LEMMA SplitsText == Inv /\ Split => D!Next
<1> SUFFICES ASSUME Inv, Split PROVE D!Next
  OBVIOUS
<1> DEFINE l == lines[curLine]
           x == LeftPart
           y == RightPart
           nl == <<NL>>
           m == curLine + 1
           ls == InsertAt(ReplaceAt(lines, curLine, x), m, y)
           A == Ahead(Above)
           B == Behind(Below)
           text == Join(lines)
           cut == Pieces(A, Pieces(x, nl, y), B)
<1>1. l \in Lines /\ curCol \in 0..Len(l) /\ curLine \in Nat
  BY CursorLine
<1>2. x \in Lines /\ Len(x) = curCol /\ y \in Lines /\ x = SubSeq(l, 1, curCol)
      /\ y = SubSeq(l, curCol + 1, Len(l))
  <2>1. x = SubSeq(l, 1, curCol) /\ y = SubSeq(l, curCol + 1, Len(l))
    BY DEF LeftPart, RightPart, CurLen
  <2> HIDE DEF x, y, l
  <2> QED BY <1>1, <2>1, CutInTwo
<1>3. Edit(ls, m, 0, From(curLine))
  BY DEF Split
<1> HIDE DEF x, y
<1>4. ls = Pieces(Above, <<x, y>>, Below)
  <2>1. lines \in Seq(Lines) /\ curLine \in 1..Len(lines)
    BY CursorLine
  <2>2. InsertAt(ReplaceAt(lines, curLine, x), curLine + 1, y)
          = Pieces(Above, <<x, y>>, Below)
    BY <1>2, <2>1, SplitIs DEF Above, Below
  <2> QED BY <2>2
<1> HIDE DEF ls
<1>5. Join(ls) = cut /\ PointAt(ls, m, 0) = Len(A) + Len(x) + 1
  <2>1. m = Len(Above) + 2 /\ Above \in Seq(Lines) /\ Below \in Seq(Lines)
    BY <1>1, CursorText
  <2> DEFINE u == Above
             v == Below
  <2>2. m = Len(u) + 2 /\ u \in Seq(Lines) /\ v \in Seq(Lines) /\ x \in Lines /\ y \in Lines
    BY <1>2, <2>1
  <2>3. ls = Pieces(u, <<x, y>>, v) /\ A = Ahead(u) /\ B = Behind(v)
    BY <1>4
  <2> HIDE DEF m, A, B, u, v
  <2>4. Join(Pieces(u, <<x, y>>, v)) = Pieces(Ahead(u), Pieces(x, <<NL>>, y), Behind(v))
    BY <2>2, TextOfTwo
  <2>5. PointAt(Pieces(u, <<x, y>>, v), m, 0) = Len(Pieces(Ahead(u), x, <<NL>>))
    BY <2>2, TextOfTwo
  <2>6. Ahead(u) \in Lines
    BY <2>2, AroundAreTexts
  <2>7. Len(Pieces(Ahead(u), x, <<NL>>)) = Len(Ahead(u)) + Len(x) + 1
    BY <1>2, <2>6, BrokenLength
  <2> QED BY <2>3, <2>4, <2>5, <2>7
<1>6. Join(lines)' = Join(ls) /\ Point' = PointAt(ls, m, 0) /\ UNCHANGED file
  BY <1>3, EditedText
<1>7. A \in Lines /\ B \in Lines /\ text = Pieces(A, l, B) /\ Point = Len(A) + curCol
  BY CursorText
<1>8. nl \in Lines /\ Len(nl) = 1
  BY NLIsSymbol DEF Lines
<1> HIDE DEF A, B, text, nl, l
<1>9. Pieces(SubSeq(text, 1, Point), nl, SubSeq(text, Point + 1, Len(text))) = cut
  BY <1>1, <1>2, <1>7, <1>8, TextInserted
<1>10. Point' = Point + Len(nl)
  <2>1. Len(A) \in Nat /\ curCol \in Nat
    BY <1>1, <1>7 DEF Lines
  <2> QED BY <1>2, <1>5, <1>6, <1>7, <1>8, <2>1
<1>11. Join(lines)' = Pieces(SubSeq(text, 1, Point), nl, SubSeq(text, Point + 1, Len(text)))
  BY <1>5, <1>6, <1>9
<1>12. D!Insert(nl)
  BY <1>6, <1>10, <1>11 DEF D!Insert, Pieces, text
<1>13. nl \in {<<c>> : c \in Chars \cup {NL}} \cup {Tabbed}
  BY DEF nl
<1> QED BY <1>12, <1>13 DEF D!Next

LEMMA BackspaceErases == Inv /\ Backspace => D!EraseBefore
<1> SUFFICES ASSUME Inv, Backspace PROVE D!EraseBefore
  OBVIOUS
<1>1. /\ Len(lines) \in Nat /\ curLine \in 1..Len(lines) /\ CurLen \in Nat
      /\ curCol \in 0..CurLen
  BY LinesAreSeqs DEF CurLen
<1>2. CASE curCol > 0
  <2>1. /\ curCol \in 1..CurLen /\ curCol - 1 \in 0..CurLen - 1
        /\ Edit(ReplaceAt(lines, curLine, RemoveAt(lines[curLine], curCol)),
                curLine, curCol - 1, {curLine})
    BY <1>1, <1>2 DEF Backspace
  <2> DEFINE A == Ahead(Above)
  <2>2. /\ Join(lines)' = RemoveAt(Join(lines), Len(A) + curCol)
        /\ Point' = Len(A) + (curCol - 1) /\ UNCHANGED file
    BY <2>1, ErasesText
  <2>3. A \in Lines /\ Point = Len(A) + curCol
    BY CursorText
  <2> HIDE DEF A
  <2>4. Len(A) \in Nat
    BY <2>3 DEF Lines
  <2>5. Point > 0 /\ Point' = Point - 1
    BY <1>1, <1>2, <2>2, <2>3, <2>4
  <2> QED BY <2>2, <2>3, <2>5 DEF D!EraseBefore, D!RemoveAt, RemoveAt
<1>3. CASE ~(curCol > 0)
  <2> DEFINE n == curLine - 1
             k == Point
  <2>1. /\ n \in 1..Len(lines) - 1 /\ curLine = n + 1 /\ curCol = 0
        /\ Edit(Merged(n), n, Len(lines[n]), From(n))
    BY <1>1, <1>3 DEF Backspace
  <2>2. k = Point
    OBVIOUS
  <2> HIDE DEF n, k
  <2>3. /\ Join(lines)' = RemoveAt(Join(lines), k)
        /\ k \in 1..Len(Join(lines)) /\ Point' = k - 1
        /\ UNCHANGED file
    BY <2>1, <2>2, MergesText
  <2>4. Point > 0
    BY <2>2, <2>3
  <2> QED BY <2>2, <2>3, <2>4 DEF D!EraseBefore, D!RemoveAt, RemoveAt
<1> QED BY <1>2, <1>3

LEMMA DeleteErases == Inv /\ Delete => D!EraseAfter
<1> SUFFICES ASSUME Inv, Delete PROVE D!EraseAfter
  OBVIOUS
<1>1. /\ Len(lines) \in Nat /\ curLine \in 1..Len(lines) /\ CurLen \in Nat
      /\ curCol \in 0..CurLen
  BY LinesAreSeqs DEF CurLen
<1>2. CASE curCol < CurLen
  <2> DEFINE at == curCol + 1
             A == Ahead(Above)
  <2>1. /\ at \in 1..CurLen /\ curCol \in 0..CurLen - 1
        /\ Edit(ReplaceAt(lines, curLine, RemoveAt(lines[curLine], at)),
                curLine, curCol, {curLine})
    BY <1>1, <1>2 DEF Delete
  <2>2. at = curCol + 1
    OBVIOUS
  <2> HIDE DEF at
  <2>3. /\ Join(lines)' = RemoveAt(Join(lines), Len(A) + at)
        /\ Point' = Len(A) + curCol /\ UNCHANGED file
    BY <2>1, ErasesText
  <2>4. A \in Lines /\ Point = Len(A) + curCol
    BY CursorText
  <2>5. /\ Join(lines) = Pieces(A, lines[curLine], Behind(Below))
        /\ lines[curLine] \in Lines /\ CurLen = Len(lines[curLine]) /\ Behind(Below) \in Lines
    BY CursorText, CursorLine
  <2> HIDE DEF A
  <2>6. Len(A) \in Nat /\ Len(Behind(Below)) \in Nat
    BY <2>4, <2>5 DEF Lines
  <2>7. Shown(Join(lines), A, lines[curLine], Behind(Below))
    BY <2>4, <2>5, ThreePieces DEF Lines
  <2>8. Len(Join(lines)) = Len(A) + CurLen + Len(Behind(Below))
    BY <2>5, <2>7 DEF Shown
  <2>9. Point < Len(Join(lines)) /\ Len(A) + at = Point + 1
    BY <1>1, <1>2, <2>2, <2>4, <2>6, <2>8
  <2> QED BY <2>3, <2>4, <2>9 DEF D!EraseAfter, D!RemoveAt, RemoveAt
<1>3. CASE ~(curCol < CurLen)
  <2> DEFINE n == curLine
             k == Point + 1
  <2>1. /\ n \in 1..Len(lines) - 1 /\ curLine = n /\ curCol = Len(lines[n])
        /\ Edit(Merged(n), n, Len(lines[n]), From(n))
    BY <1>1, <1>3 DEF Delete, CurLen
  <2>2. k = Point + 1
    OBVIOUS
  <2> HIDE DEF n, k
  <2>3. /\ Join(lines)' = RemoveAt(Join(lines), k)
        /\ k \in 1..Len(Join(lines)) /\ Point' = k - 1
        /\ UNCHANGED file
    BY <2>1, <2>2, MergesText
  <2>4. Point \in Nat /\ Len(Join(lines)) \in Nat
    BY CursorLine
  <2>5. Point < Len(Join(lines)) /\ Point' = Point
    BY <2>2, <2>3, <2>4
  <2> QED BY <2>2, <2>3, <2>5 DEF D!EraseAfter, D!RemoveAt, RemoveAt
<1> QED BY <1>2, <1>3

\* What changes neither the text nor the file
LEMMA OthersLeave ==
  ASSUME WriteMove \/ Escape \/ Write \/ Quit \/ OpenPrompt("search") \/ OpenPrompt("goto")
           \/ PromptKey \/ Around \/ UNCHANGED vars
  PROVE  UNCHANGED <<lines, file, modified>>
<1> USE DEF Surroundings, View, Render, SwitchMode, Close, Buffer
<1>1. CASE WriteMove
  BY <1>1 DEF WriteMove, Left, Right, Up, Down, InLine, Place, PageUp, PageDown, Page
<1>2. CASE Escape \/ Write \/ Quit \/ OpenPrompt("search") \/ OpenPrompt("goto")
  BY <1>2 DEF Escape, Write, Quit, OpenPrompt
<1>3. CASE PromptKey
  BY <1>3 DEF PromptKey, QuitAnswered, PromptCancelled, Search, Goto
<1>4. CASE Around
  BY <1>4 DEF Around, OthersDraw, FocusLeaves, FocusReturns, SeeFocus, FileDeleted
<1>5. CASE UNCHANGED vars
  BY <1>5 DEF vars
<1> QED BY <1>1, <1>2, <1>3, <1>4, <1>5

LEMMA OthersMove ==
  ASSUME Inv, Inv',
         WriteMove \/ Escape \/ Write \/ Quit \/ OpenPrompt("search") \/ OpenPrompt("goto")
           \/ PromptKey \/ Around \/ UNCHANGED vars
  PROVE  D!Move
<1>1. UNCHANGED <<lines, file>>
  BY OthersLeave
<1> QED BY <1>1, OnlyMoves

\* A save stores the text, or fails.
LEMMA SavesText ==
  ASSUME Inv, Inv', Save \/ SaveAndQuit
  PROVE  D!Store \/ D!Move
<1>1. UNCHANGED <<lines, curLine, curCol>>
  BY DEF Save, SaveAndQuit, Render, View, Close
<1>2. Point' = Point /\ Join(lines)' = Join(lines)
  BY <1>1 DEF Point
<1>3. CASE exists
  <2>1. file' = Join(lines)
    BY <1>3 DEF Save, SaveAndQuit, Saved
  <2> QED BY <1>2, <2>1 DEF D!Store
<1>4. CASE ~exists
  <2>1. UNCHANGED file
    BY <1>4 DEF Save, SaveAndQuit, Saved
  <2> QED BY <1>1, <2>1, OnlyMoves
<1> QED BY <1>3, <1>4

LEMMA StepIsDocument ==
  ASSUME Inv, Inv', [Next]_vars, [~SplitFails]_vars
  PROVE  D!Next
<1>1. CASE TypeChar \/ TypeTab \/ Backspace \/ Delete \/ Split
  BY <1>1, TypesText, SplitsText, BackspaceErases, DeleteErases DEF D!Next
<1>2. CASE Save \/ SaveAndQuit
  BY <1>2, SavesText DEF D!Next
<1>3. CASE WriteMove \/ Escape \/ Write \/ Quit \/ OpenPrompt("search") \/ OpenPrompt("goto")
           \/ PromptKey \/ Around \/ UNCHANGED vars
  BY <1>3, OthersMove DEF D!Next
<1> QED BY <1>1, <1>2, <1>3 DEF Next, WriteEdit, CommandKey

LEMMA InitIsDocument == Init => D!Init
<1> SUFFICES ASSUME Init PROVE D!Init
  OBVIOUS
<1>1. Inv
  BY InitInv
<1>2. lines \in LineLists /\ Point = PointAt(lines, curLine, curCol)
  BY <1>1, CursorLine
<1>3. Join(lines) \in Seq(Symbols)
  BY <1>2, JoinIsText DEF Lines
<1>4. file \in Seq(Symbols)
  BY FilesAssumption DEF Init
<1>5. Point = Len(Ahead(Above)) + curCol /\ curCol = 0 /\ curLine = 1
  BY <1>1, CursorText DEF Init
<1>6. Above = <<>>
  <2>1. Len(Above) = 0 /\ Above \in Seq(Lines)
    BY <1>1, <1>5, CursorText
  <2> QED BY <2>1, EmptySeq
<1>7. Point = 0
  BY <1>5, <1>6 DEF Ahead
<1> QED BY <1>3, <1>4, <1>7 DEF D!Init

\* Seen as one text with a point, whatever the lines hold: a key inserts or erases at the
\* point just what it should, also where lines are cut in two and put together
\* (scribe_split_line, scribe_backspace, scribe_delete_char), and only a save changes the
\* file.  The exception is the split that finds no room: it drops the end of the line.
THEOREM ScribeImplementsDocument == Spec /\ [][~SplitFails]_vars => ImplementsDocument
<1>1. Init => D!Init
  BY InitIsDocument
<1>2. Inv /\ Inv' /\ [Next]_vars /\ [~SplitFails]_vars => [D!Next]_(D!vars)
  BY StepIsDocument
<1> QED BY <1>1, <1>2, InvHolds, PTL DEF Spec, ImplementsDocument, D!Spec

-----------------------------------------------------------------------------
\* Where a line is in the text.

\* Where a line begins and ends in the text: before its first character, and with what
\* follows its last
Begins(ls, n) == Len(Ahead(Upper(ls, n)))
Ends(ls, n) == Begins(ls, n) + Len(ls[n]) + 1

\* What s has in the place of l, behind a
Middle(s, a, l) == SubSeq(s, Len(a) + 1, Len(a) + Len(l))

LEMMA MiddlePart ==
  ASSUME NEW S, NEW a \in Seq(S), NEW l \in Seq(S), NEW b \in Seq(S)
  PROVE  Middle(Pieces(a, l, b), a, l) = l
<1> DEFINE i == Len(a) + 1
           j == Len(a) + Len(l)
           s == Pieces(a, l, b)
           p == SubSeq(s, i, j)
<1>1. s \in Seq(S) /\ Shown(s, a, l, b)
  BY ThreePieces
<1> HIDE DEF s
<1>2. /\ Len(a) \in Nat /\ Len(l) \in Nat /\ Len(b) \in Nat
      /\ Len(s) = Len(a) + Len(l) + Len(b)
      /\ \A k \in 1..Len(l) : s[Len(a) + k] = l[k]
  BY <1>1 DEF Shown
<1>3. i \in 1..Len(s) + 1 /\ j \in 0..Len(s) /\ (i <= j => j - i + 1 = Len(l))
      /\ (~(i <= j) => Len(l) = 0)
  BY <1>2
<1>4. /\ p \in Seq(S) /\ Len(p) = (IF i <= j THEN j - i + 1 ELSE 0)
      /\ \A k \in 1..Len(p) : p[k] = s[i + k - 1]
  BY <1>1, <1>3, PartIsSeq
<1> HIDE DEF p
<1>5. Len(p) = Len(l)
  BY <1>3, <1>4
<1>6. ASSUME NEW k \in 1..Len(p) PROVE p[k] = l[k]
  <2>1. i + k - 1 = Len(a) + k /\ k \in 1..Len(l)
    BY <1>2, <1>5
  <2>2. p[k] = s[i + k - 1]
    BY <1>4
  <2> QED BY <1>2, <2>1, <2>2
<1>7. p = l
  BY <1>4, <1>5, <1>6, SeqEqual
<1> QED BY <1>7 DEF p, s, Middle

LEMMA EndsInText ==
  ASSUME NEW ls \in LineLists, NEW n \in 1..Len(ls)
  PROVE  /\ Begins(ls, n) \in Nat /\ Len(ls[n]) \in Nat
         /\ Ends(ls, n) = Begins(ls, n) + Len(ls[n]) + 1
         /\ Ends(ls, n) \in 1..Len(Join(ls)) + 1
         /\ Join(ls) \in Lines
         /\ SubSeq(Join(ls), Begins(ls, n) + 1, Ends(ls, n) - 1) = ls[n]
         /\ \A i \in 1..Len(ls[n]) : Join(ls)[Begins(ls, n) + i] = ls[n][i]
         /\ n = Len(ls) => Ends(ls, n) = Len(Join(ls)) + 1
         /\ n # Len(ls) => Ends(ls, n) <= Len(Join(ls)) /\ Join(ls)[Ends(ls, n)] = NL
<1> DEFINE A == Ahead(Upper(ls, n))
           B == Behind(Lower(ls, n))
           l == ls[n]
           text == Join(ls)
           v == Lower(ls, n)
<1>1. 0 \in 0..Len(ls[n]) /\ ls \in Seq(Lines) /\ Len(ls) \in Nat
  BY Lists DEF Lines
<1>2. l \in Lines /\ A \in Lines /\ B \in Lines /\ text = Pieces(A, l, B)
  BY <1>1, PointIs
<1>3. Begins(ls, n) = Len(A) /\ Ends(ls, n) = Len(A) + Len(l) + 1
  BY DEF Begins, Ends
<1>4. v \in Seq(Lines) /\ Len(v) = Len(ls) - n
  BY <1>1, UpperLower
<1>5. B = IF v = <<>> THEN <<>> ELSE <<NL>> \o Join(v)
  BY DEF Behind
<1> HIDE DEF A, B, l, text, v
<1>6. Shown(text, A, l, B) /\ Len(A) \in Nat /\ Len(l) \in Nat /\ Len(B) \in Nat
      /\ text \in Seq(Symbols)
  BY <1>2, ThreePieces DEF Lines
<1>7. /\ Len(text) = Len(A) + Len(l) + Len(B)
      /\ \A i \in 1..Len(l) : text[Len(A) + i] = l[i]
      /\ \A i \in 1..Len(B) : text[Len(A) + Len(l) + i] = B[i]
  BY <1>6 DEF Shown
<1>8. SubSeq(text, Begins(ls, n) + 1, Ends(ls, n) - 1) = l
  <2> DEFINE i == Begins(ls, n) + 1
             j == Ends(ls, n) - 1
  <2>1. i = Len(A) + 1 /\ j = Len(A) + Len(l)
    BY <1>3, <1>6
  <2> HIDE DEF i, j
  <2>3. A \in Seq(Symbols) /\ l \in Seq(Symbols) /\ B \in Seq(Symbols)
    BY <1>2 DEF Lines
  <2>2. Middle(Pieces(A, l, B), A, l) = l
    BY <2>3, MiddlePart
  <2>4. SubSeq(text, i, j) = l
    BY <1>2, <2>1, <2>2 DEF Middle
  <2> QED BY <2>4 DEF i, j
<1>9. CASE n = Len(ls)
  <2>1. Len(v) = 0
    BY <1>1, <1>4, <1>9
  <2>2. B = <<>>
    BY <1>4, <1>5, <2>1, EmptySeq
  <2>3. Len(B) = 0
    BY <2>2
  <2>4. Ends(ls, n) = Len(text) + 1
    BY <1>3, <1>6, <1>7, <2>3
  <2> QED BY <1>2, <1>3, <1>6, <1>7, <1>8, <1>9, <2>4 DEF l, text, Lines
<1>10. CASE n # Len(ls)
  <2>1. v # <<>>
    <3>1. Len(v) # 0
      BY <1>1, <1>4, <1>10
    <3> QED BY <3>1
  <2>2. v \in LineLists
    BY <1>4, <2>1, Lists
  <2> DEFINE rest == Join(v)
  <2>3. rest \in Seq(Symbols) /\ B = <<NL>> \o rest
    BY <1>5, <2>1, <2>2, JoinIsText DEF Lines
  <2> HIDE DEF rest
  <2>4. Len(B) >= 1 /\ B[1] = NL
    BY <2>3, NLIsSymbol
  <2>5. 1 \in 1..Len(B)
    BY <1>6, <2>4
  <2>6. text[Len(A) + Len(l) + 1] = NL
    BY <1>7, <2>4, <2>5
  <2>7. Ends(ls, n) <= Len(text) /\ Ends(ls, n) \in 1..Len(text) + 1
    BY <1>3, <1>6, <1>7, <2>4
  <2>8. text[Ends(ls, n)] = NL
    BY <1>3, <2>6
  <2> QED BY <1>2, <1>3, <1>6, <1>7, <1>8, <1>10, <2>7, <2>8 DEF l, text, Lines
<1> QED BY <1>9, <1>10

\* The next line begins where this one ends.
LEMMA NextBegins ==
  ASSUME NEW ls \in LineLists, NEW n \in 1..Len(ls), NEW m \in 1..Len(ls), m = n + 1
  PROVE  Begins(ls, m) = Ends(ls, n)
<1> DEFINE u == Upper(ls, n)
           l == ls[n]
<1>1. ls \in Seq(Lines) /\ l \in Lines
  BY Lists
<1>2. u \in Seq(Lines) /\ Len(u) = n - 1 /\ \A i \in 1..n - 1 : u[i] = ls[i]
  BY <1>1, UpperLower
<1>3. /\ Upper(ls, m) \in Seq(Lines) /\ Len(Upper(ls, m)) = m - 1
      /\ \A i \in 1..m - 1 : Upper(ls, m)[i] = ls[i]
  BY <1>1, UpperLower
<1> HIDE DEF u
<1>4. Upper(ls, m) = Append(u, l)
  <2> DEFINE s == Upper(ls, m)
             t == Append(u, l)
  <2>1. t \in Seq(Lines) /\ Len(t) = n /\ t[n] = l /\ \A i \in 1..n - 1 : t[i] = u[i]
    BY <1>1, <1>2
  <2>2. s \in Seq(Lines) /\ Len(s) = n /\ \A i \in 1..n : s[i] = ls[i]
    BY <1>3
  <2> HIDE DEF s, t
  <2>3. ASSUME NEW i \in 1..Len(s) PROVE s[i] = t[i]
    <3>1. i = n \/ i \in 1..n - 1
      BY <2>2
    <3>2. CASE i = n
      BY <2>1, <2>2, <3>2
    <3>3. CASE i \in 1..n - 1
      BY <1>2, <2>1, <2>2, <3>3
    <3> QED BY <3>1, <3>2, <3>3
  <2>4. s = t
    BY <2>1, <2>2, <2>3, SeqEqual
  <2> QED BY <2>4 DEF s, t
<1> HIDE DEF l
<1>5. Ahead(Append(u, l)) = Pieces(Ahead(u), l, <<NL>>) /\ Ahead(u) \in Lines
  BY <1>1, <1>2, AheadGrows, AroundAreTexts
<1>6. Len(Pieces(Ahead(u), l, <<NL>>)) = Len(Ahead(u)) + Len(l) + 1
  BY <1>1, <1>5, BrokenLength
<1> QED BY <1>4, <1>5, <1>6 DEF Begins, Ends, u, l

LEMMA FirstBegins ==
  ASSUME NEW ls \in LineLists
  PROVE  1 \in 1..Len(ls) /\ Begins(ls, 1) = 0
<1>1. 1 \in 1..Len(ls) /\ ls \in Seq(Lines)
  BY Lists
<1>2. Upper(ls, 1) \in Seq(Lines) /\ Len(Upper(ls, 1)) = 0
  <2>1. Len(Upper(ls, 1)) = 1 - 1 /\ Upper(ls, 1) \in Seq(Lines)
    BY <1>1, UpperLower
  <2> QED BY <2>1
<1>3. Upper(ls, 1) = <<>>
  BY <1>2
<1> QED BY <1>1, <1>3 DEF Begins, Ahead

LEMMA EndsGrow ==
  ASSUME NEW ls \in LineLists, NEW i \in 1..Len(ls), NEW j \in 1..Len(ls), i < j
  PROVE  Ends(ls, i) < Ends(ls, j)
<1> DEFINE Grows(m) == i + m + 1 <= Len(ls) => Ends(ls, i) < Ends(ls, i + m + 1)
           Some == {m \in Nat : Grows(m)}
<1>1. Len(ls) \in Nat
  BY Lists
<1>2. ASSUME NEW n \in 1..Len(ls), NEW m \in 1..Len(ls), m = n + 1
      PROVE  Ends(ls, n) < Ends(ls, m) /\ Ends(ls, n) \in Nat /\ Ends(ls, m) \in Nat
  <2>1. Begins(ls, m) = Ends(ls, n)
    BY <1>2, NextBegins
  <2>2. /\ Ends(ls, m) = Begins(ls, m) + Len(ls[m]) + 1 /\ Len(ls[m]) \in Nat
        /\ Begins(ls, m) \in Nat
    BY EndsInText
  <2> QED BY <2>1, <2>2
<1>3. 0 \in Some
  <2>1. SUFFICES ASSUME i + 0 + 1 <= Len(ls) PROVE Ends(ls, i) < Ends(ls, i + 0 + 1)
    OBVIOUS
  <2> DEFINE m == i + 0 + 1
  <2>2. m \in 1..Len(ls) /\ m = i + 1
    BY <1>1, <2>1
  <2> HIDE DEF m
  <2>3. Ends(ls, i) < Ends(ls, m)
    BY <1>2, <2>2
  <2> QED BY <2>3 DEF m
<1>4. ASSUME NEW m \in Some PROVE m + 1 \in Some
  <2>1. SUFFICES ASSUME i + (m + 1) + 1 <= Len(ls) PROVE Ends(ls, i) < Ends(ls, i + (m + 1) + 1)
    OBVIOUS
  <2> DEFINE a == i + m + 1
             b == i + (m + 1) + 1
  <2>2. a \in 1..Len(ls) /\ b \in 1..Len(ls) /\ b = a + 1 /\ i + m + 1 <= Len(ls)
    BY <1>1, <2>1
  <2>3. Ends(ls, i) < Ends(ls, a)
    BY <2>2
  <2> HIDE DEF a, b
  <2>4. Ends(ls, a) < Ends(ls, b) /\ Ends(ls, a) \in Nat /\ Ends(ls, b) \in Nat
    BY <1>2, <2>2
  <2>5. Ends(ls, i) \in Int
    BY EndsInText
  <2>6. Ends(ls, i) < Ends(ls, b)
    BY <2>3, <2>4, <2>5
  <2> QED BY <2>6 DEF b
<1>5. Some = Nat
  <2> HIDE DEF Some
  <2>1. Some \in SUBSET Nat
    BY DEF Some
  <2> QED BY <1>3, <1>4, <2>1, Induction
<1>6. j - i - 1 \in Nat /\ i + (j - i - 1) + 1 = j /\ j <= Len(ls)
  BY <1>1
<1>7. Grows(j - i - 1)
  <2> DEFINE m == j - i - 1
  <2>1. m \in Some
    <3> HIDE DEF Some
    <3> QED BY <1>5, <1>6
  <2> QED BY <2>1
<1> QED BY <1>6, <1>7

-----------------------------------------------------------------------------
\* The line ends are just the ends of lines.

\* The lines that are found again in the joined text: all but an empty last one
Kept(ls) == IF ls[Len(ls)] = <<>> THEN Len(ls) - 1 ELSE Len(ls)

EndsUpTo(ls, n) == {Ends(ls, j) : j \in 1..n}

\* Every place of the text is in a line or at its end.
LEMMA PlaceInLine ==
  ASSUME NEW ls \in LineLists, NEW i \in 1..Len(Join(ls)) + 1
  PROVE  \E n \in 1..Len(ls) : Begins(ls, n) < i /\ i <= Ends(ls, n)
<1> DEFINE Some == {n \in 1..Len(ls) : i <= Ends(ls, n)}
           k == Len(ls)
<1>1. k \in Nat /\ k \in 1..Len(ls) /\ ls \in Seq(Lines)
  BY Lists
<1>2. Ends(ls, k) = Len(Join(ls)) + 1 /\ Join(ls) \in Lines
  BY <1>1, EndsInText
<1>3. i <= Ends(ls, k) /\ i \in Nat
  <2>1. i <= Len(Join(ls)) + 1 /\ i \in Nat
    BY <1>2 DEF Lines
  <2> QED BY <1>2, <2>1
<1>4. Some \in SUBSET Nat /\ Some # {}
  BY <1>1, <1>3
<1>5. PICK n \in Some : \A m \in Some : n <= m
  BY <1>4, LeastOfSome
<1>6. n \in 1..Len(ls) /\ i <= Ends(ls, n) /\ i >= 1
  BY <1>2 DEF Lines
<1>7. Begins(ls, n) < i
  <2>1. CASE n = 1
    BY <1>3, <1>6, <2>1, FirstBegins
  <2>2. CASE n # 1
    <3> DEFINE m == n - 1
    <3>1. m \in 1..Len(ls) /\ n = m + 1 /\ ~(n <= m)
      BY <1>1, <1>6, <2>2
    <3>2. m \notin Some
      BY <1>5, <3>1
    <3> HIDE DEF m
    <3>3. Begins(ls, n) = Ends(ls, m)
      BY <1>6, <3>1, NextBegins
    <3>4. ~(i <= Ends(ls, m))
      BY <3>1, <3>2
    <3>5. Ends(ls, m) \in Int
      BY <1>2, <3>1, EndsInText DEF Lines
    <3> QED BY <1>3, <3>3, <3>4, <3>5
  <2> QED BY <2>1, <2>2
<1> QED BY <1>6, <1>7

\* In the text of a buffer only a line's end is a line break.
LEMMA BreaksAreEnds ==
  ASSUME NEW ls \in Buffers, NEW i \in 1..Len(Join(ls)), Join(ls)[i] = NL
  PROVE  \E n \in 1..Len(ls) : n # Len(ls) /\ i = Ends(ls, n)
<1>1. ls \in LineLists /\ Len(ls) \in Nat
  BY BufferIsLists, Lists
<1>2. Len(Join(ls)) \in Nat
  BY <1>1, JoinIsText DEF Lines
<1>3. i \in 1..Len(Join(ls)) + 1 /\ i \in Nat
  BY <1>2
<1>4. PICK n \in 1..Len(ls) : Begins(ls, n) < i /\ i <= Ends(ls, n)
  BY <1>1, <1>3, PlaceInLine
<1>5. /\ Begins(ls, n) \in Nat /\ Len(ls[n]) \in Nat
      /\ Ends(ls, n) = Begins(ls, n) + Len(ls[n]) + 1
      /\ \A k \in 1..Len(ls[n]) : Join(ls)[Begins(ls, n) + k] = ls[n][k]
      /\ n = Len(ls) => Ends(ls, n) = Len(Join(ls)) + 1
  BY <1>1, EndsInText
<1>6. i = Ends(ls, n)
  <2>1. SUFFICES ASSUME i # Ends(ls, n) PROVE FALSE
    OBVIOUS
  <2> DEFINE b == Begins(ls, n)
             e == Ends(ls, n)
             len == Len(ls[n])
             k == i - b
  <2>a. b \in Nat /\ len \in Nat /\ e = b + len + 1 /\ b < i /\ i <= e /\ i # e
    BY <1>4, <1>5, <2>1
  <2> HIDE DEF b, e, len
  <2>b. k \in 1..len /\ b + k = i
    BY <1>3, <2>a
  <2>2. k \in 1..Len(ls[n]) /\ Begins(ls, n) + k = i
    BY <2>b DEF b, len
  <2> HIDE DEF k
  <2>3. ls[n][k] = NL
    BY <1>5, <2>2
  <2>4. ls[n] \in Seq(LineSymbols)
    BY DEF Buffers
  <2>5. ls[n][k] \in LineSymbols
    BY <2>2, <2>4
  <2> QED BY <2>3, <2>5 DEF LineSymbols
<1>7. n # Len(ls)
  BY <1>2, <1>3, <1>5, <1>6
<1> QED BY <1>6, <1>7

\* A text ends with a line break where the last line is empty.
LEMMA LastOfText ==
  ASSUME NEW ls \in Buffers
  PROVE  LET text == Join(ls) IN (text = <<>> \/ Last(text) = NL) <=> ls[Len(ls)] = <<>>
<1> DEFINE k == Len(ls)
           l == ls[k]
           text == Join(ls)
<1>1. ls \in LineLists /\ k \in Nat /\ k \in 1..Len(ls)
  BY BufferIsLists, Lists
<1>2. /\ Begins(ls, k) \in Nat /\ Len(l) \in Nat
      /\ Ends(ls, k) = Begins(ls, k) + Len(l) + 1
      /\ text \in Lines
      /\ \A i \in 1..Len(l) : text[Begins(ls, k) + i] = l[i]
      /\ Ends(ls, k) = Len(text) + 1
  BY <1>1, EndsInText
<1>3. l \in Seq(LineSymbols)
  BY <1>1 DEF Buffers
<1> HIDE DEF l, text
<1>4. Len(text) \in Nat /\ Len(text) = Begins(ls, k) + Len(l)
  BY <1>2 DEF Lines
<1>5. CASE l = <<>>
  <2>1. Len(l) = 0
    BY <1>5
  <2>2. CASE k = 1
    <3>1. Len(text) = 0
      BY <1>1, <1>4, <2>1, <2>2, FirstBegins
    <3>2. text = <<>>
      BY <1>2, <3>1, EmptySeq DEF Lines
    <3> QED BY <1>5, <3>2 DEF l, text
  <2>3. CASE k # 1
    <3> DEFINE m == k - 1
    <3> HIDE DEF k
    <3>0. k = Len(ls)
      BY DEF k
    <3>1. m \in 1..Len(ls) /\ k = m + 1 /\ m # Len(ls)
      BY <1>1, <2>3, <3>0
    <3> HIDE DEF m
    <3>2. Begins(ls, k) = Ends(ls, m)
      BY <1>1, <3>1, NextBegins
    <3>3. text[Ends(ls, m)] = NL
      BY <1>1, <3>1, EndsInText DEF text
    <3>4. Len(text) = Ends(ls, m)
      BY <1>2, <1>4, <2>1, <3>2
    <3>5. Last(text) = NL
      BY <3>3, <3>4 DEF Last
    <3> QED BY <1>5, <3>5 DEF k, l, text
  <2> QED BY <2>2, <2>3
<1>6. CASE l # <<>>
  <2>1. Len(l) \in 1..Len(l)
    BY <1>3, <1>6, EmptySeq
  <2>2. text[Begins(ls, k) + Len(l)] = l[Len(l)]
    BY <1>2, <2>1
  <2>3. Last(text) = l[Len(l)] /\ Len(text) # 0
    BY <1>2, <1>4, <2>1, <2>2 DEF Last
  <2>4. l[Len(l)] \in LineSymbols
    BY <1>3, <2>1
  <2>5. Last(text) # NL /\ text # <<>>
    BY <2>3, <2>4 DEF LineSymbols
  <2> QED BY <1>6, <2>5 DEF l, text
<1> QED BY <1>5, <1>6

LEMMA EndsFound ==
  ASSUME NEW ls \in Buffers
  PROVE  LineEnds(Join(ls)) = EndsUpTo(ls, Kept(ls))
<1> DEFINE k == Len(ls)
           text == Join(ls)
           breaks == {i \in DOMAIN text : text[i] = NL}
           m == k - 1
<1>1. ls \in LineLists /\ k \in Nat /\ k \in 1..Len(ls) /\ k >= 1
  BY BufferIsLists, Lists
<1>2. text \in Seq(Symbols) /\ DOMAIN text = 1..Len(text)
  BY <1>1, JoinIsText DEF Lines
<1>3. breaks = EndsUpTo(ls, m)
  <2>1. ASSUME NEW i \in breaks PROVE i \in EndsUpTo(ls, m)
    <3>1. PICK n \in 1..Len(ls) : n # Len(ls) /\ i = Ends(ls, n)
      BY <1>2, <2>1, BreaksAreEnds
    <3>2. n \in 1..m
      BY <1>1, <3>1
    <3> QED BY <3>1, <3>2 DEF EndsUpTo
  <2>2. ASSUME NEW i \in EndsUpTo(ls, m) PROVE i \in breaks
    <3>1. PICK n \in 1..m : i = Ends(ls, n)
      BY <2>2 DEF EndsUpTo
    <3>2. n \in 1..Len(ls) /\ n # Len(ls)
      BY <1>1
    <3>3. i \in 1..Len(text) + 1 /\ i <= Len(text) /\ text[i] = NL
      BY <1>1, <3>1, <3>2, EndsInText
    <3>4. i \in 1..Len(text)
      BY <1>2, <3>3
    <3> QED BY <1>2, <3>3, <3>4
  <2> QED BY <2>1, <2>2
<1>4. Ends(ls, k) = Len(text) + 1
  BY <1>1, EndsInText
<1>5. (text = <<>> \/ Last(text) = NL) <=> ls[k] = <<>>
  BY LastOfText
<1>6. LineEnds(text) = breaks \cup (IF text = <<>> \/ Last(text) = NL THEN {} ELSE {Len(text) + 1})
  BY DEF LineEnds
<1> HIDE DEF text, breaks
<1>7. CASE ls[k] = <<>>
  BY <1>3, <1>5, <1>6, <1>7 DEF Kept, text
<1>8. CASE ls[k] # <<>>
  <2>1. LineEnds(text) = EndsUpTo(ls, m) \cup {Ends(ls, k)}
    BY <1>3, <1>4, <1>5, <1>6, <1>8
  <2>2. EndsUpTo(ls, k) = EndsUpTo(ls, m) \cup {Ends(ls, k)}
    <3>1. \A j : j \in 1..k <=> j \in 1..m \/ j = k
      BY <1>1
    <3> HIDE DEF k, m
    <3> QED BY <3>1 DEF EndsUpTo
  <2> QED BY <1>8, <2>1, <2>2 DEF Kept, text
<1> QED BY <1>7, <1>8

\* Ends are as many as their lines.
LEMMA EndsCounted ==
  ASSUME NEW ls \in LineLists, NEW n \in 0..Len(ls)
  PROVE  Cardinality(EndsUpTo(ls, n)) = n
<1> DEFINE f == [j \in 1..n |-> Ends(ls, j)]
<1>1. Len(ls) \in Nat /\ n \in Nat /\ \A j \in 1..n : j \in 1..Len(ls)
  BY Lists
<1>2. \A j \in 1..Len(ls) : Ends(ls, j) \in Nat
  <2>1. Join(ls) \in Lines
    BY JoinIsText
  <2> QED BY <2>1, EndsInText DEF Lines
<1>3. ASSUME NEW i \in 1..n, NEW j \in 1..n, f[i] = f[j] PROVE i = j
  <2>1. f[i] = Ends(ls, i) /\ f[j] = Ends(ls, j)
    OBVIOUS
  <2>2. i \in 1..Len(ls) /\ j \in 1..Len(ls) /\ Ends(ls, i) \in Nat
    BY <1>1, <1>2
  <2>3. ~(i < j) /\ ~(j < i)
    BY <1>3, <2>1, <2>2, EndsGrow
  <2> QED BY <2>2, <2>3
<1>4. f \in Surjection(1..n, EndsUpTo(ls, n))
  BY DEF Surjection, EndsUpTo
<1>5. f \in Injection(1..n, EndsUpTo(ls, n))
  <2>1. f \in [1..n -> EndsUpTo(ls, n)]
    BY DEF EndsUpTo
  <2> HIDE DEF f
  <2> QED BY <1>3, <2>1 DEF Injection, IsInjective
<1>6. f \in Bijection(1..n, EndsUpTo(ls, n))
  BY <1>4, <1>5 DEF Bijection
<1>7. IsFiniteSet(1..n) /\ Cardinality(1..n) = n
  BY <1>1, FS_Interval
<1> DEFINE S == 1..n
           T == EndsUpTo(ls, n)
<1>8. f \in Bijection(S, T) /\ IsFiniteSet(S) /\ Cardinality(S) = n
  BY <1>6, <1>7
<1> HIDE DEF f, S, T
<1>9. Cardinality(T) = Cardinality(S)
  BY <1>8, FS_Bijection DEF ExistsBijection
<1> QED BY <1>8, <1>9 DEF T

-----------------------------------------------------------------------------
\* What is loaded from the text.

LEMMA KeptInLines ==
  ASSUME NEW ls \in LineLists
  PROVE  /\ Len(ls) \in Nat /\ Len(ls) \in 1..Len(ls) /\ DOMAIN ls = 1..Len(ls)
         /\ Kept(ls) \in 0..Len(ls)
         /\ Kept(ls) = Len(ls) \/ (Kept(ls) = Len(ls) - 1 /\ ls[Len(ls)] = <<>>)
<1>1. Len(ls) \in Nat /\ Len(ls) \in 1..Len(ls) /\ DOMAIN ls = 1..Len(ls)
  BY Lists
<1>2. CASE ls[Len(ls)] = <<>>
  <2>1. Kept(ls) = Len(ls) - 1
    BY <1>2 DEF Kept
  <2>2. Kept(ls) \in 0..Len(ls)
    BY <1>1, <2>1
  <2> QED BY <1>1, <1>2, <2>1, <2>2
<1>3. CASE ls[Len(ls)] # <<>>
  <2>1. Kept(ls) = Len(ls)
    BY <1>3 DEF Kept
  <2>2. Kept(ls) \in 0..Len(ls)
    BY <1>1, <2>1
  <2> QED BY <1>1, <2>1, <2>2
<1> QED BY <1>2, <1>3

\* The end of a line has the rank of the line.
LEMMA EndsRanked ==
  ASSUME NEW ls \in LineLists, NEW K \in 0..Len(ls), NEW n \in 1..K
  PROVE  Rank(EndsUpTo(ls, K), Ends(ls, n)) = n
<1> DEFINE e == Ends(ls, n)
           upto == {k \in EndsUpTo(ls, K) : k <= e}
<1>1. Len(ls) \in Nat /\ n \in 1..Len(ls) /\ n \in 0..Len(ls) /\ n \in Nat
      /\ \A j \in 1..K : j \in 1..Len(ls)
  BY Lists
<1>2. \A j \in 1..Len(ls) : Ends(ls, j) \in Nat
  <2>1. Join(ls) \in Lines
    BY JoinIsText
  <2> QED BY <2>1, EndsInText DEF Lines
<1>3. ASSUME NEW k \in upto PROVE k \in EndsUpTo(ls, n)
  <2>1. PICK j \in 1..K : k = Ends(ls, j)
    BY DEF EndsUpTo
  <2>2. ~(n < j)
    <3>1. SUFFICES ASSUME n < j PROVE FALSE
      OBVIOUS
    <3>2. Ends(ls, n) < Ends(ls, j)
      BY <1>1, <3>1, EndsGrow
    <3>3. Ends(ls, j) <= Ends(ls, n)
      BY <2>1
    <3>4. Ends(ls, j) \in Nat /\ Ends(ls, n) \in Nat
      BY <1>1, <1>2
    <3> QED BY <3>2, <3>3, <3>4
  <2>3. j \in 1..n
    BY <1>1, <2>2
  <2> QED BY <2>1, <2>3 DEF EndsUpTo
<1>4. ASSUME NEW k \in EndsUpTo(ls, n) PROVE k \in upto
  <2>1. PICK j \in 1..n : k = Ends(ls, j)
    BY DEF EndsUpTo
  <2>2. j \in 1..K /\ j \in 1..Len(ls)
    BY <1>1
  <2>3. k <= e
    <3>1. CASE j = n
      <4>1. Ends(ls, n) \in Nat
        BY <1>1, <1>2
      <4> QED BY <2>1, <3>1, <4>1
    <3>2. CASE j # n
      <4>1. j < n
        BY <1>1, <3>2
      <4>2. Ends(ls, j) < Ends(ls, n)
        BY <1>1, <2>2, <4>1, EndsGrow
      <4>3. Ends(ls, j) \in Nat /\ Ends(ls, n) \in Nat
        BY <1>1, <1>2, <2>2
      <4> QED BY <2>1, <4>2, <4>3
    <3> QED BY <3>1, <3>2
  <2> QED BY <2>1, <2>2, <2>3 DEF EndsUpTo
<1>5. upto = EndsUpTo(ls, n)
  BY <1>3, <1>4
<1>6. Cardinality(upto) = n
  BY <1>1, <1>5, EndsCounted
<1> QED BY <1>6 DEF Rank

\* The n-th end of a line in the text is the end of the n-th line.
LEMMA EndIs ==
  ASSUME NEW ls \in Buffers, NEW n \in 1..Kept(ls)
  PROVE  LineEnd(Join(ls), n) = Ends(ls, n)
<1> DEFINE text == Join(ls)
           K == Kept(ls)
<1>1. ls \in LineLists /\ K \in 0..Len(ls) /\ Len(ls) \in Nat
  BY BufferIsLists, KeptInLines
<1>2. text \in Seq(Symbols)
  BY <1>1, JoinIsText DEF Lines
<1>3. LineEnds(text) = EndsUpTo(ls, K)
  BY EndsFound
<1>4. Cardinality(LineEnds(text)) = K
  BY <1>1, <1>3, EndsCounted
<1>5. LineEnd(text, n) \in LineEnds(text) /\ Rank(LineEnds(text), LineEnd(text, n)) = n
  BY <1>2, <1>4, LineEndIsEnd
<1> HIDE DEF text, K
<1>6. PICK m \in 1..K : LineEnd(text, n) = Ends(ls, m)
  BY <1>3, <1>5 DEF EndsUpTo
<1>7. Rank(EndsUpTo(ls, K), Ends(ls, m)) = m
  BY <1>1, EndsRanked
<1>8. m = n
  BY <1>3, <1>5, <1>6, <1>7
<1> QED BY <1>6, <1>8 DEF text

\* A line is found again where it was written, but for a CR at its end.
LEMMA LineAgain ==
  ASSUME NEW ls \in Buffers, NEW n \in 1..Kept(ls)
  PROVE  LineOf(Join(ls), n) = WithoutCR(ls[n])
<1> DEFINE text == Join(ls)
           m == n - 1
<1>1. /\ ls \in LineLists /\ Len(ls) \in Nat /\ Kept(ls) \in 0..Len(ls)
  BY BufferIsLists, KeptInLines
<1>2. n \in 1..Len(ls) /\ n \in Nat
  BY <1>1
<1>3. LineEnd(text, n) = Ends(ls, n)
  BY EndIs
<1>4. LineEnd(text, m) = Begins(ls, n)
  <2>1. CASE n = 1
    BY <1>1, <2>1, FirstBegins DEF LineEnd
  <2>2. CASE n # 1
    <3>1. m \in 1..Kept(ls) /\ m \in 1..Len(ls) /\ n = m + 1
      BY <1>1, <1>2, <2>2
    <3> HIDE DEF m
    <3>2. LineEnd(text, m) = Ends(ls, m)
      BY <3>1, EndIs
    <3>3. Begins(ls, n) = Ends(ls, m)
      BY <1>1, <1>2, <3>1, NextBegins
    <3> QED BY <3>2, <3>3
  <2> QED BY <2>1, <2>2
<1>5. SubSeq(text, Begins(ls, n) + 1, Ends(ls, n) - 1) = ls[n]
  BY <1>1, <1>2, EndsInText
<1>6. LineOf(text, n) = WithoutCR(SubSeq(text, LineEnd(text, m) + 1, LineEnd(text, n) - 1))
  BY DEF LineOf
<1> HIDE DEF text, m
<1> QED BY <1>3, <1>4, <1>5, <1>6 DEF text

\* What is saved is loaded again, but for a CR at the end of a line and an empty last line.
LEMMA LoadedAgain ==
  ASSUME NEW ls \in Buffers
  PROVE  WithoutCRs(ls) \in {Load(Join(ls)), Append(Load(Join(ls)), <<>>)}
<1> DEFINE text == Join(ls)
           K == Kept(ls)
           k == Len(ls)
           again == Load(text)
<1>1. /\ ls \in LineLists /\ k \in Nat /\ k \in 1..k /\ DOMAIN ls = 1..k
      /\ K \in 0..k
      /\ K = k \/ (K = k - 1 /\ ls[k] = <<>>)
  BY BufferIsLists, KeptInLines
<1>2. k <= MaxLines /\ MaxLines \in Nat
  BY MaxLinesAssumption DEF Buffers
<1>3. text \in Seq(Symbols)
  BY <1>1, JoinIsText DEF Lines
<1>4. Cardinality(LineEnds(text)) = K
  BY <1>1, EndsFound, EndsCounted
<1>5. \A n \in 1..K : LineOf(text, n) = WithoutCR(ls[n])
  BY LineAgain
<1>6. WithoutCR(<<>>) = <<>>
  BY DEF WithoutCR
<1>7. (text = <<>> \/ Last(text) = NL) <=> ls[k] = <<>>
  BY LastOfText
<1>8. WithoutCRs(ls) = [n \in 1..k |-> WithoutCR(ls[n])]
  BY <1>1 DEF WithoutCRs
<1>9. again = IF text = <<>> THEN << <<>> >>
              ELSE [n \in 1..Minimum(Cardinality(LineEnds(text)), MaxLines) |-> LineOf(text, n)]
  BY DEF Load
<1> HIDE DEF text, K, k, again
<1>10. CASE text = <<>>
  <2>1. LineEnds(text) = {}
    BY <1>10 DEF LineEnds
  <2>2. K = 0
    BY <1>4, <2>1, FS_EmptySet
  <2>3. k = 1
    BY <1>1, <2>2
  <2>4. ls[1] = <<>>
    BY <1>7, <1>10, <2>3
  <2>5. again = [n \in 1..1 |-> <<>>]
    BY <1>9, <1>10
  <2>6. WithoutCRs(ls) = again
    BY <1>6, <1>8, <2>3, <2>4, <2>5
  <2> QED BY <2>6 DEF again, text
<1>11. CASE text # <<>>
  <2>1. Minimum(Cardinality(LineEnds(text)), MaxLines) = K
    BY <1>1, <1>2, <1>4 DEF Minimum
  <2>2. again = [n \in 1..K |-> WithoutCR(ls[n])]
    BY <1>5, <1>9, <1>11, <2>1
  <2>3. CASE K = k
    BY <1>8, <2>2, <2>3 DEF again, text
  <2>4. CASE K = k - 1 /\ ls[k] = <<>>
    <3>1. again \in Seq(Seq(LineSymbols))
      BY <1>3, Loads DEF again
    <3>2. Len(again) = K
      BY <1>1, <2>2, <3>1
    <3> DEFINE longer == Append(again, <<>>)
    <3>3. /\ longer \in Seq(Seq(LineSymbols)) /\ Len(longer) = k /\ longer[k] = <<>>
          /\ \A n \in 1..K : longer[n] = again[n]
      BY <1>1, <2>4, <3>1, <3>2
    <3> HIDE DEF longer
    <3>4. ASSUME NEW n \in 1..k PROVE longer[n] = WithoutCR(ls[n])
      <4>1. CASE n = k
        BY <1>6, <2>4, <3>3, <4>1
      <4>2. CASE n # k
        <5>1. n \in 1..K
          BY <1>1, <2>4, <4>2
        <5> QED BY <2>2, <3>3, <5>1
      <4> QED BY <4>1, <4>2
    <3>5. longer = [n \in 1..k |-> longer[n]]
      BY <3>3
    <3>6. longer = WithoutCRs(ls)
      BY <1>8, <3>4, <3>5
    <3> QED BY <3>6 DEF longer, again, text
  <2> QED BY <1>1, <2>3, <2>4
<1> QED BY <1>10, <1>11

-----------------------------------------------------------------------------
\* A text without the mark of a modification.

\* A clean text is just as it was loaded, or just as it was saved.
Clean ==
  /\ file \in Seq(Symbols)
  /\ ~modified => lines = Load(file) \/ file = Join(lines)

LEMMA CleanIsInFile == Inv /\ Clean => CleanTextIsInFile
<1> SUFFICES ASSUME Inv, Clean PROVE CleanTextIsInFile
  OBVIOUS
<1>1. lines \in Buffers
  BY DEF Inv, Placed
<1>2. CASE file = Join(lines)
  <2>1. WithoutCRs(lines) \in {Load(file), Append(Load(file), <<>>)}
    BY <1>1, <1>2, LoadedAgain
  <2> QED BY <2>1 DEF Clean, CleanTextIsInFile
<1>3. CASE file # Join(lines)
  BY <1>3 DEF Clean, CleanTextIsInFile
<1> QED BY <1>2, <1>3

LEMMA SavingCleans ==
  ASSUME Inv, Clean, Saved, UNCHANGED lines
  PROVE  Clean'
<1>1. CASE exists
  <2>1. file' = Join(lines) /\ lines' = lines
    BY <1>1 DEF Saved
  <2>2. Join(lines) \in Seq(Symbols)
    BY CursorLine, JoinIsText DEF Lines
  <2>3. file' = Join(lines')
    BY <2>1
  <2> QED BY <2>1, <2>2, <2>3 DEF Clean
<1>2. CASE ~exists
  BY <1>2 DEF Saved, Clean
<1> QED BY <1>1, <1>2

LEMMA EditingCleans ==
  ASSUME Clean, TypeChar \/ TypeTab \/ Backspace \/ Delete \/ Split
  PROVE  Clean'
<1>1. modified' = TRUE /\ file' = file
  BY DEF TypeChar, TypeTab, InsertText, Backspace, Delete, Split, Edit, Surroundings
<1> QED BY <1>1 DEF Clean

LEMMA OthersClean ==
  ASSUME Clean,
         WriteMove \/ Escape \/ Write \/ Quit \/ OpenPrompt("search") \/ OpenPrompt("goto")
           \/ PromptKey \/ Around \/ UNCHANGED vars
  PROVE  Clean'
<1>1. UNCHANGED <<lines, file, modified>>
  BY OthersLeave
<1> QED BY <1>1 DEF Clean

LEMMA StepCleans ==
  ASSUME Inv, Clean, [Next]_vars, [~SplitFails]_vars
  PROVE  Clean'
<1>1. CASE TypeChar \/ TypeTab \/ Backspace \/ Delete \/ Split
  BY <1>1, EditingCleans
<1>2. CASE Save \/ SaveAndQuit
  <2>1. Saved /\ UNCHANGED lines
    BY <1>2 DEF Save, SaveAndQuit, Render, View, Close
  <2> QED BY <2>1, SavingCleans
<1>3. CASE WriteMove \/ Escape \/ Write \/ Quit \/ OpenPrompt("search") \/ OpenPrompt("goto")
           \/ PromptKey \/ Around \/ UNCHANGED vars
  BY <1>3, OthersClean
<1> QED BY <1>1, <1>2, <1>3 DEF Next, WriteEdit, CommandKey

\* As long as no split finds the array of lines full, a text without the mark of a
\* modification is the file's: whatever lines scribe_save has written, scribe_load_from_text
\* finds each of them again in the text, one after the other.
THEOREM CleanTextKept == Spec /\ [][~SplitFails]_vars => []CleanTextIsInFile
<1>1. Init => Clean
  BY FilesAssumption DEF Init, Clean
<1>2. Inv /\ Clean /\ [Next]_vars /\ [~SplitFails]_vars => Clean'
  BY StepCleans
<1>3. Inv /\ Clean => CleanTextIsInFile
  BY CleanIsInFile
<1> QED BY <1>1, <1>2, <1>3, InvHolds, PTL DEF Spec
=============================================================================
