---------------------------- MODULE ShapeProofs ----------------------------
(***************************************************************************)
(* Proofs about the two passes of Shape and what is loaded of them, for    *)
(* every menu of lines.                                                    *)
(*                                                                         *)
(* Chained says that the state the first pass had before a line, changed   *)
(* by the line, is the one it had before the next; Followed that the       *)
(* second pass is in that state again.  The step from a line to the next   *)
(* rests on the length of what a statement emits (EncodedLength).          *)
(*                                                                         *)
(* DataInv says which bytes of data are in the buffer (Emitted), in the    *)
(* file and in the image.  Their places are counted by the first pass      *)
(* line by line, and in the property from the source alone:                *)
(* MarksAreBefore says that it is the same.                                *)
(***************************************************************************)
EXTENDS Golem, WellFoundedInduction, TLAPS

Lines == UNION {Menu[k] : k \in 1..Len(Menu)}
SectionNames == {line.section : line \in Lines} \cup {"none"}
Mark == [sec : SectionNames, code : Nat, data : Nat]

Typed ==
  /\ source \in Seq(Lines) /\ starts \in Seq(Mark) /\ Len(starts) = Len(source)
  /\ sec \in SectionNames /\ codeSize \in Nat /\ dataSize \in Nat
  /\ \A name \in DOMAIN labels : labels[name].off \in Nat
  /\ code \in Seq(Int) /\ data \in Seq(Int)

CodeLen(section, line) == IF HasStmt(line) /\ section = "code" THEN SizeOf(line.stmt.op) ELSE 0
DataLength(section, line) == IF HasStmt(line) /\ section = "data" THEN DataLen(line.stmt) ELSE 0

AfterLine(mark, line) ==
  [sec  |-> IF IsSection(line) THEN line.section ELSE mark.sec,
   code |-> mark.code + CodeLen(mark.sec, line),
   data |-> mark.data + DataLength(mark.sec, line)]

Accepted(section, line) ==
  HasStmt(line) => \/ section = "code" /\ line.stmt.op \in CodeOps
                   \/ section = "data" /\ line.stmt.op \in DataOps

Chained ==
  /\ source = <<>> => codeSize = 0 /\ dataSize = 0
  /\ source # <<>> => starts[1] = [sec |-> "none", code |-> 0, data |-> 0]
  /\ \A k \in 1..Len(source) :
       /\ Accepted(starts[k].sec, source[k])
       /\ AfterLine(starts[k], source[k]).code <= codeSize
       /\ AfterLine(starts[k], source[k]).data <= dataSize
       /\ k < Len(source) => starts[k + 1] = AfterLine(starts[k], source[k])
       /\ k = Len(source) => /\ codeSize = AfterLine(starts[k], source[k]).code
                             /\ dataSize = AfterLine(starts[k], source[k]).data

\* While the first pass reads, its section is the one behind the last line.
Reading ==
  /\ code = <<>> /\ data = <<>>
  /\ source = <<>> => sec = "none"
  /\ source # <<>> => sec = AfterLine(starts[Len(source)], source[Len(source)]).sec

Followed ==
  /\ pos \in 1..Len(source) + 1
  /\ pos <= Len(source) => starts[pos] = [sec |-> sec, code |-> Len(code), data |-> Len(data)]
  /\ pos = Len(source) + 1 => Len(code) = codeSize /\ Len(data) = dataSize

Inv ==
  /\ phase # "overflow"
  /\ phase \in {"one", "two", "shaped"} => Typed /\ Chained
  /\ phase = "one" => Reading
  /\ phase = "two" => Followed
  /\ phase = "shaped" => Len(code) = codeSize /\ Len(data) = dataSize

-----------------------------------------------------------------------------
LEMMA Imm32Length ==
  ASSUME NEW v \in Int
  PROVE  Imm32(v) \in Seq(Int) /\ Len(Imm32(v)) = 4
<1>1. v % 256 \in Int /\ (v \div 256) \in Int /\ (v \div 65536) \in Int /\ (v \div 16777216) \in Int
  OBVIOUS
<1>2. (v \div 256) % 256 \in Int /\ (v \div 65536) % 256 \in Int /\ (v \div 16777216) % 256 \in Int
  BY <1>1
<1> QED
  BY <1>1, <1>2 DEF Imm32

LEMMA JoinedLength ==
  ASSUME NEW s \in Seq(Int), NEW t \in Seq(Int)
  PROVE  s \o t \in Seq(Int) /\ Len(s \o t) = Len(s) + Len(t)
  OBVIOUS

LEMMA ThreeLengths ==
  ASSUME NEW s \in Seq(Int), NEW t \in Seq(Int), NEW u \in Seq(Int)
  PROVE  (s \o t) \o u \in Seq(Int) /\ Len((s \o t) \o u) = Len(s) + Len(t) + Len(u)
<1>1. s \o t \in Seq(Int) /\ Len(s \o t) = Len(s) + Len(t)
  OBVIOUS
<1> DEFINE st == s \o t
<1>2. st \in Seq(Int) /\ Len(st) = Len(s) + Len(t)
  BY <1>1
<1> HIDE DEF st
<1>3. st \o u \in Seq(Int) /\ Len(st \o u) = Len(st) + Len(u)
  BY <1>2, JoinedLength
<1> QED
  BY <1>2, <1>3 DEF st

LEMMA RestLength ==
  ASSUME NEW op
  PROVE  Rest(op) \in Seq(Int) /\ Len(Rest(op)) = (CASE op = "say" -> 6 [] op = "div" -> 2 [] OTHER -> 0)
  BY DEF Rest

\* A statement emits as many bytes as the first pass has counted for it.
LEMMA EncodedLength ==
  ASSUME Typed, NEW stmt, NEW at \in Nat,
         stmt.op \in CodeOps, WellFormed(stmt), Resolved(stmt)
  PROVE  Encoded(stmt, at) \in Seq(Int) /\ Len(Encoded(stmt, at)) = SizeOf(stmt.op)
<1> DEFINE op == stmt.op
           labelled == op \in DataLabelOps \cup CodeLabelOps \cup ImmOps
           rest == CASE op = "say" -> 6 [] op = "div" -> 2 [] OTHER -> 0
           bytes == (Opcode(stmt) \o Imm32(Immediate(stmt, at))) \o Rest(op)
<1>1. SizeOf(op) \in Nat
  BY DEF SizeOf, CodeOps, OneByte, FiveBytes, SixBytes
<1>2. Opcode(stmt) \in Seq(Int) /\ Len(Opcode(stmt)) = SizeOf(op) - (IF labelled THEN 4 + rest ELSE 0)
  <2>1. op \in {"mov_reg", "cmp_reg"} => ModRM(stmt.src, stmt.reg) \in Int
    BY DEF WellFormed, ModRM
  <2>2. op \in {"add", "sub", "cmp"} => \A n \in Int : ModRM(n, stmt.reg) \in Int
    BY DEF WellFormed, ModRM
  <2>3. op = "mov" => \hB8 + stmt.reg \in Int
    BY DEF WellFormed
  <2>4. op = "jcc" => stmt.cond \in Int
    BY DEF WellFormed
  <2>5. op # "garbled"
    BY DEF Resolved
  <2> QED
    BY <2>1, <2>2, <2>3, <2>4, <2>5
    DEF Opcode, SizeOf, CodeOps, OneByte, FiveBytes, SixBytes, DataLabelOps, CodeLabelOps, ImmOps
<1>3. CASE ~labelled
  BY <1>1, <1>2, <1>3 DEF Encoded
<1>4. CASE labelled
  <2>1. Immediate(stmt, at) \in Int
    <3>1. CASE op \in DataLabelOps \cup CodeLabelOps
      <4>1. labels[stmt.to].off \in Int
        BY <3>1 DEF Resolved, Typed
      <4> QED
        BY <1>1, <3>1, <4>1 DEF Immediate, ImageOff, Disp, Typed
    <3>2. CASE op \notin DataLabelOps \cup CodeLabelOps
      BY <1>4, <3>2 DEF WellFormed, Immediate
    <3> QED
      BY <3>1, <3>2
  <2>2. Imm32(Immediate(stmt, at)) \in Seq(Int) /\ Len(Imm32(Immediate(stmt, at))) = 4
    BY <2>1, Imm32Length
  <2>3. Rest(op) \in Seq(Int) /\ Len(Rest(op)) = rest /\ rest \in Nat
    BY RestLength
  <2>4. /\ bytes \in Seq(Int)
        /\ Len(bytes) = Len(Opcode(stmt)) + Len(Imm32(Immediate(stmt, at))) + Len(Rest(op))
    BY <1>2, <2>2, <2>3, ThreeLengths, Zenon
  <2>5. Encoded(stmt, at) = bytes
    BY <1>4 DEF Encoded
  <2> HIDE DEF bytes, rest, op
  <2>6. Len(bytes) = SizeOf(op)
    BY <1>1, <1>2, <1>4, <2>2, <2>3, <2>4
  <2> QED
    BY <2>4, <2>5, <2>6, Zenon DEF op
<1> QED
  BY <1>3, <1>4

LEMMA AppendedLength ==
  ASSUME NEW text \in Seq(Int)
  PROVE  Append(text, 0) \in Seq(Int) /\ Len(text) \in Nat /\ Len(Append(text, 0)) = Len(text) + 1
  OBVIOUS

LEMMA DataBytesLength ==
  ASSUME NEW stmt, stmt.op \in DataOps, WellFormed(stmt)
  PROVE  DataBytes(stmt) \in Seq(Int) /\ Len(DataBytes(stmt)) = DataLen(stmt) /\ DataLen(stmt) \in Nat
<1>1. CASE stmt.op = "dd"
  <2>1. stmt.imm \in Int
    BY <1>1 DEF WellFormed
  <2> QED
    BY <1>1, <2>1, Imm32Length DEF DataBytes, DataLen
<1>2. CASE stmt.op = "asciz"
  <2>1. stmt.text \in Seq(Int)
    BY <1>2, Zenon DEF WellFormed
  <2>2. /\ Append(stmt.text, 0) \in Seq(Int) /\ Len(stmt.text) \in Nat
        /\ Len(Append(stmt.text, 0)) = Len(stmt.text) + 1
    BY <2>1, AppendedLength, Zenon
  <2> QED
    BY <1>2, <2>2 DEF DataBytes, DataLen
<1> QED
  BY <1>1, <1>2 DEF DataOps

LEMMA SizeType == \A op \in CodeOps : SizeOf(op) \in Nat
  BY DEF SizeOf, CodeOps, OneByte, FiveBytes, SixBytes

\* A line of the source, its statement and the mark before it are what they should be.
LEMMA LineTypes ==
  ASSUME Typed, NEW line \in Lines, NEW mark \in Mark, Accepted(mark.sec, line)
  PROVE  /\ HasStmt(line) => WellFormed(line.stmt)
         /\ CodeLen(mark.sec, line) \in Nat /\ DataLength(mark.sec, line) \in Nat
         /\ AfterLine(mark, line) \in Mark
<1>1. HasStmt(line) => WellFormed(line.stmt)
  BY MenuAssumption DEF Lines
<1>2. CodeLen(mark.sec, line) \in Nat
  BY SizeType DEF CodeLen, Accepted, DataOps, CodeOps
<1>3. DataLength(mark.sec, line) \in Nat
  BY <1>1, DataBytesLength DEF DataLength, Accepted
<1>4. IsSection(line) => line.section \in SectionNames
  BY DEF SectionNames
<1> QED
  BY <1>1, <1>2, <1>3, <1>4 DEF AfterLine, Mark

\* What the first pass keeps of a line carries its invariant to the next.
LEMMA ReadLine ==
  ASSUME Typed, Chained, Reading, NEW line \in Lines, NEW mark, NEW after,
         mark = [sec |-> sec, code |-> codeSize, data |-> dataSize],
         after = AfterLine(mark, line), Accepted(sec, line),
         source' = Append(source, line), starts' = Append(starts, mark),
         sec' = after.sec, codeSize' = after.code, dataSize' = after.data,
         \A name \in DOMAIN labels' : labels'[name].off \in Nat,
         code' = code, data' = data
  PROVE  Typed' /\ Chained' /\ Reading'
<1>1. mark \in Mark
  BY DEF Typed, Mark
<1>2. /\ CodeLen(sec, line) \in Nat /\ DataLength(sec, line) \in Nat
      /\ after \in Mark
  BY <1>1, LineTypes
<1>3. Typed'
  <2>1. source \in Seq(Lines) /\ starts \in Seq(Mark) /\ Len(starts) = Len(source)
    BY DEF Typed
  <2>2. source' \in Seq(Lines) /\ starts' \in Seq(Mark) /\ Len(starts') = Len(source')
    BY <1>1, <2>1
  <2>3. sec' \in SectionNames /\ codeSize' \in Nat /\ dataSize' \in Nat
    BY <1>2 DEF Mark
  <2> QED
    BY <2>2, <2>3 DEF Typed
<1>4. /\ Len(source') = Len(source) + 1
      /\ source'[Len(source) + 1] = line /\ starts'[Len(source) + 1] = mark
      /\ \A k \in 1..Len(source) : source'[k] = source[k] /\ starts'[k] = starts[k]
  BY <1>1 DEF Typed
<1>5. codeSize <= codeSize' /\ dataSize <= dataSize'
  BY <1>2 DEF AfterLine, Typed
<1>6. source # <<>> => mark = AfterLine(starts[Len(source)], source[Len(source)])
  BY DEF Chained, Reading, Typed, AfterLine
<1>7. Chained'
  <2>1. source' # <<>> => starts'[1] = [sec |-> "none", code |-> 0, data |-> 0]
    <3>1. CASE source = <<>>
      BY <1>4, <3>1 DEF Chained, Reading
    <3>2. CASE source # <<>>
      BY <1>4, <3>2 DEF Chained, Typed
    <3> QED
      BY <3>1, <3>2
  <2>2. ASSUME NEW k \in 1..Len(source')
        PROVE  /\ Accepted(starts'[k].sec, source'[k])
               /\ AfterLine(starts'[k], source'[k]).code <= codeSize'
               /\ AfterLine(starts'[k], source'[k]).data <= dataSize'
               /\ k < Len(source') => starts'[k + 1] = AfterLine(starts'[k], source'[k])
               /\ k = Len(source') => /\ codeSize' = AfterLine(starts'[k], source'[k]).code
                                      /\ dataSize' = AfterLine(starts'[k], source'[k]).data
    <3>1. CASE k = Len(source')
      BY <1>2, <1>3, <1>4, <3>1 DEF Mark, Typed
    <3>2. CASE k # Len(source')
      <4>1. k \in 1..Len(source) /\ k < Len(source')
        BY <1>4, <3>2 DEF Typed
      <4>2. starts[k] \in Mark /\ source[k] \in Lines
        BY <4>1 DEF Typed
      <4>3. Accepted(starts[k].sec, source[k])
        BY <4>1 DEF Chained
      <4>4. AfterLine(starts[k], source[k]) \in Mark
        BY <4>2, <4>3, LineTypes
      <4>5. /\ AfterLine(starts[k], source[k]).code <= codeSize
            /\ AfterLine(starts[k], source[k]).data <= dataSize
        BY <4>1 DEF Chained
      <4>6. /\ AfterLine(starts[k], source[k]).code <= codeSize'
            /\ AfterLine(starts[k], source[k]).data <= dataSize'
        BY <1>2, <1>5, <4>4, <4>5 DEF Mark, Typed
      <4>7. starts'[k + 1] = AfterLine(starts[k], source[k])
        BY <1>4, <1>6, <4>1 DEF Chained, Typed
      <4> QED
        BY <1>4, <4>1, <4>3, <4>6, <4>7
    <3> QED
      BY <3>1, <3>2
  <2> QED
    <3>1. source' # <<>>
      BY <1>3, <1>4 DEF Typed
    <3> QED
      BY <2>1, <2>2, <3>1, Zenon DEF Chained
<1>8. Reading'
  BY <1>4 DEF Reading, Typed
<1> QED
  BY <1>3, <1>7, <1>8

-----------------------------------------------------------------------------
\* What the second pass emits for a line brings it to where the first was behind it.
LEMMA EmitLine ==
  ASSUME Typed, Chained, Followed, pos <= Len(source), NEW after,
         after = AfterLine(starts[pos], source[pos]),
         pos' = pos + 1, sec' = after.sec,
         code' \in Seq(Int), Len(code') = after.code,
         data' \in Seq(Int), Len(data') = after.data,
         UNCHANGED <<source, codeSize, dataSize, labels, starts>>
  PROVE  Typed' /\ Chained' /\ Followed'
<1>1. pos \in 1..Len(source)
  BY DEF Followed, Typed
<1>2. starts[pos] \in Mark /\ source[pos] \in Lines /\ Accepted(starts[pos].sec, source[pos])
  BY <1>1 DEF Typed, Chained
<1>3. after \in Mark
  BY <1>2, LineTypes
<1>4. Typed'
  BY <1>3 DEF Typed, Mark
<1>5. Chained'
  BY DEF Chained
<1>6. CASE pos < Len(source)
  <2>1. starts[pos + 1] = after
    BY <1>1, <1>6 DEF Chained
  <2>2. after = [sec |-> after.sec, code |-> after.code, data |-> after.data]
    BY <1>3 DEF Mark
  <2> QED
    BY <1>1, <1>4, <1>5, <1>6, <2>1, <2>2 DEF Followed, Typed
<1>7. CASE pos = Len(source)
  <2>1. codeSize = after.code /\ dataSize = after.data
    BY <1>1, <1>7 DEF Chained
  <2> QED
    BY <1>1, <1>4, <1>5, <1>7, <2>1 DEF Followed, Typed
<1> QED
  BY <1>1, <1>6, <1>7 DEF Typed

\* The line that the second pass is at fits in behind what it has emitted.
LEMMA AtLine ==
  ASSUME Typed, Chained, Followed, pos <= Len(source), NEW after,
         after = AfterLine(starts[pos], source[pos])
  PROVE  /\ Accepted(sec, Line) /\ after \in Mark
         /\ HasStmt(Line) => WellFormed(Line.stmt)
         /\ after.sec = IF IsSection(Line) THEN Line.section ELSE sec
         /\ after.code = Len(code) + CodeLen(sec, Line) /\ after.code <= codeSize
         /\ after.data = Len(data) + DataLength(sec, Line) /\ after.data <= dataSize
<1>1. pos \in 1..Len(source)
  BY DEF Followed, Typed
<1>2. starts[pos] \in Mark /\ source[pos] \in Lines /\ Accepted(starts[pos].sec, source[pos])
  BY <1>1 DEF Typed, Chained
<1>3. starts[pos] = [sec |-> sec, code |-> Len(code), data |-> Len(data)]
  BY DEF Followed
<1>4. after \in Mark /\ (HasStmt(Line) => WellFormed(Line.stmt))
  BY <1>2, LineTypes DEF Line
<1>5. after.code <= codeSize /\ after.data <= dataSize
  BY <1>1 DEF Chained
<1> QED
  BY <1>2, <1>3, <1>4, <1>5 DEF AfterLine, Line

LEMMA PassTwoStep ==
  ASSUME Inv, PassTwo
  PROVE  Inv'
<1>1. /\ phase = "two" /\ pos <= Len(source) /\ Typed /\ Chained /\ Followed
      /\ UNCHANGED <<source, codeSize, dataSize, labels, starts>>
  BY DEF Inv, PassTwo
<1> DEFINE after == AfterLine(starts[pos], source[pos])
<1>2. /\ Accepted(sec, Line) /\ after \in Mark
      /\ HasStmt(Line) => WellFormed(Line.stmt)
      /\ after.sec = IF IsSection(Line) THEN Line.section ELSE sec
      /\ after.code = Len(code) + CodeLen(sec, Line) /\ after.code <= codeSize
      /\ after.data = Len(data) + DataLength(sec, Line) /\ after.data <= dataSize
  BY <1>1, AtLine
<1> HIDE DEF after
<1>3. /\ code \in Seq(Int) /\ Len(code) \in Nat /\ data \in Seq(Int) /\ Len(data) \in Nat
      /\ codeSize \in Nat /\ dataSize \in Nat
  BY <1>1 DEF Typed
<1>4. SUFFICES ASSUME phase' # "refused"
               PROVE  /\ phase' = "two" /\ pos' = pos + 1 /\ sec' = after.sec
                      /\ code' \in Seq(Int) /\ Len(code') = after.code
                      /\ data' \in Seq(Int) /\ Len(data') = after.data
  <2>1. CASE phase' = "refused"
    BY <2>1 DEF Inv
  <2>2. ASSUME /\ phase' = "two" /\ pos' = pos + 1 /\ sec' = after.sec
               /\ code' \in Seq(Int) /\ Len(code') = after.code
               /\ data' \in Seq(Int) /\ Len(data') = after.data
        PROVE  Inv'
    <3>1. Typed' /\ Chained' /\ Followed'
      BY <1>1, <2>2, EmitLine DEF after
    <3> QED
      BY <2>2, <3>1 DEF Inv
  <2> QED
    BY <2>1, <2>2
<1>5. CASE EmitCode
  <2>1. HasStmt(Line) /\ sec = "code" /\ ~IsSection(Line) /\ Resolved(Line.stmt) /\ Line.stmt.op \in CodeOps
    BY <1>2, <1>5 DEF EmitCode, Emits, Accepted, HasStmt
  <2> DEFINE bytes == Encoded(Line.stmt, Len(code))
  <2>2. bytes \in Seq(Int) /\ Len(bytes) = SizeOf(Line.stmt.op)
    BY <1>1, <1>2, <1>3, <2>1, EncodedLength, Zenon
  <2>3. after.code = Len(code) + SizeOf(Line.stmt.op) /\ after.data = Len(data) /\ after.sec = sec
    BY <1>2, <1>3, <2>1 DEF CodeLen, DataLength
  <2>4. IF Len(code) + Len(bytes) <= codeSize
        THEN code' = code \o bytes /\ pos' = pos + 1 /\ UNCHANGED phase
        ELSE phase' = "overflow" /\ UNCHANGED <<code, pos>>
    BY <1>5 DEF EmitCode
  <2>5. UNCHANGED <<sec, data>>
    BY <1>5 DEF EmitCode
  <2> HIDE DEF bytes
  <2>6. code \o bytes \in Seq(Int) /\ Len(code \o bytes) = Len(code) + Len(bytes)
    BY <1>3, <2>2, JoinedLength
  <2>7. Len(code) + Len(bytes) = after.code /\ after.code <= codeSize
    BY <1>2, <2>2, <2>3
  <2>8. code' = code \o bytes /\ pos' = pos + 1 /\ UNCHANGED phase
    BY <2>4, <2>7
  <2> QED
    BY <1>1, <1>3, <2>3, <2>5, <2>6, <2>7, <2>8
<1>6. CASE EmitData
  <2>1. HasStmt(Line) /\ sec = "data" /\ ~IsSection(Line) /\ Line.stmt.op \in DataOps
    BY <1>2, <1>6 DEF EmitData, Emits, Accepted, HasStmt
  <2> DEFINE bytes == DataBytes(Line.stmt)
  <2>2. bytes \in Seq(Int) /\ Len(bytes) = DataLen(Line.stmt)
    BY <1>2, <2>1, DataBytesLength, Zenon
  <2>3. after.data = Len(data) + DataLen(Line.stmt) /\ after.code = Len(code) /\ after.sec = sec
    BY <1>2, <1>3, <2>1 DEF CodeLen, DataLength
  <2>4. IF Len(data) + Len(bytes) <= dataSize
        THEN data' = data \o bytes /\ pos' = pos + 1 /\ UNCHANGED phase
        ELSE phase' = "overflow" /\ UNCHANGED <<data, pos>>
    BY <1>6 DEF EmitData
  <2>5. UNCHANGED <<sec, code>>
    BY <1>6 DEF EmitData
  <2> HIDE DEF bytes
  <2>6. data \o bytes \in Seq(Int) /\ Len(data \o bytes) = Len(data) + Len(bytes)
    BY <1>3, <2>2, JoinedLength
  <2>7. Len(data) + Len(bytes) = after.data /\ after.data <= dataSize
    BY <1>2, <2>2, <2>3
  <2>8. data' = data \o bytes /\ pos' = pos + 1 /\ UNCHANGED phase
    BY <2>4, <2>7
  <2> QED
    BY <1>1, <1>3, <2>3, <2>5, <2>6, <2>7, <2>8
<1>7. CASE EmitNothing
  <2>1. after.code = Len(code) /\ after.data = Len(data)
    BY <1>2, <1>3, <1>7 DEF EmitNothing, CodeLen, DataLength
  <2> QED
    BY <1>1, <1>2, <1>3, <1>7, <2>1 DEF EmitNothing
<1>8. CASE RefuseOperand
  BY <1>4, <1>8 DEF RefuseOperand, Refuse
<1> QED
  BY <1>5, <1>6, <1>7, <1>8 DEF PassTwo

LEMMA PassOneStep ==
  ASSUME Inv, PassOne
  PROVE  Inv'
<1>1. phase = "one" /\ Typed /\ Chained /\ Reading /\ code' = code /\ data' = data
  BY DEF Inv, PassOne
<1>2. PICK line \in Menu[Len(source) + 1] :
        /\ source' = Append(source, line)
        /\ starts' = Append(starts, [sec |-> sec, code |-> codeSize, data |-> dataSize])
        /\ ReadSection(line) \/ ReadStatement(line) \/ RefuseLine(line)
  BY DEF PassOne
<1>3. line \in Lines
  <2>1. Len(source) + 1 \in 1..Len(Menu)
    BY <1>1, MenuAssumption DEF PassOne, Typed
  <2> QED
    BY <2>1 DEF Lines
<1> DEFINE mark == [sec |-> sec, code |-> codeSize, data |-> dataSize]
           after == AfterLine(mark, line)
<1>4. SUFFICES ASSUME phase' # "refused"
               PROVE  /\ phase' = "one" /\ Accepted(sec, line)
                      /\ sec' = after.sec /\ codeSize' = after.code /\ dataSize' = after.data
                      /\ \A name \in DOMAIN labels' : labels'[name].off \in Nat
  <2>1. CASE phase' = "refused"
    BY <2>1 DEF Inv
  <2>2. ASSUME /\ phase' = "one" /\ Accepted(sec, line)
               /\ sec' = after.sec /\ codeSize' = after.code /\ dataSize' = after.data
               /\ \A name \in DOMAIN labels' : labels'[name].off \in Nat
        PROVE  Inv'
    <3>1. Typed' /\ Chained' /\ Reading'
      BY <1>1, <1>2, <1>3, <2>2, ReadLine
    <3> QED
      BY <2>2, <3>1 DEF Inv
  <2> QED
    BY <2>1, <2>2
<1>5. codeSize \in Nat /\ dataSize \in Nat /\ \A name \in DOMAIN labels : labels[name].off \in Nat
  BY <1>1 DEF Typed
<1>6. CASE ReadSection(line)
  BY <1>1, <1>5, <1>6 DEF ReadSection, Accepted, HasStmt, AfterLine, CodeLen, DataLength
<1>7. CASE ReadStatement(line)
  <2>1. Accepted(sec, line)
    BY <1>7 DEF ReadStatement, BadStmt, Accepted
  <2>2. \A name \in DOMAIN labels' : labels'[name].off \in Nat
    BY <1>5, <1>7 DEF ReadStatement, Labelled, LabelOffset
  <2>3. sec' = after.sec /\ codeSize' = after.code /\ dataSize' = after.data
    BY <1>5, <1>7 DEF ReadStatement, AfterLine, CodeLen, DataLength
  <2> QED
    BY <1>1, <1>7, <2>1, <2>2, <2>3 DEF ReadStatement
<1>8. CASE RefuseLine(line)
  BY <1>4, <1>8 DEF RefuseLine, Refuse
<1> QED
  BY <1>2, <1>6, <1>7, <1>8

LEMMA PassOneEndsStep ==
  ASSUME Inv, PassOneEnds
  PROVE  Inv'
<1>1. /\ Typed /\ Chained /\ Reading
      /\ UNCHANGED <<source, codeSize, dataSize, labels, code, data, starts>>
  BY DEF Inv, PassOneEnds
<1>2. CASE phase' = "two" /\ pos' = 1 /\ sec' = "none"
  <2>1. Typed'
    BY <1>1, <1>2 DEF Typed, SectionNames
  <2>2. Chained'
    BY <1>1 DEF Chained
  <2>3. Followed'
    <3>1. CASE source = <<>>
      BY <1>1, <1>2, <3>1 DEF Followed, Chained, Reading, Typed
    <3>2. CASE source # <<>>
      BY <1>1, <1>2, <3>2 DEF Followed, Chained, Reading, Typed
    <3> QED
      BY <3>1, <3>2
  <2> QED
    BY <1>2, <2>1, <2>2, <2>3 DEF Inv
<1>3. CASE phase' = "refused"
  BY <1>3 DEF Inv
<1> QED
  BY <1>2, <1>3 DEF PassOneEnds, Refuse

LEMMA PackStep ==
  ASSUME Inv, Pack
  PROVE  Inv'
<1>1. /\ Typed /\ Chained /\ Followed /\ pos > Len(source)
      /\ UNCHANGED <<source, pos, sec, codeSize, dataSize, labels, code, data, starts>>
  BY DEF Inv, Pack
<1>2. Len(code) = codeSize /\ Len(data) = dataSize
  <2>1. Len(source) \in Nat /\ pos \in 1..Len(source) + 1
    BY <1>1 DEF Followed, Typed
  <2>2. pos = Len(source) + 1
    BY <1>1, <2>1
  <2> QED
    BY <1>1, <2>2 DEF Followed
<1>3. Typed' /\ Chained'
  BY <1>1 DEF Typed, Chained
<1> QED
  BY <1>1, <1>2, <1>3 DEF Inv, Pack, Refuse

\* The processor and the loader leave the assembler's phases behind.
LEMMA RunStep ==
  ASSUME Inv, Spawn \/ Execute
  PROVE  Inv'
<1>1. CASE Spawn
  BY <1>1 DEF Inv, Spawn
<1>2. CASE Execute
  <2>1. phase = "running"
    BY <1>2 DEF Execute
  <2>2. phase' \in {"running", "astray", "ended"}
    <3>1. CASE Instruction
      BY <2>1, <3>1 DEF Instruction, Return, CallHost, Access, Writes, Drop, Continues, Stops, Astray
    <3> QED
      BY <1>2, <3>1 DEF Execute, Stops, Astray
  <2> QED
    BY <2>2 DEF Inv
<1> QED
  BY <1>1, <1>2

THEOREM InvHolds == Spec => []Inv
<1>1. Init => Inv
  <2> SUFFICES ASSUME AsmInit PROVE Inv
    BY DEF Init
  <2>1. Len(source) = 0 /\ source = <<>> /\ phase = "one"
    BY DEF AsmInit
  <2>2. Typed
    BY DEF AsmInit, Typed, SectionNames
  <2>3. Chained
    BY <2>1 DEF AsmInit, Chained
  <2>4. Reading
    BY DEF AsmInit, Reading
  <2> QED
    BY <2>1, <2>2, <2>3, <2>4 DEF Inv
<1>2. Inv /\ [Next]_vars => Inv'
  <2>1. ASSUME Inv, UNCHANGED vars PROVE Inv'
    BY <2>1 DEF vars, asmVars, Inv, Typed, Chained, Reading, Followed
  <2> QED
    BY <2>1, PassOneStep, PassOneEndsStep, PassTwoStep, PackStep, RunStep DEF Next, AsmNext
<1> QED
  BY <1>1, <1>2, PTL DEF Spec

\* The two passes agree on every address, for every source, and no source that the first
\* pass accepts overflows what it has counted (shape.c, the two passes).
THEOREM AddressesAlwaysAgree == Spec => []AddressesAgree
<1>1. Inv => AddressesAgree
  BY DEF Inv, Followed, AddressesAgree
<1> QED
  BY <1>1, InvHolds, PTL

-----------------------------------------------------------------------------
\* How many bytes of data come before a line.

LEMMA LeastOfSome ==
  ASSUME NEW S \in SUBSET Nat, S # {}
  PROVE  \E n \in S : \A m \in S : n <= m
<1>1. PICK n \in S : \A m \in S : <<m, n>> \notin OpToRel(<, Nat)
  BY NatLessThanWellFounded, WFMin, Zenon
<1>2. \A m \in S : ~(m < n)
  BY <1>1 DEF OpToRel
<1> QED BY <1>2

\* From the least number that is not in S
LEMMA Induction ==
  ASSUME NEW S \in SUBSET Nat, 0 \in S, \A n \in S : n + 1 \in S
  PROVE  S = Nat
<1>1. SUFFICES ASSUME Nat \ S # {} PROVE FALSE
  OBVIOUS
<1>2. PICK n \in Nat \ S : \A m \in Nat \ S : n <= m
  BY <1>1, LeastOfSome
<1>3. n - 1 \in S
  BY <1>2
<1> QED BY <1>2, <1>3

\* The bytes of data on a line of a source
DataOn(lines, k) == IF k \in Data(lines) THEN DataLen(lines[k].stmt) ELSE 0

Sums(lines, n, g) == g = [j \in 0..n |-> IF j = 0 THEN 0 ELSE g[j - 1] + DataOn(lines, j)]

LEMMA SumsExist ==
  ASSUME NEW lines, Len(lines) \in Nat
  PROVE  \E g : Sums(lines, Len(lines), g)
<1> DEFINE Some == {n \in Nat : \E g : Sums(lines, n, g)}
<1>1. 0 \in Some
  <2>1. Sums(lines, 0, [j \in 0..0 |-> 0])
    BY DEF Sums
  <2> QED BY <2>1
<1>2. ASSUME NEW n \in Some PROVE n + 1 \in Some
  <2>1. PICK g : Sums(lines, n, g)
    OBVIOUS
  <2> DEFINE h == [j \in 0..n + 1 |-> IF j \in 0..n THEN g[j] ELSE g[n] + DataOn(lines, n + 1)]
             s == [j \in 0..n + 1 |-> IF j = 0 THEN 0 ELSE h[j - 1] + DataOn(lines, j)]
  <2>2. ASSUME NEW j \in 0..n + 1 PROVE h[j] = s[j]
    <3>1. CASE j = 0
      BY <2>1, <3>1 DEF Sums
    <3>2. CASE j \in 1..n
      <4>1. g[j] = g[j - 1] + DataOn(lines, j)
        BY <2>1, <3>2 DEF Sums
      <4> QED BY <3>2, <4>1
    <3>3. CASE j = n + 1
      BY <3>3
    <3> QED BY <3>1, <3>2, <3>3
  <2>3. h = s
    BY <2>2
  <2>4. Sums(lines, n + 1, h)
    BY <2>3 DEF Sums
  <2> QED BY <2>4
<1>3. Some = Nat
  <2> HIDE DEF Some
  <2>1. Some \in SUBSET Nat
    BY DEF Some
  <2> QED BY <1>1, <1>2, <2>1, Induction
<1> HIDE DEF Some
<1>4. Len(lines) \in Some
  BY <1>3
<1> QED BY <1>4 DEF Some

LEMMA DataAdds ==
  ASSUME NEW lines, Len(lines) \in Nat
  PROVE  /\ DataBefore(lines, 1) = 0
         /\ \A k \in 1..Len(lines) : DataBefore(lines, k + 1) = DataBefore(lines, k) + DataOn(lines, k)
<1> DEFINE before == CHOOSE g : Sums(lines, Len(lines), g)
<1>1. Sums(lines, Len(lines), before)
  BY SumsExist
<1>2. \A i \in Int : DataBefore(lines, i) = before[i - 1]
  BY DEF DataBefore, Sums, DataOn
<1> HIDE DEF before
<1>3. before = [j \in 0..Len(lines) |-> IF j = 0 THEN 0 ELSE before[j - 1] + DataOn(lines, j)]
  BY <1>1 DEF Sums
<1>4. before[0] = 0
  BY <1>3
<1>5. \A i \in 1..Len(lines) : before[i] = before[i - 1] + DataOn(lines, i)
  BY <1>3
<1>6. DataBefore(lines, 1) = 0
  BY <1>2, <1>4
<1>7. \A i \in 1..Len(lines) : DataBefore(lines, i) = before[i - 1] /\ DataBefore(lines, i + 1) = before[i]
  <2> TAKE i \in 1..Len(lines)
  <2>1. i \in Int /\ i + 1 \in Int /\ (i + 1) - 1 = i
    OBVIOUS
  <2>2. DataBefore(lines, i + 1) = before[(i + 1) - 1]
    BY <1>2, <2>1
  <2> QED BY <1>2, <2>1, <2>2
<1> QED BY <1>5, <1>6, <1>7

\* A line that selects a section is the last one above the next line.
LEMMA SectionOfNext ==
  ASSUME NEW lines, NEW k \in Nat \ {0}, NEW section
  PROVE  InSection(lines, k + 1, section) <=>
           IF IsSection(lines[k]) THEN lines[k].section = section ELSE InSection(lines, k, section)
<1> DEFINE above == {j \in 1..k - 1 : IsSection(lines[j])}
           upto == {j \in 1..(k + 1) - 1 : IsSection(lines[j])}
<1>1. CASE IsSection(lines[k])
  <2>1. k \in upto /\ \A j \in upto : k >= j
    BY <1>1
  <2>2. \A i \in upto : (\A j \in upto : i >= j) => i = k
    BY <2>1
  <2>3. Max(upto) = k
    <3> HIDE DEF upto
    <3> QED BY <2>1, <2>2 DEF Max
  <2>4. upto # {}
    BY <2>1
  <2> HIDE DEF upto
  <2>5. InSection(lines, k + 1, section) <=> lines[Max(upto)].section = section
    BY <2>4 DEF InSection, upto
  <2> QED BY <1>1, <2>3, <2>5
<1>2. CASE ~IsSection(lines[k])
  <2>1. upto = above
    BY <1>2
  <2> HIDE DEF upto, above
  <2>2. InSection(lines, k + 1, section) <=> upto # {} /\ lines[Max(upto)].section = section
    BY DEF InSection, upto
  <2>3. InSection(lines, k, section) <=> above # {} /\ lines[Max(above)].section = section
    BY DEF InSection, above
  <2> QED BY <1>2, <2>1, <2>2, <2>3
<1> QED BY <1>1, <1>2

LEMMA FirstSection ==
  ASSUME NEW lines, NEW section
  PROVE  ~InSection(lines, 1, section)
  BY DEF InSection

\* The marks of the first pass say where the data of each line are by the lines alone.
LEMMA MarksAreBefore ==
  ASSUME Typed, Chained
  PROVE  \A k \in 1..Len(source) :
           /\ starts[k].data = DataBefore(source, k)
           /\ starts[k].sec = "data" <=> InSection(source, k, "data")
<1> DEFINE Right(k) == /\ starts[k].data = DataBefore(source, k)
                       /\ starts[k].sec = "data" <=> InSection(source, k, "data")
           Some == {n \in Nat : n + 1 <= Len(source) => Right(n + 1)}
<1>1. Len(source) \in Nat /\ DOMAIN source = 1..Len(source)
  BY DEF Typed
<1>2. 0 \in Some
  <2>1. SUFFICES ASSUME 1 <= Len(source) PROVE Right(1)
    OBVIOUS
  <2>2. source # <<>>
    BY <2>1
  <2>3. starts[1] = [sec |-> "none", code |-> 0, data |-> 0]
    BY <2>2 DEF Chained
  <2>4. DataBefore(source, 1) = 0 /\ ~InSection(source, 1, "data")
    BY <1>1, DataAdds, FirstSection
  <2> QED BY <2>3, <2>4
<1>3. ASSUME NEW n \in Some PROVE n + 1 \in Some
  <2>1. SUFFICES ASSUME n + 2 <= Len(source) PROVE Right(n + 2)
    OBVIOUS
  <2> DEFINE k == n + 1
             m == n + 2
             line == source[k]
             mark == starts[k]
  <2>2. k \in 1..Len(source) /\ k < Len(source) /\ m = k + 1 /\ k \in Nat \ {0}
    BY <1>1, <2>1
  <2>3. Right(k)
    BY <1>1, <2>1
  <2> HIDE DEF k, m
  <2>4. starts[k + 1] = AfterLine(mark, line) /\ Accepted(mark.sec, line)
    BY <2>2 DEF Chained
  <2>5. InSection(source, k + 1, "data") <=>
          IF IsSection(line) THEN line.section = "data" ELSE InSection(source, k, "data")
    BY <2>2, SectionOfNext
  <2>6. DataBefore(source, k + 1) = DataBefore(source, k) + DataOn(source, k)
    BY <1>1, <2>2, DataAdds
  <2>7. k \in Data(source) <=> HasStmt(line) /\ InSection(source, k, "data")
    BY <2>2 DEF Data
  <2>8. DataOn(source, k) = DataLength(mark.sec, line)
    BY <2>3, <2>7 DEF DataOn, DataLength
  <2>9. /\ AfterLine(mark, line).data = mark.data + DataLength(mark.sec, line)
        /\ AfterLine(mark, line).sec = IF IsSection(line) THEN line.section ELSE mark.sec
    BY DEF AfterLine
  <2>10. Right(k + 1)
    BY <2>3, <2>4, <2>5, <2>6, <2>8, <2>9
  <2>11. Right(m)
    BY <2>2, <2>10
  <2> QED BY <2>11 DEF m
<1>4. Some = Nat
  <2> HIDE DEF Some
  <2>1. Some \in SUBSET Nat
    BY DEF Some
  <2> QED BY <1>2, <1>3, <2>1, Induction
<1>5. ASSUME NEW k \in 1..Len(source) PROVE Right(k)
  <2> DEFINE n == k - 1
  <2>1. n \in Nat /\ n + 1 = k /\ n + 1 <= Len(source)
    BY <1>1
  <2> HIDE DEF n
  <2>2. n \in Some
    <3> HIDE DEF Some
    <3> QED BY <1>4, <2>1
  <2> QED BY <2>1, <2>2
<1> QED BY <1>5

-----------------------------------------------------------------------------
\* What bytes the second pass has put where
Holds(bytes, place, part) ==
  place + Len(part) <= Len(bytes) /\ \A n \in 1..Len(part) : bytes[place + n] = part[n]

\* The data of the lines before pos are in the buffer, each at its mark.
Emitted ==
  \A k \in Data(source) : k < pos => Holds(data, starts[k].data, DataBytes(source[k].stmt))

DataInv ==
  /\ phase \in {"two", "shaped"} => Emitted
  /\ phase = "shaped" => pos \in Nat /\ pos > Len(source) /\ file = Packed
  /\ DataInImage

LEMMA DataLineTypes ==
  ASSUME Typed, Chained, NEW k \in Data(source)
  PROVE  /\ k \in 1..Len(source) /\ HasStmt(source[k]) /\ starts[k].sec = "data"
         /\ starts[k].data \in Nat /\ starts[k].data = DataBefore(source, k)
         /\ DataBytes(source[k].stmt) \in Seq(Int)
<1>1. k \in 1..Len(source) /\ HasStmt(source[k]) /\ InSection(source, k, "data")
  BY DEF Data
<1>2. starts[k].sec = "data" /\ starts[k].data = DataBefore(source, k)
  BY <1>1, MarksAreBefore
<1>3. starts[k] \in Mark /\ source[k] \in Lines /\ Accepted(starts[k].sec, source[k])
  BY <1>1 DEF Typed, Chained
<1>4. WellFormed(source[k].stmt)
  BY <1>1, <1>3, LineTypes
<1>5. source[k].stmt.op \in DataOps
  BY <1>1, <1>2, <1>3 DEF Accepted
<1>6. DataBytes(source[k].stmt) \in Seq(Int)
  BY <1>4, <1>5, DataBytesLength
<1> QED BY <1>1, <1>2, <1>3, <1>6 DEF Mark

LEMMA HoldsMore ==
  ASSUME NEW s \in Seq(Int), NEW t \in Seq(Int), NEW part \in Seq(Int), NEW place \in Nat,
         Holds(s, place, part)
  PROVE  Holds(s \o t, place, part)
<1> DEFINE u == s \o t
<1>1. /\ Len(s) \in Nat /\ Len(t) \in Nat /\ Len(u) = Len(s) + Len(t)
      /\ \A i \in 1..Len(s) : u[i] = s[i]
  OBVIOUS
<1> HIDE DEF u
<1>a. Len(part) \in Nat
  OBVIOUS
<1>b. place + Len(part) <= Len(s) /\ \A n \in 1..Len(part) : s[place + n] = part[n]
  BY Zenon DEF Holds
<1>2. /\ Len(part) \in Nat /\ place + Len(part) <= Len(s)
      /\ \A n \in 1..Len(part) : s[place + n] = part[n]
  BY <1>a, <1>b
<1>3. ASSUME NEW n \in 1..Len(part) PROVE u[place + n] = part[n]
  <2>1. place + n \in 1..Len(s)
    BY <1>1, <1>2
  <2> QED BY <1>1, <1>2, <2>1
<1>4. place + Len(part) <= Len(u)
  BY <1>1, <1>2
<1> QED BY <1>3, <1>4 DEF Holds, u

LEMMA HoldsNew ==
  ASSUME NEW s \in Seq(Int), NEW part \in Seq(Int)
  PROVE  Holds(s \o part, Len(s), part)
  BY DEF Holds

\* A step of the second pass that is not the last
LEMMA PassTwoEmits ==
  ASSUME Inv, DataInv, PassTwo
  PROVE  phase' \in {"two", "shaped"} => Emitted'
<1>1. /\ phase = "two" /\ pos <= Len(source) /\ Typed /\ Chained /\ Followed /\ Emitted
      /\ UNCHANGED <<source, codeSize, dataSize, labels, file, starts>>
  BY DEF Inv, DataInv, PassTwo
<1>2. SUFFICES ASSUME phase' \in {"two", "shaped"} PROVE Emitted'
  OBVIOUS
<1>3. Len(source) \in Nat /\ pos \in 1..Len(source) /\ data \in Seq(Int) /\ pos \in Nat
  BY <1>1 DEF Typed, Followed
<1>4. ASSUME NEW k \in Data(source), k < pos
      PROVE  Holds(data, starts[k].data, DataBytes(source[k].stmt))
  BY <1>1, <1>4 DEF Emitted
<1>5. starts[pos] = [sec |-> sec, code |-> Len(code), data |-> Len(data)]
  BY <1>1 DEF Followed
<1>6. CASE EmitData
  <2>1. phase' = "two" /\ data' = data \o DataBytes(Line.stmt) /\ pos' = pos + 1
    <3>1. phase' # "overflow"
      BY <1>2
    <3> QED BY <1>1, <1>6, <3>1 DEF EmitData
  <2>2. ASSUME NEW k \in Data(source), k < pos + 1
        PROVE  Holds(data', starts[k].data, DataBytes(source[k].stmt))
    <3>1. /\ k \in 1..Len(source) /\ starts[k].data \in Nat
          /\ DataBytes(source[k].stmt) \in Seq(Int)
      BY <1>1, DataLineTypes
    <3>2. CASE k < pos
      <4>1. Holds(data, starts[k].data, DataBytes(source[k].stmt))
        BY <1>4, <3>2
      <4>2. DataBytes(Line.stmt) \in Seq(Int)
        <5>1. WellFormed(Line.stmt) /\ Line.stmt.op \in DataOps
          <6>1. Accepted(sec, Line) /\ (HasStmt(Line) => WellFormed(Line.stmt))
            BY <1>1, AtLine
          <6> QED BY <1>6, <6>1 DEF EmitData, Emits, Accepted
        <5> QED BY <5>1, DataBytesLength
      <4> QED BY <1>3, <2>1, <3>1, <4>1, <4>2, HoldsMore
    <3>3. CASE ~(k < pos)
      <4>1. k = pos
        BY <1>3, <2>2, <3>1, <3>3
      <4>2. starts[k].data = Len(data)
        BY <1>5, <4>1
      <4> QED BY <1>3, <2>1, <3>1, <4>1, <4>2, HoldsNew DEF Line
    <3> QED BY <3>2, <3>3
  <2> QED BY <1>1, <2>1, <2>2 DEF Emitted
<1>7. CASE ~EmitData
  <2>1. data' = data /\ pos' = pos + 1
    BY <1>1, <1>2, <1>7 DEF PassTwo, EmitCode, EmitNothing, RefuseOperand, Refuse
  <2>2. pos \notin Data(source)
    <3>1. SUFFICES ASSUME pos \in Data(source) PROVE FALSE
      OBVIOUS
    <3>2. HasStmt(Line) /\ sec = "data"
      BY <1>1, <1>5, <3>1, DataLineTypes DEF Line
    <3> QED BY <1>1, <1>2, <1>7, <3>2 DEF PassTwo, EmitCode, EmitNothing, RefuseOperand, Refuse, Emits
  <2>3. ASSUME NEW k \in Data(source), k < pos + 1
        PROVE  Holds(data, starts[k].data, DataBytes(source[k].stmt))
    <3>1. k # pos /\ k \in 1..Len(source)
      BY <1>1, <2>2, DataLineTypes
    <3>2. k < pos
      BY <1>3, <2>3, <3>1
    <3> QED BY <1>4, <3>2
  <2> QED BY <1>1, <2>1, <2>3 DEF Emitted
<1> QED BY <1>6, <1>7

\* Behind the code in the file are the data, and in the image as well.
LEMMA PackedData ==
  ASSUME NEW c \in Seq(Int), NEW d \in Seq(Int), NEW m \in 1..Len(d)
  PROVE  (c \o [n \in 1..Len(c) - Len(c) |-> 0] \o d)[Len(c) + m] = d[m]
<1>1. 1..Len(c) - Len(c) = {}
  OBVIOUS
<1>2. [n \in 1..Len(c) - Len(c) |-> 0] = <<>>
  BY <1>1
<1>3. c \o <<>> = c
  OBVIOUS
<1>4. (c \o d)[Len(c) + m] = d[m]
  OBVIOUS
<1> QED BY <1>2, <1>3, <1>4

LEMMA LoadedData ==
  ASSUME Inv, DataInv, phase = "shaped", NEW m \in 1..Len(data)
  PROVE  Loaded[codeSize + m] = data[m]
<1>1. /\ code \in Seq(Int) /\ data \in Seq(Int) /\ file = Packed
      /\ Len(code) = codeSize /\ Len(data) = dataSize
      /\ codeSize \in Nat /\ dataSize \in Nat
  BY DEF Inv, DataInv, Typed
<1>2. file.codeSize = codeSize /\ file.dataSize = dataSize
      /\ file.body = code \o [n \in 1..codeSize - Len(code) |-> 0] \o data
  BY <1>1 DEF Packed
<1>3. file.body[codeSize + m] = data[m]
  <2>1. file.body = code \o [n \in 1..Len(code) - Len(code) |-> 0] \o data
    BY <1>1, <1>2
  <2>2. (code \o [n \in 1..Len(code) - Len(code) |-> 0] \o data)[Len(code) + m] = data[m]
    BY <1>1, PackedData
  <2> QED BY <1>1, <2>1, <2>2
<1> DEFINE n == codeSize + m
           offset == DataOffset + n - 1 - file.codeSize
<1>4. n \in 1..ImageSize /\ ~(n <= file.codeSize)
  BY <1>1, <1>2 DEF ImageSize
<1>5. Loaded[n] = FileByte(offset)
  BY <1>4 DEF Loaded
<1>6. offset - HeaderSize + 1 = n
  BY <1>1, <1>2 DEF DataOffset, HeaderSize
<1>7. FileByte(offset) = file.body[n]
  <2> HIDE DEF n, offset
  <2> QED BY <1>6 DEF FileByte
<1> QED BY <1>3, <1>5, <1>7

LEMMA SpawnLoads ==
  ASSUME Inv, DataInv, Spawn
  PROVE  DataInImage'
<1>1. phase = "shaped" /\ Typed /\ Chained /\ Emitted /\ pos > Len(source) /\ file = Packed
  BY DEF Inv, DataInv, Spawn
<1>2. SUFFICES ASSUME Started' PROVE DataInImage'
  BY DEF DataInImage
<1>3. image' = Loaded /\ UNCHANGED <<source, file>>
  BY <1>2 DEF Spawn, Started
<1>4. file.codeSize = codeSize /\ codeSize \in Nat
  BY <1>1 DEF Packed, Typed
<1>5. Len(source) \in Nat /\ Len(data) \in Nat
  BY <1>1 DEF Typed
<1>6. ASSUME NEW k \in Data(source), NEW n \in 1..Len(DataBytes(source[k].stmt))
      PROVE  Loaded[codeSize + DataBefore(source, k) + n] = DataBytes(source[k].stmt)[n]
  <2> DEFINE bytes == DataBytes(source[k].stmt)
             at == starts[k].data
             m == at + n
  <2>1. /\ k \in 1..Len(source) /\ at \in Nat /\ at = DataBefore(source, k) /\ bytes \in Seq(Int)
    BY <1>1, DataLineTypes
  <2>2. Holds(data, at, bytes)
    <3>1. k < pos
      <4>1. pos \in Int
        BY <1>1 DEF DataInv
      <4> QED BY <1>1, <1>5, <2>1, <4>1
    <3> QED BY <1>1, <3>1 DEF Emitted
  <2> HIDE DEF bytes, at
  <2>3. n \in 1..Len(bytes) /\ Len(bytes) \in Nat
    BY <2>1 DEF bytes
  <2>4. at + Len(bytes) <= Len(data) /\ \A i \in 1..Len(bytes) : data[at + i] = bytes[i]
    BY <2>2, Zenon DEF Holds
  <2>5. m \in 1..Len(data) /\ data[m] = bytes[n]
    BY <1>5, <2>1, <2>3, <2>4
  <2> HIDE DEF m
  <2>6. Loaded[codeSize + m] = data[m]
    BY <1>1, <2>5, LoadedData
  <2>7. codeSize + m = codeSize + DataBefore(source, k) + n
    BY <1>4, <2>1, <2>3 DEF m
  <2> QED BY <2>5, <2>6, <2>7 DEF bytes
<1> QED BY <1>3, <1>4, <1>6 DEF DataInImage

LEMMA DataStep ==
  ASSUME Inv, DataInv, [Next]_vars
  PROVE  DataInv'
<1>1. CASE PassOne
  <2>1. phase' \in {"one", "refused"}
    BY <1>1 DEF PassOne, ReadSection, ReadStatement, RefuseLine, Refuse
  <2> QED BY <2>1 DEF DataInv, DataInImage, Started
<1>2. CASE PassOneEnds
  <2>1. phase' = "refused" \/ (phase' = "two" /\ pos' = 1 /\ UNCHANGED source)
    BY <1>2 DEF PassOneEnds, Refuse
  <2>2. \A k \in Data(source) : ~(k < 1)
    <3>1. Len(source) \in Nat
      BY <1>2 DEF PassOneEnds, Inv, Typed
    <3> QED BY <3>1 DEF Data
  <2> QED BY <2>1, <2>2 DEF DataInv, DataInImage, Started, Emitted
<1>3. CASE PassTwo
  <2>1. phase' \in {"two", "overflow", "refused"}
    BY <1>3 DEF PassTwo, EmitCode, EmitData, EmitNothing, RefuseOperand, Refuse
  <2>2. phase' \in {"two", "shaped"} => Emitted'
    BY <1>3, PassTwoEmits
  <2> QED BY <2>1, <2>2 DEF DataInv, DataInImage, Started
<1>4. CASE Pack
  <2>1. /\ Emitted /\ pos > Len(source)
        /\ UNCHANGED <<source, pos, sec, codeSize, dataSize, labels, code, data, starts>>
    BY <1>4 DEF DataInv, Pack
  <2>4. pos \in Nat
    BY <1>4 DEF Inv, Pack, Followed, Typed
  <2>2. phase' = "refused" \/ (phase' = "shaped" /\ file' = Packed)
    BY <1>4 DEF Pack, Refuse
  <2>3. Emitted' /\ (pos > Len(source))' /\ Packed' = Packed
    BY <2>1 DEF Emitted, Packed
  <2> QED BY <2>1, <2>2, <2>3, <2>4 DEF DataInv, DataInImage, Started
<1>5. CASE Spawn
  <2>1. phase' \in {"running", "not_spawned"}
    BY <1>5 DEF Spawn
  <2> QED BY <1>5, <2>1, SpawnLoads DEF DataInv
<1>6. CASE Execute
  <2>1. phase = "running" /\ UNCHANGED <<source, file, image>>
    BY <1>6 DEF Execute
  <2>2. phase' \in {"running", "astray", "ended"}
    <3>1. CASE Instruction
      BY <2>1, <3>1 DEF Instruction, Return, CallHost, Access, Writes, Drop, Continues, Stops, Astray
    <3> QED BY <1>6, <3>1 DEF Execute, Stops, Astray
  <2> QED BY <2>1, <2>2 DEF DataInv, DataInImage, Started
<1>7. CASE UNCHANGED vars
  BY <1>7 DEF vars, asmVars, DataInv, DataInImage, Started, Emitted, Packed
<1> QED BY <1>1, <1>2, <1>3, <1>4, <1>5, <1>6, <1>7 DEF Next, AsmNext

\* The image of every golem that is spawned holds all the data of its source, each byte
\* where the lines before it put it: also where the source goes from one section to
\* another and back (shape.c, the two passes; glm_spawn, which puts code and data
\* into one image).
THEOREM DataAreInImage == Spec => []DataInImage
<1>1. Init => DataInv
  BY DEF Init, AsmInit, DataInv, DataInImage, Started
<1>2. Inv /\ DataInv /\ [Next]_vars => DataInv'
  BY DataStep
<1>3. DataInv => DataInImage
  BY DEF DataInv
<1> QED BY <1>1, <1>2, <1>3, InvHolds, PTL DEF Spec

=============================================================================
