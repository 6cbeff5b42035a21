-------------------------------- MODULE Shape --------------------------------
(***************************************************************************)
(* The assembler of OS/src/kernel/shape.c: two passes over the same lines, *)
(* the first for the addresses of the labels, the second for the bytes.    *)
(*                                                                         *)
(* The source is not chosen beforehand: the first pass reads any next line.*)
(* Nothing yields in between, so that no other task changes the source.    *)
(***************************************************************************)
EXTENDS Source

CONSTANTS
  Menu,        \* the lines that the source may have in each place
  MaxLabels    \* SHAPE_MAX_LABELS

\* Operands are numbers, of whatever size; a text is one of characters.
WellFormed(stmt) ==
  /\ stmt.op \in ImmOps \cup {"dd"} => stmt.imm \in Int
  /\ stmt.op \in {"mov_reg", "cmp_reg"} => stmt.src \in Int
  /\ stmt.op \in {"mov_reg", "cmp_reg", "mov", "add", "sub", "cmp"} => stmt.reg \in Int
  /\ stmt.op = "jcc" => stmt.cond \in Int
  /\ stmt.op = "asciz" => stmt.text \in Seq(Int)

ASSUME MenuAssumption ==
  /\ Len(Menu) \in Nat
  /\ \A k \in 1..Len(Menu) : \A line \in Menu[k] : HasStmt(line) => WellFormed(line.stmt)

VARIABLES
  phase,       \* what shape_asm_to_glm is about to do, or has done
  source,      \* the lines read by the first pass
  pos,         \* the second pass is at this line
  sec, codeSize, dataSize,
  labels,      \* a function from names to [sec, off]
  code, data,  \* the bytes up to code_p and data_p
  file,        \* the golem file
  starts       \* of each line, the section and the two sizes before it (not in the code)

asmVars == <<phase, source, pos, sec, codeSize, dataSize, labels, code, data, file, starts>>

NoFile == [entry |-> 0, codeSize |-> 0, dataSize |-> 0, body |-> <<>>]

\* Definitions named Bug... are mistakes that the properties must notice, not part of
\* the model.

-----------------------------------------------------------------------------
\* The call of the host function that say makes is not counted.
BugSizeOf(op) ==
  CASE op \in OneByte -> 1
    [] op \in {"mov_reg", "cmp_reg"} -> 2
    [] op \in {"yield", "hear"} -> 3
    [] op \in {"loadapi", "loadbase"} -> 4
    [] op \in FiveBytes -> 5
    [] op \in SixBytes -> 6
    [] op = "show" -> 7
    [] op \in {"div", "say"} -> 8
    [] op = "exit" -> 9

\* code_size_of
SizeOf(op) ==
  CASE op \in OneByte -> 1
    [] op \in {"mov_reg", "cmp_reg"} -> 2
    [] op \in {"yield", "hear"} -> 3
    [] op \in {"loadapi", "loadbase"} -> 4
    [] op \in FiveBytes -> 5
    [] op \in SixBytes -> 6
    [] op = "show" -> 7
    [] op = "div" -> 8
    [] op = "exit" -> 9
    [] op = "say" -> 11

-----------------------------------------------------------------------------
\* The first pass.

\* A label stands behind the statement on its line.
BugLabelOffset(line) ==
  IF sec # "code" THEN dataSize
  ELSE IF HasStmt(line) /\ line.stmt.op \in CodeOps THEN codeSize + SizeOf(line.stmt.op)
  ELSE codeSize

LabelOffset(line) == IF sec = "code" THEN codeSize ELSE dataSize

\* A name is taken once, while there is room for it.
Labelled(line) ==
  labels' = IF HasLabel(line)
            THEN [name \in DOMAIN labels \cup {line.label} |->
                    IF name = line.label THEN [sec |-> sec, off |-> LabelOffset(line)]
                                         ELSE labels[name]]
            ELSE labels

BadLabel(line) ==
  HasLabel(line) /\ (line.label \in DOMAIN labels \/ Cardinality(DOMAIN labels) >= MaxLabels)

BadStmt(line) ==
  HasStmt(line) /\ CASE sec = "code" -> line.stmt.op \notin CodeOps
                     [] sec = "data" -> line.stmt.op \notin DataOps
                     [] OTHER -> TRUE

Refuse == phase' = "refused"

ReadSection(line) ==
  /\ IsSection(line)
  /\ sec' = line.section
  /\ UNCHANGED <<phase, codeSize, dataSize, labels>>

ReadStatement(line) ==
  /\ ~IsSection(line) /\ ~BadLabel(line) /\ ~BadStmt(line)
  /\ Labelled(line)
  /\ codeSize' = IF HasStmt(line) /\ sec = "code" THEN codeSize + SizeOf(line.stmt.op) ELSE codeSize
  /\ dataSize' = IF HasStmt(line) /\ sec = "data" THEN dataSize + DataLen(line.stmt) ELSE dataSize
  /\ UNCHANGED <<phase, sec>>

RefuseLine(line) ==
  /\ ~IsSection(line) /\ (BadLabel(line) \/ BadStmt(line))
  /\ Refuse
  /\ UNCHANGED <<sec, codeSize, dataSize, labels>>

PassOne ==
  /\ phase = "one"
  /\ Len(source) < Len(Menu)
  /\ \E line \in Menu[Len(source) + 1] :
       /\ source' = Append(source, line)
       /\ starts' = Append(starts, [sec |-> sec, code |-> codeSize, data |-> dataSize])
       /\ ReadSection(line) \/ ReadStatement(line) \/ RefuseLine(line)
  /\ UNCHANGED <<pos, code, data, file>>

HasEntry == Entry \in DOMAIN labels /\ labels[Entry].sec = "code"

\* The end of the file, and the two buffers, which kmalloc may refuse
PassOneEnds ==
  /\ phase = "one"
  /\ \/ HasEntry /\ phase' = "two" /\ pos' = 1 /\ sec' = "none"
     \/ Refuse /\ UNCHANGED <<pos, sec>>
  /\ UNCHANGED <<source, codeSize, dataSize, labels, code, data, file, starts>>

-----------------------------------------------------------------------------
\* The second pass.

\* emit_u32_le
Imm32(v) == << v % 256, (v \div 256) % 256, (v \div 65536) % 256, (v \div 16777216) % 256 >>

\* emit_modrm with mod 3
ModRM(reg, rm) == 192 + 8 * reg + rm

\* The offset in the image: the data follow the code.
ImageOff(name) == codeSize + labels[name].off

\* Displacements count from the end of the instruction.
Disp(stmt, at) == labels[stmt.to].off - (at + SizeOf(stmt.op))

\* Whether a statement is accepted that the first pass has given a size to
Resolved(stmt) ==
  /\ stmt.op # "garbled"
  /\ stmt.op \in DataLabelOps => stmt.to \in DOMAIN labels /\ labels[stmt.to].sec = "data"
  /\ stmt.op \in CodeLabelOps => stmt.to \in DOMAIN labels /\ labels[stmt.to].sec = "code"
  /\ stmt.op = "div" => stmt.imm # 0

\* What the branches of the second pass emit at the offset at: the bytes of the
\* instruction, of some a doubleword, and of two what stands behind it
Opcode(stmt) ==
  CASE stmt.op = "ret"      -> <<\hC3>>
    [] stmt.op = "nop"      -> <<\h90>>
    [] stmt.op = "yield"    -> <<\hFF, \h56, \h08>>
    [] stmt.op = "loadapi"  -> <<\h8B, \h74, \h24, \h04>>
    [] stmt.op = "loadbase" -> <<\h8B, \h5C, \h24, \h08>>
    [] stmt.op = "exit"     -> <<\h6A, \h00, \hFF, \h56, \h10, \h83, \hC4, \h04, \hC3>>
    [] stmt.op = "hear"     -> <<\hFF, \h56, \h14>>
    [] stmt.op = "show"     -> <<\h50, \hFF, \h56, \h18, \h83, \hC4, \h04>>
    [] stmt.op = "push_a"   -> <<\h50>>
    [] stmt.op = "pop_a"    -> <<\h58>>
    [] stmt.op \in {"push", "say"} -> <<\h68>>
    [] stmt.op = "load"     -> <<\h8B, \h83>>
    [] stmt.op = "store"    -> <<\h89, \h83>>
    [] stmt.op = "lea"      -> <<\h8D, \h83>>
    [] stmt.op = "mov_reg"  -> <<\h89, ModRM(stmt.src, stmt.reg)>>
    [] stmt.op = "mov"      -> <<\hB8 + stmt.reg>>
    [] stmt.op = "add"      -> <<\h81, ModRM(0, stmt.reg)>>
    [] stmt.op = "sub"      -> <<\h81, ModRM(5, stmt.reg)>>
    [] stmt.op = "cmp"      -> <<\h81, ModRM(7, stmt.reg)>>
    [] stmt.op = "cmp_reg"  -> <<\h39, ModRM(stmt.src, stmt.reg)>>
    [] stmt.op = "mul"      -> <<\h69, \hC0>>
    [] stmt.op = "div"      -> <<\h99, \hB9>>
    [] stmt.op = "call"     -> <<\hE8>>
    [] stmt.op = "jmp"      -> <<\hE9>>
    [] stmt.op = "jcc"      -> <<\h0F, stmt.cond>>

Immediate(stmt, at) ==
  CASE stmt.op \in DataLabelOps -> ImageOff(stmt.to)
    [] stmt.op \in CodeLabelOps -> Disp(stmt, at)
    [] OTHER -> stmt.imm

Rest(op) ==
  CASE op = "say" -> <<\hFF, \h56, \h0C, \h83, \hC4, \h04>>
    [] op = "div" -> <<\hF7, \hF9>>
    [] OTHER -> <<>>

Encoded(stmt, at) ==
  IF stmt.op \in DataLabelOps \cup CodeLabelOps \cup ImmOps
  THEN (Opcode(stmt) \o Imm32(Immediate(stmt, at))) \o Rest(stmt.op)
  ELSE Opcode(stmt)

DataBytes(stmt) == IF stmt.op = "dd" THEN Imm32(stmt.imm) ELSE Append(stmt.text, 0)

Line == source[pos]
Emits(section) == HasStmt(Line) /\ sec = section

EmitCode ==
  /\ Emits("code") /\ Resolved(Line.stmt)
  /\ LET bytes == Encoded(Line.stmt, Len(code))
     IN  IF Len(code) + Len(bytes) <= codeSize
         THEN code' = code \o bytes /\ pos' = pos + 1 /\ UNCHANGED phase
         ELSE phase' = "overflow" /\ UNCHANGED <<code, pos>>
  /\ UNCHANGED <<sec, data>>

EmitData ==
  /\ Emits("data")
  /\ LET bytes == DataBytes(Line.stmt)
     IN  IF Len(data) + Len(bytes) <= dataSize
         THEN data' = data \o bytes /\ pos' = pos + 1 /\ UNCHANGED phase
         ELSE phase' = "overflow" /\ UNCHANGED <<data, pos>>
  /\ UNCHANGED <<sec, code>>

EmitNothing ==
  /\ ~HasStmt(Line)
  /\ sec' = IF IsSection(Line) THEN Line.section ELSE sec
  /\ pos' = pos + 1
  /\ UNCHANGED <<phase, code, data>>

RefuseOperand ==
  /\ Emits("code") /\ ~Resolved(Line.stmt)
  /\ Refuse
  /\ UNCHANGED <<pos, sec, code, data>>

PassTwo ==
  /\ phase = "two"
  /\ pos <= Len(source)
  /\ EmitCode \/ EmitData \/ EmitNothing \/ RefuseOperand
  /\ UNCHANGED <<source, codeSize, dataSize, labels, file, starts>>

\* The header keeps the sizes that were counted, and the buffers are copied whole: what
\* was not emitted is left over from an earlier use of the heap.
Packed ==
  [entry |-> labels[Entry].off, codeSize |-> codeSize, dataSize |-> dataSize,
   body |-> code \o [n \in 1..codeSize - Len(code) |-> \h00] \o data]

\* kmalloc, the length of the name and the file system may each refuse the golem.
Pack ==
  /\ phase = "two"
  /\ pos > Len(source)
  /\ \/ file' = Packed /\ phase' = "shaped"
     \/ Refuse /\ UNCHANGED file
  /\ UNCHANGED <<source, pos, sec, codeSize, dataSize, labels, code, data, starts>>

AsmInit ==
  /\ phase = "one"
  /\ source = <<>> /\ pos = 0
  /\ sec = "none" /\ codeSize = 0 /\ dataSize = 0
  /\ labels = [name \in {} |-> [sec |-> "none", off |-> 0]]
  /\ code = <<>> /\ data = <<>>
  /\ file = NoFile
  /\ starts = <<>>

AsmNext == PassOne \/ PassOneEnds \/ PassTwo \/ Pack

-----------------------------------------------------------------------------
\* The section and the two offsets that the first pass had come to before a line are
\* those that the second pass has emitted before it, whatever the statements are: so
\* each label stands where the branches go, the buffers are filled exactly, and a source
\* that the first pass accepted never ends with "Assembler emit overflow".
AddressesAgree ==
  /\ phase # "overflow"
  /\ phase = "two" /\ pos <= Len(source) =>
       starts[pos] = [sec |-> sec, code |-> Len(code), data |-> Len(data)]
  /\ phase = "shaped" => Len(code) = codeSize /\ Len(data) = dataSize

=============================================================================
