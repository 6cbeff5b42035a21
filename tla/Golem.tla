-------------------------------- MODULE Golem --------------------------------
(***************************************************************************)
(* From a source to a running golem: the assembler of Shape, glm_spawn and *)
(* glm_task_main of OS/src/kernel/glm.c, and the processor on the bytes of *)
(* the image.                                                              *)
(*                                                                         *)
(* The processor knows the instructions that Shape emits, by their codes.  *)
(* It keeps what those need to find their way: where the instruction and   *)
(* the stack are, and whether esi and ebx hold the API and the image base. *)
(* Once it leaves the code the model ends: the data would be executed.     *)
(***************************************************************************)
EXTENDS Shape

CONSTANT MaxStack   \* bound on the depth of the stack

VARIABLES
  image,   \* the bytes that were loaded
  cpu      \* [ip, stack, api, base, seen]

vars == <<asmVars, image, cpu>>

ApiSlot(disp) ==
  CASE disp = \h08 -> "yield" [] disp = \h0C -> "print_off" [] disp = \h10 -> "exit"
    [] disp = \h14 -> "getch" [] disp = \h18 -> "print_num"

Cell(kind, v) == [kind |-> kind, v |-> v]
HeaderSize == 36
CodeOffset == HeaderSize
DataOffset == HeaderSize + file.codeSize

\* The byte at an offset of the file
FileByte(offset) == file.body[offset - HeaderSize + 1]

-----------------------------------------------------------------------------
\* glm_spawn

ImageSize == file.codeSize + file.dataSize

\* glm_validate, for headers that Shape has written
Valid == file.entry < ImageSize

\* The data are taken from where the code starts.
BugLoaded ==
  [n \in 1..ImageSize |->
     IF n <= file.codeSize THEN FileByte(CodeOffset + n - 1) ELSE FileByte(CodeOffset)]

Loaded ==
  [n \in 1..ImageSize |->
     IF n <= file.codeSize THEN FileByte(CodeOffset + n - 1)
                           ELSE FileByte(DataOffset + n - 1 - file.codeSize)]

\* The golem is in the table, and glm_task_main calls its entry.
Spawn ==
  /\ phase = "shaped"
  /\ \/ /\ Valid
        /\ phase' = "running"
        /\ image' = Loaded
        /\ cpu' = [ip |-> file.entry, api |-> FALSE, base |-> FALSE, seen |-> <<"nothing", 0>>,
                   stack |-> <<Cell("task", 0), Cell("api", 0), Cell("base", 0)>>]
     \/ phase' = "not_spawned" /\ UNCHANGED <<image, cpu>>     \* refused, or no memory or slot
  /\ UNCHANGED <<source, pos, sec, codeSize, dataSize, labels, code, data, file, starts>>

-----------------------------------------------------------------------------
\* The processor.

Byte(n) == IF cpu.ip + n < ImageSize THEN image[cpu.ip + n + 1] ELSE 0

\* A doubleword as a number with a sign
Word(n) ==
  LET high == Byte(n + 3)
  IN  Byte(n) + 256 * Byte(n + 1) + 65536 * Byte(n + 2)
        + 16777216 * (IF high < 128 THEN high ELSE high - 256)

Is(bytes) == \A n \in 1..Len(bytes) : Byte(n - 1) = bytes[n]

Push(cell) == <<cell>> \o cpu.stack
Moves(length) == [cpu EXCEPT !.ip = cpu.ip + length]
Pushes(length, cell) == [Moves(length) EXCEPT !.stack = Push(cell)]
Drops(length) == [Moves(length) EXCEPT !.stack = Tail(cpu.stack)]
Continues(state) == cpu' = state /\ UNCHANGED phase

Stops(how) == phase' = how /\ UNCHANGED cpu
Astray == Stops("astray")

\* add esp, 4 and pop eax
Drop(length) == IF cpu.stack = <<>> THEN Astray ELSE Continues(Drops(length))

\* mov esi, [esp + 4] and mov ebx, [esp + 8]
StackHolds(n, kind) == Len(cpu.stack) >= n /\ cpu.stack[n].kind = kind

Return ==
  IF cpu.stack # <<>> /\ Head(cpu.stack).kind = "return"
  THEN Continues([cpu EXCEPT !.ip = Head(cpu.stack).v, !.stack = Tail(cpu.stack)])
  ELSE IF cpu.stack # <<>> /\ Head(cpu.stack).kind = "task" THEN Stops("ended") ELSE Astray

\* call [esi + disp]: the function finds its argument on the stack.
CallHost ==
  LET call == ApiSlot(Byte(2))
      arg  == IF call = "print_off" THEN Head(cpu.stack).v ELSE 0
  IN  IF ~cpu.api THEN Astray
      ELSE IF call = "exit" THEN Stops("ended")
      ELSE Continues([Moves(3) EXCEPT !.seen = <<call, arg>>])

\* [ebx + disp]
Access(how) ==
  IF cpu.base THEN Continues([Moves(6) EXCEPT !.seen = <<how, Word(2)>>]) ELSE Astray

Writes(length, reg) == Continues([Moves(length) EXCEPT !.base = cpu.base /\ reg # 3])

Instruction ==
  \/ Is(<<\hC3>>) /\ Return
  \/ Is(<<\h90>>) /\ Continues(Moves(1))
  \/ Is(<<\hFF, \h56>>) /\ CallHost
  \/ Is(<<\h8B, \h74, \h24, \h04>>) /\ Continues([Moves(4) EXCEPT !.api = StackHolds(2, "api")])
  \/ Is(<<\h8B, \h5C, \h24, \h08>>) /\ Continues([Moves(4) EXCEPT !.base = StackHolds(3, "base")])
  \/ Is(<<\h50>>) /\ Continues(Pushes(1, Cell("value", 0)))
  \/ Is(<<\h58>>) /\ Drop(1)
  \/ Is(<<\h68>>) /\ Continues(Pushes(5, Cell("value", Word(1))))
  \/ Is(<<\h6A>>) /\ Continues(Pushes(2, Cell("value", Byte(1))))
  \/ Is(<<\h83, \hC4, \h04>>) /\ Drop(3)
  \/ Is(<<\h8B, \h83>>) /\ Access("load")
  \/ Is(<<\h89, \h83>>) /\ Access("store")
  \/ Is(<<\h8D, \h83>>) /\ Access("lea")
  \/ Byte(0) = \h89 /\ Byte(1) >= 192 /\ Writes(2, Byte(1) % 8)
  \/ Byte(0) \in \hB8..\hBB /\ Writes(5, Byte(0) - \hB8)
  \/ Is(<<\h81>>) /\ Byte(1) >= \hF8 /\ Continues(Moves(6))
  \/ Is(<<\h81>>) /\ Byte(1) < \hF8 /\ Writes(6, Byte(1) % 8)
  \/ Is(<<\h39>>) /\ Continues(Moves(2))
  \/ Is(<<\h69, \hC0>>) /\ Continues(Moves(6))
  \/ Is(<<\h99>>) /\ Continues(Moves(1))
  \/ Is(<<\hF7, \hF9>>) /\ Continues(Moves(2))
  \/ Is(<<\hE8>>) /\ Continues([Pushes(5, Cell("return", cpu.ip + 5)) EXCEPT !.ip = cpu.ip + 5 + Word(1)])
  \/ Is(<<\hE9>>) /\ Continues(Moves(5 + Word(1)))
  \/ Is(<<\h0F>>) /\ \E taken \in BOOLEAN : Continues(Moves(6 + (IF taken THEN Word(2) ELSE 0)))

Execute ==
  /\ phase = "running"
  /\ Len(cpu.stack) < MaxStack
  /\ IF cpu.ip \in 0..file.codeSize - 1 THEN Instruction ELSE Astray
  /\ UNCHANGED <<source, pos, sec, codeSize, dataSize, labels, code, data, file, starts, image>>

Init ==
  /\ AsmInit
  /\ image = <<>>
  /\ cpu = [ip |-> 0, api |-> FALSE, base |-> FALSE, seen |-> <<"nothing", 0>>, stack |-> <<>>]

Next == (AsmNext /\ UNCHANGED <<image, cpu>>) \/ Spawn \/ Execute

Spec == Init /\ [][Next]_vars

-----------------------------------------------------------------------------
\* The running golem does what the source means.  The bytes that the processor is at
\* are those of a statement, and say and show are done once they have called the host.

Started == phase \in {"running", "ended", "astray"}

\* The statement whose bytes hold an offset
LineOf(offset) ==
  LET holding == {k \in Statements(source) :
                    offset \in starts[k].code..starts[k].code + SizeOf(source[k].stmt.op) - 1}
  IN  IF holding = {} THEN LostLine ELSE Min(holding)

\* A branch to the middle of a statement is none of the source's.
Target(offset) == IF LineOf(offset) # LostLine /\ starts[LineOf(offset)].code = offset
                  THEN LineOf(offset) ELSE LostLine

SourceCell(cell) ==
  CASE cell.kind = "return" -> Cell("return", Target(cell.v))
    [] cell.kind = "task" -> Cell("return", 0)
    [] OTHER -> Cell(cell.kind, 0)

SourceSeen ==
  IF cpu.seen[1] \in {"print_off", "load", "store", "lea"}
  THEN <<cpu.seen[1], cpu.seen[2] - file.codeSize>> ELSE cpu.seen

Outside(line) ==
  [line |-> line, stack |-> <<>>, api |-> FALSE, base |-> FALSE, seen |-> <<"nothing", 0>>]

SourceRun ==
  LET k      == LineOf(cpu.ip)
      op     == source[k].stmt.op
      into   == cpu.ip - starts[k].code
      called == into >= (CASE op = "say" -> 8 [] op = "show" -> 4 [] OTHER -> 11)
      pushed == op \in {"say", "show", "exit"} /\ into > 0
      line   == IF called THEN From(source, k + 1) ELSE k
      cells  == IF pushed THEN Tail(cpu.stack) ELSE cpu.stack
  IN  IF k = LostLine \/ line = LostLine THEN Outside(LostLine)
      ELSE [line |-> line, api |-> cpu.api, base |-> cpu.base, seen |-> SourceSeen,
            stack |-> [n \in 1..Len(cells) |-> SourceCell(cells[n])]]

P == INSTANCE Program WITH
  prog <- IF Started THEN source ELSE <<>>,
  run  <- CASE phase = "ended" -> [Outside(0) EXCEPT !.seen = <<"exit", 0>>]
            [] phase = "astray" -> Outside(LostLine)
            [] phase = "running" -> SourceRun
            [] OTHER -> Outside(0)

\* Every run of a golem is a run of its source (src/Shape/Documentation.txt): the
\* branches, returns and calls that the processor finds in the bytes lead to the
\* statements, and the offsets to the data, that the labels stand before.
ImplementsProgram == P!Spec

\* Behind the code in the image are the data of the source, each where the lines before
\* it put it, whichever sections they are spread over.
DataInImage ==
  Started =>
    \A k \in Data(source) :
      LET place == file.codeSize + DataBefore(source, k)
          bytes == DataBytes(source[k].stmt)
      IN  \A n \in 1..Len(bytes) : image[place + n] = bytes[n]

-----------------------------------------------------------------------------
\* glm.c: "entry must be somewhere in loaded image", where Documentation.txt says "Code
\* must contain an entry label (entry:) within .code": nothing asks for a statement
\* behind it.
EntryIsCode == phase = "running" => file.entry < file.codeSize

=============================================================================
