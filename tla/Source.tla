------------------------------- MODULE Source -------------------------------
(***************************************************************************)
(* The lines that OS/src/kernel/shape.c reads: what next_line returns,     *)
(* without its comment; empty lines are left out.                          *)
(*                                                                         *)
(* A line selects a section ([section]), or consists of a label and a      *)
(* statement of which one may be missing ([label, stmt]).  A statement is  *)
(* the record of its operation and operands.  "garbled" stands for an      *)
(* operand that only the second pass looks at and refuses; an operation    *)
(* that is in none of the sets below is one that no pass accepts.          *)
(***************************************************************************)
EXTENDS Integers, SequencesExt

NoLabel == ""
Entry == "entry"
NoStmt == [op |-> "none"]

IsSection(line) == "section" \in DOMAIN line
HasLabel(line) == ~IsSection(line) /\ line.label # NoLabel
HasStmt(line) == ~IsSection(line) /\ line.stmt # NoStmt

DataOps == {"asciz", "dd"}
OneByte == {"ret", "nop", "push_a", "pop_a"}
FiveBytes == {"push", "call", "jmp", "mov", "garbled"}
SixBytes == {"load", "store", "lea", "add", "sub", "cmp", "mul", "jcc"}
CodeOps ==
  OneByte \cup FiveBytes \cup SixBytes
    \cup {"mov_reg", "cmp_reg", "yield", "hear", "loadapi", "loadbase", "show", "div", "exit", "say"}

DataLabelOps == {"say", "load", "store", "lea"}
CodeLabelOps == {"call", "jmp", "jcc"}
ImmOps == {"push", "mov", "add", "sub", "cmp", "mul", "div"}

\* The bytes of a directive, of which parse_string_literal and parse_imm give the length
DataLen(stmt) == IF stmt.op = "dd" THEN 4 ELSE Len(stmt.text) + 1

-----------------------------------------------------------------------------
\* The places of a source, by its lines alone.

InSection(lines, k, section) ==
  LET above == {j \in 1..k - 1 : IsSection(lines[j])}
  IN  above # {} /\ lines[Max(above)].section = section

Statements(lines) == {k \in 1..Len(lines) : HasStmt(lines[k]) /\ InSection(lines, k, "code")}
Data(lines) == {k \in 1..Len(lines) : HasStmt(lines[k]) /\ InSection(lines, k, "data")}

LostLine == -1

\* The first statement of a line or behind it, if there is one
From(lines, k) ==
  LET behind == {j \in Statements(lines) : j >= k} IN IF behind = {} THEN LostLine ELSE Min(behind)

LabelLine(lines, name) == CHOOSE k \in 1..Len(lines) : HasLabel(lines[k]) /\ lines[k].label = name

\* How many bytes of data come before a line
DataBefore(lines, k) ==
  LET before[n \in 0..Len(lines)] ==
        IF n = 0 THEN 0
        ELSE before[n - 1] + (IF n \in Data(lines) THEN DataLen(lines[n].stmt) ELSE 0)
  IN  before[k - 1]

=============================================================================
