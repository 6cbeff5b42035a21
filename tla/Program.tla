------------------------------- MODULE Program -------------------------------
(***************************************************************************)
(* What a source of src/Shape/Documentation.txt means when it is run: its  *)
(* statements one after the other, branches to the statement behind their  *)
(* label, data by the place of their label.  There are no addresses.       *)
(*                                                                         *)
(* The values of registers and memory are left out, so that a condition    *)
(* may hold or not.  A run is Lost where the documentation gives a program *)
(* no meaning: no statement follows, a return takes something else from    *)
(* the stack, the API pointer or the image base is not loaded.             *)
(***************************************************************************)
EXTENDS Source

VARIABLES
  prog,   \* the lines
  run     \* [line, stack, api, base, seen]

vars == <<prog, run>>

Nowhere == 0
Outside(line) ==
  [line |-> line, stack |-> <<>>, api |-> FALSE, base |-> FALSE, seen |-> <<"nothing", 0>>]
NotStarted == Outside(Nowhere)
Lost == Outside(LostLine)

\* How a run ends is the last that is seen of it.
Ended == [Outside(Nowhere) EXCEPT !.seen = <<"exit", 0>>]

-----------------------------------------------------------------------------
Return(line) == [kind |-> "return", v |-> line]
Value(v) == [kind |-> "value", v |-> v]
Api == [kind |-> "api", v |-> 0]
Base == [kind |-> "base", v |-> 0]

\* glm_task_main calls the entry with the API and the image; it is on no line.
FirstStack == <<Return(Nowhere), Api, Base>>

At(r, line) == IF line = LostLine THEN Lost ELSE [r EXCEPT !.line = line]
Pushed(r, cell) == [r EXCEPT !.stack = <<cell>> \o r.stack]
Popped(r) == [r EXCEPT !.stack = Tail(r.stack)]
Holds(r, n, cell) == Len(r.stack) >= n /\ r.stack[n] = cell

\* The states in which a statement may leave a run
After(lines, r) ==
  LET s       == lines[r.line].stmt
      next(q) == At(q, From(lines, r.line + 1))
      target  == From(lines, LabelLine(lines, s.to))
      place   == DataBefore(lines, LabelLine(lines, s.to))
      host(call, arg) == IF r.api THEN next([r EXCEPT !.seen = <<call, arg>>]) ELSE Lost
  IN  CASE s.op = "jmp"  -> {At(r, target)}
        [] s.op = "jcc"  -> {At(r, target), next(r)}
        [] s.op = "call" -> {At(Pushed(r, Return(From(lines, r.line + 1))), target)}
        [] s.op = "ret"  ->
             IF r.stack = <<>> \/ Head(r.stack).kind # "return" THEN {Lost}
             ELSE IF Head(r.stack).v = Nowhere THEN {Ended}
             ELSE {At(Popped(r), Head(r.stack).v)}
        [] s.op \in {"push", "push_a"} -> {next(Pushed(r, Value(0)))}
        [] s.op = "pop_a" -> IF r.stack = <<>> THEN {Lost} ELSE {next(Popped(r))}
        [] s.op = "loadapi"  -> {next([r EXCEPT !.api = Holds(r, 2, Api)])}
        [] s.op = "loadbase" -> {next([r EXCEPT !.base = Holds(r, 3, Base)])}
        [] s.op = "say"   -> {host("print_off", place)}
        [] s.op = "show"  -> {host("print_num", 0)}
        [] s.op = "yield" -> {host("yield", 0)}
        [] s.op = "hear"  -> {host("getch", 0)}
        [] s.op = "exit"  -> IF r.api THEN {Ended} ELSE {Lost}
        [] s.op \in {"load", "store", "lea"} ->
             IF r.base THEN {next([r EXCEPT !.seen = <<s.op, place>>])} ELSE {Lost}
        [] s.op \in {"mov", "mov_reg", "add", "sub"} ->
             {next([r EXCEPT !.base = r.base /\ s.reg # 3])}
        [] OTHER -> {next(r)}

Start ==
  /\ run = NotStarted /\ prog = <<>>
  /\ run' = At([Outside(0) EXCEPT !.stack = FirstStack], From(prog', LabelLine(prog', Entry)))

Step ==
  /\ run.line > Nowhere
  /\ run' \in After(prog, run)
  /\ UNCHANGED prog

Init == prog = <<>> /\ run = NotStarted
Next == Start \/ Step
Spec == Init /\ [][Next]_vars

=============================================================================
