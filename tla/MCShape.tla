------------------------------- MODULE MCShape -------------------------------
EXTENDS Golem

Simple(op) == [op |-> op]
Text == [op |-> "asciz", text |-> <<65>>]
Number(v) == [op |-> "dd", imm |-> v]

Plain(stmt) == [label |-> NoLabel, stmt |-> stmt]
Named(name, stmt) == [label |-> name, stmt |-> stmt]
Dot(section) == [section |-> section]

\* Every statement, with the labels "f" and "m"
AllStmts ==
  { Simple(op) : op \in {"ret", "nop", "push_a", "pop_a", "yield", "hear", "loadapi", "loadbase",
                      "show", "exit", "garbled", "unknown"} }
  \cup { [op |-> op, to |-> "m"] : op \in {"say", "load", "store", "lea"} }
  \cup { [op |-> op, to |-> "f"] : op \in {"call", "jmp"} }
  \cup { [op |-> "jcc", cond |-> \h84, to |-> "f"], [op |-> "push", imm |-> -2],
         [op |-> "mov_reg", reg |-> 3, src |-> 0], [op |-> "mov", reg |-> 2, imm |-> 300],
         [op |-> "add", reg |-> 3, imm |-> 1], [op |-> "sub", reg |-> 0, imm |-> 1],
         [op |-> "cmp", reg |-> 3, imm |-> 1], [op |-> "cmp_reg", reg |-> 0, src |-> 1],
         [op |-> "mul", imm |-> 2], [op |-> "div", imm |-> 2], [op |-> "div", imm |-> 0] }

Few == { Simple("show"), [op |-> "say", to |-> "m"], [op |-> "call", to |-> "f"] }

\* A line may be missing.
Skip == Plain(NoStmt)

MCMenu ==
  << { Dot("code"), Dot("data"), Named("entry", NoStmt) },
     { Named("entry", Simple("loadapi")), Named("entry", Simple("loadbase")),
       Named("entry", NoStmt), Named("m", Text) },
     { Plain(s) : s \in AllStmts } \cup { Dot("code"), Dot("data"), Skip },
     { Named("f", s) : s \in Few } \cup { Named("entry", Simple("ret")), Named("m", Text) },
     { Plain([op |-> "jcc", cond |-> \h84, to |-> "f"]), Plain(Simple("ret")),
       Dot("data"), Plain(Text) },
     { Dot("data"), Plain(Number(-2)) },
     { Named("m", Text), Named("m", NoStmt) },
     { Plain(Text), Dot("code") },
     { Plain(Simple("ret")) } >>
=============================================================================
