--------------------------- MODULE MCBreakpoints ----------------------------
(***************************************************************************)
(* Instances of Breakpoints for TLC: t1 is the leader of the attached      *)
(* process, t2 its thread, c1 the leader of a child.  Function f2 is in a  *)
(* library that comes and goes.                                            *)
(***************************************************************************)
EXTENDS Breakpoints

CONSTANTS t1, t2, c1, f1, f2

TwoTasks == {t1, t2}
Leaders2 == {t1, c1}
OneThread == {t2}
Funcs2 == {f1, f2}
Lib2 == [f \in Funcs2 |-> IF f = f2 THEN "plugin" ELSE "main"]

\* Both tasks of the process attached, its leader alone, and a leader whose
\* children and new programs are let go.
Scenario(ops) ==
  [ops |-> ops, nohwbp |-> FALSE, follow |-> TRUE, follow_exec |-> TRUE, alone |-> FALSE]
Alone(ops) == [Scenario(ops) EXCEPT !.alone = TRUE]
NotFollowed(ops) == [Alone(ops) EXCEPT !.follow = FALSE, !.follow_exec = FALSE]

\* What the program, the kernel and the client do in the behaviours checked.
Everyday ==
  {Scenario({"call", "signal"}), Scenario({"call", "dl"}), Scenario({"call", "client"}),
   [Scenario({"call", "client", "dl"}) EXCEPT !.nohwbp = TRUE],
   Alone({"call", "dl", "client", "signal"}),
   Alone({"call", "clone", "exit", "client"}),
   Alone({"call", "clone", "exit", "exec", "dl"}),
   Alone({"call", "fork", "dl"}), Alone({"call", "fork", "exec", "exit"}),
   Alone({"call", "client", "commands", "detach"}), Alone({"call", "fork", "detach"}),
   Alone({"call", "throw", "client", "dl"}), Scenario({"call", "throw"}),
   NotFollowed({"call", "fork", "exec", "commands"})}
=============================================================================
