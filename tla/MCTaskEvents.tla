---------------------------- MODULE MCTaskEvents ----------------------------
(***************************************************************************)
(* Instances of TaskEvents for TLC.  p1 is the leader of the attached      *)
(* process; p2 and p3 are its threads, or pids that a clone or a fork uses *)
(* later.                                                                  *)
(***************************************************************************)
EXTENDS TaskEvents, TLC

CONSTANTS p1, p2, p3

PidSet3 == {p1, p2, p3}

\* One process, or two: p1 with its thread p2, and p3.
OneGroup == [p \in PidSet3 |-> p1]
TwoGroups == [p \in PidSet3 |-> IF p = p3 THEN p3 ELSE p1]

Case(attached, tgid, follow, ops) ==
  [attached |-> attached, tgid |-> tgid, follow |-> follow, follow_exec |-> follow, ops |-> ops]

\* Three threads of one process.
ThreeThreads ==
  {Case(<<p1, p2, p3>>, OneGroup, TRUE, {"trap", "swbp", "signal", "exit", "reply"})}

\* Two processes that the client commands, or that the tracer leaves.
Leaving == Case(<<p1, p2, p3>>, TwoGroups, TRUE,
                {"trap", "swbp", "signal", "exit", "command", "disconnect", "quit"})

\* A process that creates threads and processes, followed.
Spawning == Case(<<p1>>, OneGroup, TRUE,
                 {"trap", "clone", "fork", "signal", "exit", "leader_exit", "reply"})

\* A process whose children and new programs are let go.
Unfollowed == Case(<<p1>>, OneGroup, FALSE,
                   {"trap", "swbp", "fork", "exec", "signal", "exit", "reply", "command"})

ManyProcesses == {Leaving, Spawning, Unfollowed}

\* One of two processes executes a new program.
Executing == {Case(<<p1, p2, p3>>, TwoGroups, TRUE,
                   {"trap", "exec", "signal", "exit", "exit_group", "leader_exit", "reply",
                    "command"})}

\* A breakpoint in a process that creates a thread.
Cloning == {Case(<<p1>>, OneGroup, TRUE, {"trap", "swbp", "clone"})}
=============================================================================
