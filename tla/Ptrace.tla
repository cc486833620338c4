------------------------------- MODULE Ptrace -------------------------------
(***************************************************************************)
(* The part of the Linux kernel that mtrace-ng talks to through ptrace(2), *)
(* waitpid(2) and tgkill(2), as far as the tracer's decisions depend on    *)
(* it.  The kernel is not part of the repository: this module is external  *)
(* and records what sysdeps/linux-gnu/trace.c relies on.                   *)
(*                                                                         *)
(* A kernel task is a record of                                            *)
(*   st      where the task is: "absent" (the pid is unused), "newborn"    *)
(*           (created by a traced clone/fork and auto-attached, its first  *)
(*           SIGSTOP still pending), "running", "stepping" (resumed by     *)
(*           PTRACE_SINGLESTEP), "execing" (inside exec, waiting until the *)
(*           other threads of the group were reaped; only a SIGKILL ends   *)
(*           that wait), "stopped" (a ptrace stop), "zombie", "gone"       *)
(*           (reaped, or detached from the tracer)                         *)
(*   status  the wait status waitpid would return, "none" when there is    *)
(*           none or it was already collected                              *)
(*   child   the pid PTRACE_GETEVENTMSG returns for a clone/fork stop      *)
(*   sigstop a SIGSTOP is pending                                          *)
(*   dying   a SIGKILL was sent (kill, or exit_group of another thread)    *)
(*   exiting the task is in, or past, its PTRACE_EVENT_EXIT stop           *)
(*   tgid    the thread group, which /proc/<pid>/status shows              *)
(*                                                                         *)
(* Assumption: PTRACE_O_TRACEEXIT makes every dying task stop once with    *)
(* PTRACE_EVENT_EXIT before it becomes a zombie, except a task that is     *)
(* killed while it is already in that stop.                                *)
(***************************************************************************)
EXTENDS Naturals, FiniteSets

CONSTANTS Pids,   \* the kernel task ids
          NoPid   \* "no task": pid 0 / a NULL pointer

ASSUME PidsAssumption == IsFiniteSet(Pids) /\ NoPid \notin Pids

KState == {"absent", "newborn", "running", "stepping", "execing",
           "stopped", "zombie", "gone"}

Status == {"none", "sigstop", "signal", "trap", "clone", "fork", "exec",
           "event_exit", "exited"}

KTask == [st : KState, status : Status, child : Pids \cup {NoPid},
          sigstop : BOOLEAN, dying : BOOLEAN, exiting : BOOLEAN,
          tgid : Pids \cup {NoPid}]

NoKTask == [st |-> "absent", status |-> "none", child |-> NoPid, sigstop |-> FALSE,
            dying |-> FALSE, exiting |-> FALSE, tgid |-> NoPid]

\* A task that exists, traced, and is neither dead nor detached.
Live(k) == k.st \in {"newborn", "running", "stepping", "execing", "stopped"}

Group(K, p) == {q \in Pids : K[q].tgid = K[p].tgid /\ K[q].st # "absent"}

-----------------------------------------------------------------------------
(* What a system call of the tracer does to the kernel state K.            *)

\* waitpid(-1) may return p: a zombie group leader is only reported when
\* every other thread of its group has been reaped.
WaitReady(K, p) ==
  /\ K[p].status # "none"
  /\ (K[p].st = "zombie" /\ K[p].tgid = p) =>
        \A q \in Group(K, p) \ {p} : K[q].st = "gone"

\* waitpid returned p's status.
Reap(K, p) ==
  [K EXCEPT ![p].status = "none",
            ![p].st = IF @ = "zombie" THEN "gone" ELSE @]

\* PTRACE_CONT or PTRACE_SINGLESTEP succeed only on a stopped task; a task
\* in its exit stop goes on to die.  A status not yet collected is lost.
Resume(K, p, how) ==
  IF K[p].st # "stopped" THEN K
  ELSE IF K[p].exiting THEN [K EXCEPT ![p].st = "zombie", ![p].status = "exited"]
  ELSE [K EXCEPT ![p].st = how, ![p].status = "none"]

\* tgkill(p, SIGSTOP) for every p in P.
SendStop(K, P) ==
  [p \in Pids |-> IF p \in P /\ Live(K[p]) THEN [K[p] EXCEPT !.sigstop = TRUE] ELSE K[p]]

\* PTRACE_DETACH of a stopped task: it is no longer reported.
Detach(K, p) ==
  IF K[p].st = "stopped" THEN [K EXCEPT ![p].st = "gone", ![p].status = "none"] ELSE K

-----------------------------------------------------------------------------
(* What a tracee does by itself.                                           *)

\* p enters a ptrace stop that waitpid reports as s.
EnterStop(K, p, s) == [K EXCEPT ![p].st = "stopped", ![p].status = s]

\* SIGKILL reaches k: a ptrace stop is left, an exit stop is final.
KillOne(k) ==
  CASE ~Live(k)                       -> k
    [] k.st = "stopped" /\ k.exiting  -> [k EXCEPT !.st = "zombie", !.status = "exited"]
    [] OTHER                          -> [k EXCEPT !.st = "running", !.status = "none",
                                                   !.dying = TRUE]

KillAll(K, P) == [p \in Pids |-> IF p \in P THEN KillOne(K[p]) ELSE K[p]]

\* p is about to die: the PTRACE_EVENT_EXIT stop.
EnterExit(K, p) ==
  [K EXCEPT ![p].st = "stopped", ![p].status = "event_exit", ![p].exiting = TRUE]

\* p created c, as a thread of its own group (clone) or as a process (fork).
Spawn(K, p, c, how) ==
  [K EXCEPT ![p].st = "stopped", ![p].status = how, ![p].child = c,
            ![c] = [NoKTask EXCEPT !.st = "newborn", !.sigstop = TRUE,
                                   !.tgid = IF how = "clone" THEN K[p].tgid ELSE c]]
=============================================================================
