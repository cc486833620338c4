--------------------------- MODULE TaskQueueProofs ---------------------------
(***************************************************************************)
(* The asserts of the tracer and its queue of events, for every set of     *)
(* pids, where the traced program creates no tasks and the client stays    *)
(* connected (Settled): AssertsHold and QueueSound.  Breakpoints, single   *)
(* steps, signals, scans, execs, exits, kills and the end of the tracing   *)
(* may come in any order, to any number of threads and processes.          *)
(*                                                                         *)
(* Settled is needed.  With a clone (the run VClone), a fork or the end of *)
(* the connection, TLC finds a queued task that was continued, and then    *)
(* the failing assert at the head of handle_event.                         *)
(*                                                                         *)
(* Why the asserts hold is a matter of deaths.  The tracer may only step,  *)
(* continue or destroy a task that is stopped, but a SIGKILL ends a stop   *)
(* without asking it: Deaths says that a death the tracer was not told of  *)
(* yet was ordered by the leader of the group, which is then dying itself  *)
(* or in an exec, and that a task in its exit stop is not stepped.  Sense  *)
(* relates an event to the kernel task it came from, Execs says that a     *)
(* task that reported an exec is the last of its group, and Handled that   *)
(* a task that is being handled is not queued.                             *)
(***************************************************************************)
EXTENDS TaskStopsProofs

\* The traced program creates no tasks and the client stays connected.
Settled == Ops \cap {"clone", "fork", "disconnect"} = {}

\* The events of a task that ends.
Exits == {"ABOUT_EXIT", "EXIT"}

\* k has ended.
Dead(k) == k.st \in {"zombie", "gone"}

\* k is on its way out, or gone.
Doomed(k) == k.dying \/ k.exiting \/ Dead(k)

\* What the kernel says about one task.
Passage(k, p) ==
  /\ k.status \notin Births
  /\ k.st = "execing" \/ k.status = "exec" => k.tgid = p
  /\ k.status = "event_exit" => k.exiting
  /\ k.exiting => k.st = "stopped" \/ Dead(k)
  /\ k.status \in {"sigstop", "signal", "trap", "exec"} => ~k.exiting

\* What an event says about its task.
Meant(t, k, p) ==
  /\ t.defer = NoPid /\ t.event # "CHILD"
  /\ t.event = "NEW" => t.is_new
  /\ t.event = "EXIT" => k.st = "gone"
  /\ t.event = "ABOUT_EXIT" /\ t.stopped => k.exiting /\ k.st # "gone"
  /\ t.event = "EXEC" /\ t.known => k.tgid = p
  /\ t.known /\ ~t.stopped => t.event = "NONE"
  /\ t.known /\ t.is_new => IF t.stopped THEN t.event \in {"NEW"} \cup Exits ELSE Dead(k)
  /\ ~t.known => k.st \in {"absent", "zombie", "gone"} \/ k.dying

\* Statuses and events mean what the handlers take them for.
Sense == \A p \in Pids : Passage(kern[p], p) /\ Meant(task[p], kern[p], p)

\* The tracer, at c with the frame f, is about to continue, step or queue f.task.
Owns(c, f) == c \in {"handle", "step"} \/ (c = "stop" /\ f.cont \in {"disable", "enable"})

\* It is passing a breakpoint of f.task, of p (skip_breakpoint).
Skips(c, f) == c = "step" \/ (c = "stop" /\ f.cont \in {"disable", "enable"})
Skipped(c, f, p) == Skips(c, f) /\ f.task = p

\* It removes the tasks of process l.
Emptied(c, f, l) == c = "destroy" /\ f.leader = l

\* A task that is being handled is stopped, and neither queued nor waiting for an answer.
Handled ==
  /\ Owns(pc, frame) => frame.task \in Pids \ (Queued \cup replies) /\ task[frame.task].stopped
  /\ Skips(pc, frame) => ~task[frame.task].is_new

\* A task the client will answer for is in its exit stop, and not queued.
Answers == replies \cap Queued = {} /\ \A p \in replies : task[p].stopped /\ kern[p].exiting

\* What a caller of stop_threads waits for.
Loop ==
  pc = "stop" =>
    /\ frame.cont # "close"
    /\ frame.cont = "remove" =>
         task[frame.leader].known /\ task[frame.leader].leader = frame.leader

\* l is the last task of its group.
Alone(K, l) == \A q \in Pids \ {l} : K[q].tgid = l => K[q].st \in {"gone", "absent"}

\* A task t in its exit stop, or dead, was told of, or its group leader kl is
\* doomed too; skips: its breakpoint is being passed, d: its process is removed.
Wake(t, k, kl, skips, d) ==
  /\ t.known /\ t.stopped /\ k.exiting /\ ~k.dying => t.event \in Exits /\ ~skips
  /\ t.known /\ t.stopped /\ Dead(k) => Doomed(kl) \/ (t.event \in Exits /\ ~skips)
  /\ t.known /\ ~t.stopped /\ k.st = "gone" => Doomed(kl)
  /\ ~t.known /\ k.st # "gone" => Doomed(kl) \/ d

\* Whoever is killed is killed by an exec or an exit of its group.
Deaths ==
  \A p \in Pids : kern[p].st # "absent" =>
    LET l == kern[p].tgid
    IN /\ kern[p].dying /\ kern[p].st # "gone" =>
            l = p \/ Doomed(kern[l]) \/ kern[l].st = "execing"
       /\ ~Stepping(p) => Wake(task[p], kern[p], kern[l], Skipped(pc, frame, p), Emptied(pc, frame, l))

\* A stepped task does not run on.
StepState == pc = "step" => kern[frame.task].st # "running" \/ kern[frame.task].dying

\* A task with an exec to report or to handle waits, alone in its group.
Execs ==
  \A p \in Pids : (task[p].stopped /\ task[p].event = "EXEC") \/ kern[p].status = "exec" =>
    kern[p].st = "stopped" /\ ~kern[p].dying /\ ~kern[p].exiting /\ Alone(kern, p)

\* While a process is removed, its tasks are stopped; an exec left one of them.
Emptying ==
  pc = "destroy" =>
    /\ frame.leader \in Pids /\ task[frame.leader].stopped
    /\ task[frame.leader].leader = frame.leader
    /\ frame.todo = Members(frame.leader) \ {frame.leader}
    /\ \A q \in frame.todo : task[q].stopped
    /\ frame.cont = "exec" => /\ Alone(kern, frame.leader) /\ ~task[frame.leader].is_new
                              /\ frame.leader \notin Queued \cup replies

Sound ==
  /\ AssertsHold /\ QueueSound /\ Sense /\ Handled /\ Answers /\ Loop /\ Deaths /\ StepState
  /\ Execs /\ Emptying

\* The inductive invariant, with IInv and Halted of the modules it builds on.
QInv == Settled => Sound

-----------------------------------------------------------------------------
(* One task and its kernel task.                                           *)

\* The fields the asserts are about do not change.
SameEvent(t, t2) ==
  /\ t2.known = t.known /\ t2.stopped = t.stopped /\ t2.is_new = t.is_new
  /\ t2.event = t.event /\ t2.defer = t.defer

\* _process_event, where no task is created: the event e that a status s means.
Means(e, s, new) ==
  CASE s = "exited"          -> e = "EXIT"
    [] s = "event_exit"      -> e = "ABOUT_EXIT"
    [] s = "exec"            -> e = "EXEC"
    [] s = "sigstop" /\ new  -> e = "NEW"
    [] OTHER                 -> e \in {"BREAKPOINT", "SIGNAL"}

\* A SIGSTOP may be sent, no more.
Stays(t, k, t2, k2) == SameEvent(t, t2) /\ SameStop(k, k2)

\* continue_task
Continued(t, k, t2, k2) ==
  /\ t.known /\ t.stopped /\ RunsOn(k, k2, "running")
  /\ t2.known /\ ~t2.stopped /\ t2.event = "NONE" /\ t2.defer = t.defer
  /\ t2.is_new => t.is_new /\ k.exiting

\* task_destroy
Destroyed(t, k, t2, k2) ==
  /\ t.known /\ t.stopped /\ LetGo(k, k2)
  /\ ~t2.known /\ ~t2.stopped /\ ~t2.is_new /\ t2.event = "NONE" /\ t2.defer = NoPid

\* wait_event, an unknown pid
Noticed(t, k, t2, k2) ==
  /\ ~t.known /\ Collected(k, k2)
  /\ t2.known /\ t2.is_new /\ t2.defer = NoPid
  /\ IF k.status = "exited" THEN ~t2.stopped /\ t2.event = "NONE"
     ELSE t2.stopped /\ t2.event = "NEW"

\* wait_event, an unknown pid whose leader is unknown too
Dropped(t, k, t2, k2) == ~t.known /\ SameEvent(t, t2) /\ Collected(k, k2)

\* wait_event, a task that was killed while it was stopped
Overtaken(t, k, t2, k2) ==
  /\ t.known /\ t.stopped /\ Collected(k, k2) /\ k.status \in {"exited", "event_exit"}
  /\ t2.known /\ t2.stopped /\ t2.is_new = t.is_new /\ t2.defer = t.defer
  /\ t2.event = IF k.status = "exited" THEN "EXIT" ELSE "ABOUT_EXIT"

\* wait_event of a running task, or the end of a single step
Reported(t, k, t2, k2) ==
  /\ t.known /\ (t.stopped => ~t.is_new) /\ Collected(k, k2)
  /\ t2.known /\ t2.stopped /\ t2.is_new = t.is_new /\ t2.defer = t.defer
  /\ Means(t2.event, k.status, t.is_new)

\* handle_singlestep
Stepped(t, k, t2, k2) ==
  /\ t.known /\ t.stopped /\ ~t.is_new /\ RunsOn(k, k2, "stepping")
  /\ t2.known /\ t2.stopped /\ ~t2.is_new /\ t2.event = "NONE" /\ t2.defer = t.defer

\* The ways a step of the tracer changes a task and its kernel task.
Move(t, k, t2, k2) ==
  \/ Stays(t, k, t2, k2) \/ Continued(t, k, t2, k2) \/ Destroyed(t, k, t2, k2)
  \/ Noticed(t, k, t2, k2) \/ Dropped(t, k, t2, k2) \/ Overtaken(t, k, t2, k2)
  \/ Reported(t, k, t2, k2) \/ Stepped(t, k, t2, k2)

\* A system call of the tracer keeps the order of a task's life.
LEMMA MovePassage ==
  ASSUME NEW t, NEW k, NEW t2, NEW k2, NEW p, Move(t, k, t2, k2), Regular(k), Passage(k, p)
  PROVE  Passage(k2, p)
  BY DEF Move, Stays, Continued, Destroyed, Noticed, Dropped, Overtaken, Reported, Stepped,
         SameStop, Alike, RunsOn, Collected, LetGo, Regular, Passage, Dead, Births

\* What an event says of its task stays true under every step of the tracer.
LEMMA MoveMeant ==
  ASSUME NEW t, NEW k, NEW t2, NEW k2, NEW p, Move(t, k, t2, k2), Regular(k), Passage(k, p),
         t.known /\ t.stopped => Quiet(k) \/ ~Destroyed(t, k, t2, k2),
         Meant(t, k, p), t.stopped => t.known
  PROVE  Meant(t2, k2, p)
  <1>1. CASE Stays(t, k, t2, k2)
    BY <1>1 DEF Stays, SameEvent, SameStop, Alike, Meant, Dead
  <1>2. CASE Continued(t, k, t2, k2)
    BY <1>2 DEF Continued, RunsOn, Alike, Meant, Passage, Dead
  <1>3. CASE Destroyed(t, k, t2, k2)
    BY <1>3 DEF Destroyed, LetGo, Alike, Meant, Quiet, Regular
  <1>4. CASE Noticed(t, k, t2, k2)
    BY <1>4 DEF Noticed, Collected, Alike, Meant, Regular, Dead
  <1>5. CASE Dropped(t, k, t2, k2)
    BY <1>5 DEF Dropped, SameEvent, Collected, Alike, Meant, Regular, Dead
  <1>6. CASE Overtaken(t, k, t2, k2)
    BY <1>6 DEF Overtaken, Collected, Alike, Meant, Regular, Passage, Dead, Exits
  <1>7. CASE Reported(t, k, t2, k2)
    <2>1. k.status \notin Births /\ k.status # "none"
      BY <1>7 DEF Reported, Collected, Passage
    <2>2. t.is_new => Dead(k)
      BY <1>7 DEF Reported, Meant
    <2>3. t.is_new => k.status = "exited"
      BY <2>1, <2>2 DEF Dead, Regular
    <2>4. /\ k.status = "exited" => t2.event = "EXIT"
          /\ k.status = "event_exit" => t2.event = "ABOUT_EXIT"
          /\ k.status = "exec" => t2.event = "EXEC"
          /\ k.status \notin {"exited", "event_exit", "exec"} => t2.event \in {"BREAKPOINT", "SIGNAL"}
      BY <1>7, <2>3 DEF Reported, Means
    <2> QED BY <1>7, <2>1, <2>3, <2>4 DEF Reported, Collected, Alike, Meant, Regular, Passage, Dead, Exits
  <1>8. CASE Stepped(t, k, t2, k2)
    BY <1>8 DEF Stepped, RunsOn, Alike, Meant, Dead
  <1> QED BY <1>1, <1>2, <1>3, <1>4, <1>5, <1>6, <1>7, <1>8 DEF Move

-----------------------------------------------------------------------------
(* The tracees.                                                            *)

\* A signal or a breakpoint.
Halts(k, k2) ==
  /\ Alike(k, k2) /\ k2.exiting = k.exiting /\ ~k.dying
  /\ k.st \in {"newborn", "running", "stepping"} /\ k2.st = "stopped"
  /\ k2.status \in {"sigstop", "trap", "signal"}

\* PTRACE_EVENT_EXIT.
Leaves(k, k2) ==
  /\ Alike(k, k2) /\ k.st = "running"
  /\ k2.st = "stopped" /\ k2.status = "event_exit" /\ k2.exiting

\* exec begins, ...
Begins(k, k2) ==
  /\ Alike(k, k2) /\ k2.exiting = k.exiting
  /\ k.st = "running" /\ ~k.dying /\ k2.st = "execing" /\ k2.status = k.status

\* ... and reaches its stop.
Executes(k, k2) ==
  /\ Alike(k, k2) /\ k2.exiting = k.exiting
  /\ k.st = "execing" /\ k2.st = "stopped" /\ k2.status = "exec"

\* SIGKILL.
Killed(k, k2) ==
  /\ k2.tgid = k.tgid /\ k2.exiting = k.exiting
  /\ \/ ~Live(k) /\ SameStop(k, k2)
     \/ /\ k.st = "stopped" /\ k.exiting /\ k2.dying = k.dying
        /\ k2.st = "zombie" /\ k2.status = "exited"
     \/ /\ Live(k) /\ ~(k.st = "stopped" /\ k.exiting)
        /\ k2.st = "running" /\ k2.status = "none" /\ k2.dying

\* The ways a kernel task changes by itself.
Goes(k, k2, p) ==
  \/ SameStop(k, k2) \/ Halts(k, k2) \/ Leaves(k, k2) \/ Executes(k, k2) \/ Killed(k, k2)
  \/ Begins(k, k2) /\ k.tgid = p

\* What a tracee does by itself keeps the order of its life.
LEMMA GoesPassage ==
  ASSUME NEW k, NEW k2, NEW p, Goes(k, k2, p), Regular(k), Passage(k, p)
  PROVE  Passage(k2, p)
  BY DEF Goes, SameStop, Alike, Halts, Leaves, Begins, Executes, Killed, Live, Regular, Passage,
         Dead, Births

\* An event stays true of a task that goes on by itself.
LEMMA GoesMeant ==
  ASSUME NEW t, NEW k, NEW k2, NEW p, Goes(k, k2, p), Regular(k), Passage(k, p), Meant(t, k, p)
  PROVE  Meant(t, k2, p)
  <1>1. /\ k2.tgid = k.tgid /\ (k2.st = "gone" <=> k.st = "gone")
        /\ k.exiting => k2.exiting
        /\ k.dying => k2.dying
        /\ Dead(k) => Dead(k2)
        /\ k.st = "absent" => k2.st = "absent"
    BY DEF Goes, SameStop, Alike, Halts, Leaves, Begins, Executes, Killed, Live, Dead
  <1>2. k.st = "zombie" => k2.st = "zombie"
    BY DEF Goes, SameStop, Alike, Halts, Leaves, Begins, Executes, Killed, Live
  <1> QED BY <1>1, <1>2 DEF Meant

\* SIGKILL, task by task.
LEMMA KilledAt ==
  ASSUME NEW K, KernelFacts(K), NEW P, NEW q \in Pids
  PROVE  IF q \in P THEN Killed(K[q], KillAll(K, P)[q]) ELSE KillAll(K, P)[q] = K[q]
  <1>1. K[q] \in KTask
    BY DEF KernelFacts
  <1> DEFINE k == K[q]
             k2 == KillAll(K, P)[q]
  <1>2. CASE q \notin P
    BY <1>2 DEF KillAll
  <1>3. CASE q \in P
    <2>1. k2 = KillOne(k)
      BY <1>3 DEF KillAll
    <2>2. CASE ~Live(k)
      <3>1. k2 = k
        BY <2>1, <2>2 DEF KillOne, Live
      <3> QED BY <1>3, <2>2, <3>1 DEF Killed, SameStop, Alike
    <2>3. CASE Live(k) /\ k.st = "stopped" /\ k.exiting
      <3>1. k2 = [k EXCEPT !.st = "zombie", !.status = "exited"]
        BY <2>1, <2>3 DEF KillOne
      <3>2. /\ k2.st = "zombie" /\ k2.status = "exited" /\ k2.tgid = k.tgid
            /\ k2.exiting = k.exiting /\ k2.dying = k.dying
        BY <1>1, <3>1 DEF KTask
      <3> QED BY <1>3, <2>3, <3>2 DEF Killed
    <2>4. CASE Live(k) /\ ~(k.st = "stopped" /\ k.exiting)
      <3>1. k2 = [k EXCEPT !.st = "running", !.status = "none", !.dying = TRUE]
        BY <2>1, <2>4 DEF KillOne
      <3>2. /\ k2.st = "running" /\ k2.status = "none" /\ k2.dying = TRUE
            /\ k2.tgid = k.tgid /\ k2.exiting = k.exiting
        BY <1>1, <3>1 DEF KTask
      <3> QED BY <1>3, <2>4, <3>2 DEF Killed
    <2> QED BY <1>3, <2>2, <2>3, <2>4
  <1> QED BY <1>2, <1>3

\* Only p changes.
Only(p) == \A q \in Pids \ {p} : kern'[q] = kern[q]

\* The rest of the group of p.
OthersOf(p) == Group(kern, p) \ {p}

\* The group of p is killed, but for p.
Slain(p) ==
  \A q \in Pids \ {p} :
    IF q \in OthersOf(p) THEN Killed(kern[q], kern'[q]) ELSE kern'[q] = kern[q]

\* The steps of the tracees: who changes, and how.
LEMMA TraceeKinds ==
  ASSUME IInv, Halted, Settled, Tracees
  PROVE  /\ UNCHANGED Tracer
         /\ \E p \in Pids :
              \/ Only(p) /\ Halts(kern[p], kern'[p])
              \/ Only(p) /\ Executes(kern[p], kern'[p]) /\ \A q \in OthersOf(p) : kern[q].st = "gone"
              \/ Only(p) /\ Leaves(kern[p], kern'[p])
              \/ Slain(p) /\ Begins(kern[p], kern'[p]) /\ kern[p].tgid = p
              \/ Slain(p) /\ Leaves(kern[p], kern'[p]) /\ ~kern[p].dying /\ "exit_group" \in Ops
  <1>1. PICK p \in Pids :
          \/ TraceeSigstop(p) \/ TraceeTrap(p) \/ TraceeSignal(p) \/ TraceeExec(p)
          \/ TraceeExecStop(p) \/ TraceeExit(p) \/ TraceeExitGroup(p) \/ TraceeDie(p)
    BY DEF Tracees, TraceeSpawn, Settled
  <1>2. kern \in [Pids -> KTask] /\ kern[p] \in KTask /\ KernelFacts(kern)
    BY DEF IInv, KernelFacts
  <1>3. Regular(kern[p])
    BY DEF Halted, Balance
  <1>4. UNCHANGED Tracer
    BY <1>1 DEF TraceeSigstop, TraceeTrap, TraceeSignal, TraceeExec, TraceeExecStop, TraceeExit,
                TraceeExitGroup, TraceeDie
  <1>5. CASE TraceeSigstop(p)
    <2>1. kern' = [kern EXCEPT ![p] = [kern[p] EXCEPT !.st = "stopped", !.status = "sigstop",
                                                      !.sigstop = FALSE]]
      BY <1>2, <1>5 DEF TraceeSigstop, EnterStop
    <2>2. Only(p) /\ kern'[p] = [kern[p] EXCEPT !.st = "stopped", !.status = "sigstop", !.sigstop = FALSE]
      BY <1>2, <2>1 DEF Only
    <2>3. /\ kern'[p].st = "stopped" /\ kern'[p].status = "sigstop"
          /\ Alike(kern[p], kern'[p]) /\ kern'[p].exiting = kern[p].exiting
      BY <1>2, <2>2 DEF Alike, KTask
    <2>4. kern[p].st \in {"newborn", "running", "stepping"} /\ ~kern[p].dying
      BY <1>5 DEF TraceeSigstop
    <2>5. Halts(kern[p], kern'[p])
      BY <2>3, <2>4 DEF Halts
    <2> QED BY <1>4, <2>2, <2>5
  <1>6. CASE TraceeTrap(p) \/ TraceeSignal(p) \/ TraceeExecStop(p)
    <2>1. PICK s \in {"trap", "signal", "exec"} :
             /\ kern' = EnterStop(kern, p, s)
             /\ s = "exec" <=> TraceeExecStop(p)
      BY <1>6 DEF TraceeTrap, TraceeSignal, TraceeExecStop, Running
    <2>2. Only(p) /\ kern'[p] = [kern[p] EXCEPT !.st = "stopped", !.status = s]
      BY <1>2, <2>1 DEF EnterStop, Only
    <2>3. kern'[p].st = "stopped" /\ kern'[p].status = s /\ Alike(kern[p], kern'[p])
          /\ kern'[p].exiting = kern[p].exiting
      BY <1>2, <2>2 DEF Alike, KTask
    <2>4. CASE s = "exec"
      <3>1. kern[p].st = "execing" /\ \A q \in OthersOf(p) : kern[q].st = "gone"
        BY <2>1, <2>4 DEF TraceeExecStop, OthersOf
      <3> QED BY <1>4, <2>2, <2>3, <2>4, <3>1 DEF Executes
    <2>5. CASE s # "exec"
      <3>1. TraceeTrap(p) \/ TraceeSignal(p)
        BY <1>6, <2>1, <2>5
      <3>2. kern[p].st \in {"running", "stepping"} /\ ~kern[p].dying
        BY <1>3, <3>1 DEF TraceeTrap, TraceeSignal, Running, Regular
      <3>3. Halts(kern[p], kern'[p])
        BY <2>3, <2>5, <3>2 DEF Halts
      <3> QED BY <1>4, <2>2, <3>3
    <2> QED BY <2>4, <2>5
  <1>7. CASE TraceeExit(p) \/ TraceeDie(p)
    <2>1. kern' = EnterExit(kern, p) /\ kern[p].st = "running"
      BY <1>7 DEF TraceeExit, TraceeDie, Running
    <2>2. Only(p) /\ kern'[p] = [kern[p] EXCEPT !.st = "stopped", !.status = "event_exit", !.exiting = TRUE]
      BY <1>2, <2>1 DEF EnterExit, Only
    <2>3. Leaves(kern[p], kern'[p])
      BY <1>2, <2>1, <2>2 DEF Leaves, Alike, KTask
    <2> QED BY <1>4, <2>2, <2>3
  <1>8. CASE TraceeExec(p)
    <2> DEFINE K == KillAll(kern, OthersOf(p))
    <2>1. kern' = [K EXCEPT ![p].st = "execing"] /\ kern[p].st = "running" /\ ~kern[p].dying
          /\ kern[p].tgid = p
      BY <1>8 DEF TraceeExec, OthersOf, Running
    <2>2. DOMAIN K = Pids
      BY DEF KillAll
    <2>3. K[p] = kern[p]
      BY <1>2, KilledAt DEF OthersOf
    <2>4. \A q \in Pids : IF q \in OthersOf(p) THEN Killed(kern[q], K[q]) ELSE K[q] = kern[q]
      BY <1>2, KilledAt
    <2> HIDE DEF K
    <2>5. kern'[p] = [kern[p] EXCEPT !.st = "execing"] /\ \A q \in Pids \ {p} : kern'[q] = K[q]
      BY <2>1, <2>2, <2>3
    <2>6. Slain(p)
      BY <2>4, <2>5 DEF Slain
    <2>7. Begins(kern[p], kern'[p])
      BY <1>2, <2>1, <2>5 DEF Begins, Alike, KTask
    <2> QED BY <1>4, <2>1, <2>6, <2>7
  <1>9. CASE TraceeExitGroup(p)
    <2> DEFINE K == KillAll(kern, OthersOf(p))
    <2>1. kern' = EnterExit(K, p) /\ kern[p].st = "running" /\ ~kern[p].dying /\ "exit_group" \in Ops
      BY <1>9 DEF TraceeExitGroup, OthersOf, Running
    <2>2. DOMAIN K = Pids
      BY DEF KillAll
    <2>3. K[p] = kern[p]
      BY <1>2, KilledAt DEF OthersOf
    <2>4. \A q \in Pids : IF q \in OthersOf(p) THEN Killed(kern[q], K[q]) ELSE K[q] = kern[q]
      BY <1>2, KilledAt
    <2> HIDE DEF K
    <2>5. /\ kern'[p] = [kern[p] EXCEPT !.st = "stopped", !.status = "event_exit", !.exiting = TRUE]
          /\ \A q \in Pids \ {p} : kern'[q] = K[q]
      BY <2>1, <2>2, <2>3 DEF EnterExit
    <2>6. Slain(p)
      BY <2>4, <2>5 DEF Slain
    <2>7. Leaves(kern[p], kern'[p])
      BY <1>2, <2>1, <2>5 DEF Leaves, Alike, KTask
    <2> QED BY <1>4, <2>1, <2>6, <2>7
  <1> QED BY <1>1, <1>5, <1>6, <1>7, <1>8, <1>9

-----------------------------------------------------------------------------
(* The queue.                                                              *)

\* The tasks in a list of events, and that none is in it twice.
Listed(q) == {q[i] : i \in DOMAIN q}
Once(q) == \A i, j \in DOMAIN q : q[i] = q[j] => i = j

\* next_event takes the first task off the list.
LEMMA TailOnce ==
  ASSUME NEW q \in Seq(Pids), q # <<>>, Once(q)
  PROVE  /\ Once(Tail(q)) /\ Listed(Tail(q)) \subseteq Listed(q) /\ Head(q) \in Listed(q)
         /\ Head(q) \notin Listed(Tail(q))
  <1>1. Len(q) \in Nat \ {0} /\ DOMAIN q = 1..Len(q)
    OBVIOUS
  <1>2. /\ Tail(q) \in Seq(Pids) /\ Len(Tail(q)) = Len(q) - 1 /\ Head(q) = q[1]
        /\ DOMAIN Tail(q) = 1..(Len(q) - 1)
        /\ \A i \in 1..(Len(q) - 1) : Tail(q)[i] = q[i + 1]
    BY <1>1
  <1>3. \A i \in 1..(Len(q) - 1) : i + 1 \in DOMAIN q /\ i + 1 # 1
    BY <1>1
  <1>4. Once(Tail(q))
    <2> SUFFICES ASSUME NEW i \in 1..(Len(q) - 1), NEW j \in 1..(Len(q) - 1), Tail(q)[i] = Tail(q)[j]
                 PROVE  i = j
      BY <1>2 DEF Once
    <2>1. q[i + 1] = q[j + 1]
      BY <1>2
    <2>2. i + 1 = j + 1
      BY <1>3, <2>1 DEF Once
    <2> QED BY <1>1, <2>2
  <1>5. Listed(Tail(q)) \subseteq Listed(q) /\ Head(q) \in Listed(q)
    BY <1>1, <1>2, <1>3 DEF Listed
  <1>6. Head(q) \notin Listed(Tail(q))
    <2> SUFFICES ASSUME NEW i \in 1..(Len(q) - 1), Tail(q)[i] = q[1] PROVE FALSE
      BY <1>2 DEF Listed
    <2> QED BY <1>1, <1>2, <1>3 DEF Once
  <1> QED BY <1>4, <1>5, <1>6

\* queue_event puts a task at the end of the list.
LEMMA AppendOnce ==
  ASSUME NEW q \in Seq(Pids), NEW p \in Pids, Once(q), p \notin Listed(q)
  PROVE  Once(Append(q, p)) /\ Listed(Append(q, p)) = Listed(q) \cup {p}
  <1>1. Len(q) \in Nat /\ DOMAIN q = 1..Len(q)
    OBVIOUS
  <1>2. /\ DOMAIN Append(q, p) = 1..(Len(q) + 1) /\ Append(q, p)[Len(q) + 1] = p
        /\ \A i \in 1..Len(q) : Append(q, p)[i] = q[i]
    BY <1>1
  <1>3. \A i \in 1..(Len(q) + 1) : i \in 1..Len(q) \/ i = Len(q) + 1
    BY <1>1
  <1>4. 1..Len(q) \subseteq 1..(Len(q) + 1) /\ Len(q) + 1 \in 1..(Len(q) + 1)
    BY <1>1
  <1>5. \A i \in 1..Len(q) : q[i] # p
    BY <1>1 DEF Listed
  <1>6. Once(Append(q, p))
    <2> SUFFICES ASSUME NEW i \in 1..(Len(q) + 1), NEW j \in 1..(Len(q) + 1),
                        Append(q, p)[i] = Append(q, p)[j]
                 PROVE  i = j
      BY <1>2 DEF Once
    <2> QED BY <1>1, <1>2, <1>3, <1>5 DEF Once
  <1>7. Listed(Append(q, p)) = Listed(q) \cup {p}
    BY <1>1, <1>2, <1>3, <1>4 DEF Listed
  <1> QED BY <1>6, <1>7

\* remove_event takes a task out of the list and keeps the others.
LEMMA RemoveOnce ==
  ASSUME NEW q \in Seq(Pids), NEW p, Once(q)
  PROVE  Once(remove_event(q, p)) /\ Listed(remove_event(q, p)) \subseteq Listed(q) \ {p}
  <1>1. CASE ~\E i \in DOMAIN q : q[i] = p
    BY <1>1 DEF remove_event, Listed
  <1>2. CASE \E i \in DOMAIN q : q[i] = p
    <2>1. PICK n \in DOMAIN q : 
             q[n] = p /\ remove_event(q, p) = SubSeq(q, 1, n - 1) \o SubSeq(q, n + 1, Len(q))
      <3> DEFINE n == CHOOSE i \in DOMAIN q : q[i] = p
      <3>1. n \in DOMAIN q /\ q[n] = p
        BY <1>2
      <3>2. remove_event(q, p) = SubSeq(q, 1, n - 1) \o SubSeq(q, n + 1, Len(q))
        BY <1>2 DEF remove_event
      <3> QED BY <3>1, <3>2
    <2> DEFINE A == SubSeq(q, 1, n - 1)
               C == SubSeq(q, n + 1, Len(q))
               At(i) == IF i < n THEN i ELSE i + 1
    <2>2. Len(q) \in Nat /\ n \in 1..Len(q) /\ DOMAIN q = 1..Len(q) /\ \A i \in 1..Len(q) : q[i] \in Pids
      OBVIOUS
    <2>3. A \in Seq(Pids) /\ Len(A) = n - 1 /\ \A i \in 1..(n - 1) : A[i] = q[i]
      BY <2>2, SubSeqProperties
    <2>4. C \in Seq(Pids) /\ Len(C) = Len(q) - n /\ \A i \in 1..(Len(q) - n) : C[i] = q[n + i]
      BY <2>2, SubSeqProperties
    <2> HIDE DEF A, C
    <2>5. Len(A) + Len(C) = Len(q) - 1
      BY <2>2, <2>3, <2>4
    <2>6. /\ A \o C \in Seq(Pids) /\ Len(A \o C) = Len(A) + Len(C)
          /\ \A i \in 1..(Len(A) + Len(C)) : (A \o C)[i] = IF i <= Len(A) THEN A[i] ELSE C[i - Len(A)]
      BY <2>3, <2>4
    <2>7. DOMAIN (A \o C) = 1..(Len(q) - 1)
      BY <2>5, <2>6
    <2>8. \A i \in 1..(Len(q) - 1) : At(i) \in 1..Len(q) /\ At(i) # n
      BY <2>2
    <2>9. \A i, j \in 1..(Len(q) - 1) : At(i) = At(j) => i = j
      BY <2>2
    <2>10. ASSUME NEW i \in 1..(Len(q) - 1) PROVE (A \o C)[i] = q[At(i)]
      <3>1. (A \o C)[i] = IF i <= n - 1 THEN A[i] ELSE C[i - (n - 1)]
        BY <2>3, <2>5, <2>6
      <3>2. CASE i < n
        BY <2>2, <2>3, <3>1, <3>2
      <3>3. CASE ~(i < n)
        <4>1. i - (n - 1) \in 1..(Len(q) - n) /\ n + (i - (n - 1)) = i + 1
          BY <2>2, <3>3
        <4>2. (A \o C)[i] = C[i - (n - 1)]
          BY <2>2, <3>1, <3>3
        <4>3. C[i - (n - 1)] = q[n + (i - (n - 1))]
          BY <2>4, <4>1
        <4> QED BY <3>3, <4>1, <4>2, <4>3
      <3> QED BY <3>2, <3>3
    <2> HIDE DEF At
    <2>11. Once(A \o C)
      <3> SUFFICES ASSUME NEW i \in 1..(Len(q) - 1), NEW j \in 1..(Len(q) - 1), (A \o C)[i] = (A \o C)[j]
                   PROVE  i = j
        BY <2>7 DEF Once
      <3>1. q[At(i)] = q[At(j)]
        BY <2>10
      <3>2. At(i) = At(j)
        BY <2>2, <2>8, <3>1 DEF Once
      <3> QED BY <2>9, <3>2
    <2>12. Listed(A \o C) \subseteq Listed(q) \ {p}
      <3> SUFFICES ASSUME NEW i \in 1..(Len(q) - 1)
                   PROVE  (A \o C)[i] \in Listed(q) /\ (A \o C)[i] # p
        BY <2>7 DEF Listed
      <3>1. (A \o C)[i] = q[At(i)] /\ At(i) \in DOMAIN q /\ At(i) # n
        BY <2>2, <2>8, <2>10
      <3> QED BY <2>1, <3>1 DEF Listed, Once
    <2>13. remove_event(q, p) = A \o C
      BY <2>1 DEF A, C
    <2> QED BY <2>11, <2>12, <2>13
  <1> QED BY <1>1, <1>2

-----------------------------------------------------------------------------
(* Steps of the tracer.                                                    *)

\* What every step of the tracer leaves of a kernel task.
MoveResult(k, k2) ==
  /\ Doomed(k) => Doomed(k2)
  /\ k.st = "execing" => k2.st = "execing"
  /\ k2.tgid = k.tgid /\ k2.dying = k.dying /\ k2.exiting = k.exiting
  /\ k.st = "gone" => k2.st = "gone"
  /\ k2.st = "absent" <=> k.st = "absent"

\* Nobody comes back from the dead, and only the tracee itself leaves its exec.
LEMMA MoveDoomed ==
  ASSUME NEW t, NEW k, NEW t2, NEW k2, Move(t, k, t2, k2), Regular(k)
  PROVE  MoveResult(k, k2)
  BY DEF MoveResult, Move, Stays, Continued, Destroyed, Noticed, Dropped, Overtaken, Reported, Stepped,
         SameStop, Alike, RunsOn, Collected, LetGo, Regular, Doomed, Dead

\* What may go wrong with the deaths in a step: when the tracer forgets that it was told.
Careful(t, k, t2, k2, kl2, l, p, s, s2, d, d2) ==
  /\ Stepped(t, k, t2, k2) => Stays(t, k, t2, k2)
  /\ s2 => s \/ t.event \notin Exits
  /\ Reported(t, k, t2, k2) => Overtaken(t, k, t2, k2) \/ (~s2 /\ ~t.stopped)
  /\ Continued(t, k, t2, k2) /\ t.event = "EXIT" => s \/ l = p
  /\ Destroyed(t, k, t2, k2) => k.st = "gone" \/ d2 \/ l = p
  /\ d => d2 \/ t.known \/ k.st \in {"gone", "absent"} \/ Doomed(kl2)

\* A step of the tracer keeps the deaths of a group in order.
LEMMA WakeKept ==
  ASSUME NEW t, NEW k, NEW t2, NEW k2, NEW kl, NEW kl2, NEW l, NEW p,
         NEW s, NEW s2, NEW d, NEW d2,
         Move(t, k, t2, k2), Careful(t, k, t2, k2, kl2, l, p, s, s2, d, d2),
         Noticed(t, k, t2, k2) => ~d,
         k.status \in Status, k.st # "absent", Regular(k), Passage(k, p), Meant(t, k, p),
         t.known /\ t.stopped => Quiet(k), t.stopped => t.known,
         Doomed(kl) => Doomed(kl2), l = p => kl2 = k2 /\ kl = k,
         Wake(t, k, kl, s, d)
  PROVE  Wake(t2, k2, kl2, s2, d2)
  <1>1. CASE Stays(t, k, t2, k2)
    BY <1>1 DEF Stays, SameEvent, SameStop, Alike, Wake, Dead, Careful
  <1>2. CASE Continued(t, k, t2, k2)
    <2>1. k2.st = "gone" => k.st = "gone"
      BY <1>2 DEF Continued, RunsOn
    <2>2. k.st = "gone" => Doomed(kl) \/ (t.event \in Exits /\ ~s)
      BY <1>2 DEF Continued, Wake, Dead
    <2>3. k.st = "gone" /\ t.event \in Exits => t.event = "EXIT"
      BY <1>2 DEF Continued, Meant, Exits
    <2>4. k.st = "gone" => Doomed(kl2)
      BY <1>2, <2>2, <2>3 DEF Careful, Doomed, Dead
    <2> QED BY <1>2, <2>1, <2>4 DEF Continued, Wake
  <1>3. CASE Destroyed(t, k, t2, k2)
    <2>1. k.st = "gone" => k2.st = "gone"
      BY <1>3 DEF Destroyed, LetGo
    <2>2. k2.st = "gone" \/ Doomed(k2)
      BY <1>3 DEF Destroyed, LetGo, Alike, Quiet, Doomed, Dead
    <2> QED BY <1>3, <2>1, <2>2 DEF Destroyed, Careful, Wake
  <1>4. CASE Noticed(t, k, t2, k2)
    <2>1. k.status # "none" /\ k.st \in {"stopped", "zombie"}
      BY <1>4 DEF Noticed, Collected, Regular
    <2>2. CASE k.status = "exited"
      <3>1. Doomed(kl2)
        BY <1>4, <2>1 DEF Noticed, Wake
      <3> QED BY <1>4, <2>2, <3>1 DEF Noticed, Wake
    <2>3. CASE k.status # "exited"
      <3>1. k.st = "stopped" /\ k.dying
        BY <1>4, <2>1, <2>3 DEF Noticed, Regular, Meant
      <3>2. k2.st = "stopped" /\ k2.dying
        BY <1>4, <3>1 DEF Noticed, Collected, Alike
      <3> QED BY <1>4, <2>3, <3>2 DEF Noticed, Wake, Dead
    <2> QED BY <2>2, <2>3
  <1>5. CASE Dropped(t, k, t2, k2)
    <2>1. k2.st # "gone" => k.st # "gone"
      BY <1>5 DEF Dropped, Collected
    <2> QED BY <1>5, <2>1 DEF Dropped, SameEvent, Wake, Careful
  <1>6. CASE Overtaken(t, k, t2, k2)
    <2>1. Dead(k2) => Dead(k)
      BY <1>6 DEF Overtaken, Collected, Dead
    <2>2. t2.event \in Exits /\ k2.exiting = k.exiting /\ k2.dying = k.dying
      BY <1>6 DEF Overtaken, Collected, Alike, Exits
    <2> QED BY <1>6, <2>1, <2>2 DEF Overtaken, Wake, Careful
  <1>7. CASE Reported(t, k, t2, k2) /\ ~Overtaken(t, k, t2, k2)
    <2>1. k.status # "none" /\ k.status \notin Births /\ k2.exiting = k.exiting /\ k2.dying = k.dying
      BY <1>7 DEF Reported, Collected, Alike, Passage
    <2>2. k.status \in {"exited", "event_exit"} => t2.event \in Exits
      BY <1>7 DEF Reported, Means, Exits
    <2>3. Dead(k2) => k.status = "exited"
      BY <1>7 DEF Reported, Collected, Dead, Regular
    <2>4. k.exiting => k.status \in {"exited", "event_exit"}
      BY <2>1 DEF Passage, Births, Status
    <2> QED BY <1>7, <2>1, <2>2, <2>3, <2>4 DEF Reported, Wake, Careful
  <1> QED BY <1>1, <1>2, <1>3, <1>4, <1>5, <1>6, <1>7 DEF Move, Careful

\* An exec that the tracer was told of stands until the tracer acts on it.
LEMMA ExecsMoved ==
  ASSUME NEW t, NEW k, NEW t2, NEW k2, Move(t, k, t2, k2), Regular(k),
         Stepped(t, k, t2, k2) => Stays(t, k, t2, k2),
         (t2.stopped /\ t2.event = "EXEC") \/ k2.status = "exec",
         (t.stopped /\ t.event = "EXEC") \/ k.status = "exec" => k.st = "stopped"
  PROVE  /\ (t.stopped /\ t.event = "EXEC") \/ k.status = "exec"
         /\ k2.st = "stopped"
  <1>1. CASE Reported(t, k, t2, k2)
    <2>1. t2.event = "EXEC"
      BY <1>1 DEF Reported, Collected
    <2>2. k.status = "exec"
      BY <1>1, <2>1 DEF Reported, Means
    <2> QED BY <1>1, <2>2 DEF Reported, Collected
  <1>2. CASE ~Reported(t, k, t2, k2)
    BY <1>2 DEF Move, Stays, Continued, Destroyed, Noticed, Dropped, Overtaken, Stepped,
         SameEvent, SameStop, Alike, RunsOn, Collected, LetGo, Regular
  <1> QED BY <1>1, <1>2

\* All the tasks move, each in its own way.
LEMMA MovesKeep ==
  ASSUME IInv, Halted, Sound, pc # "step", pc' # "step",
         \A q \in Pids :
           /\ Move(task[q], kern[q], task'[q], kern'[q])
           /\ Careful(task[q], kern[q], task'[q], kern'[q], kern'[kern[q].tgid], kern[q].tgid, q,
                      Skipped(pc, frame, q), Skipped(pc', frame', q),
                      Emptied(pc, frame, kern[q].tgid), Emptied(pc', frame', kern[q].tgid))
           /\ Noticed(task[q], kern[q], task'[q], kern'[q]) => pc # "destroy"
  PROVE  Sense' /\ Deaths' /\ Execs' /\ StepState'
  <1>1. ASSUME NEW q \in Pids
        PROVE  /\ Regular(kern[q]) /\ Passage(kern[q], q) /\ Meant(task[q], kern[q], q)
               /\ kern[q].status \in Status /\ (task[q].stopped => task[q].known)
               /\ (task[q].known /\ task[q].stopped => Quiet(kern[q]))
               /\ ~Stepping(q) /\ ~Stepping(q)'
    <2>1. kern[q] \in KTask /\ GoodTask(task[q], kern[q], q)
      BY DEF IInv, KernelFacts, TaskFacts
    <2>2. kern[q].status \in Status /\ (task[q].stopped => task[q].known)
      BY <2>1 DEF KTask, GoodTask
    <2>3. ~Stepping(q) /\ ~Stepping(q)'
      BY DEF Stepping
    <2>4. Agree(task[q], kern[q], Follow)
      BY <2>3 DEF Halted, Balance
    <2> QED BY <2>2, <2>3, <2>4 DEF Sound, Sense, Agree
  <1>2. \A q \in Pids : MoveResult(kern[q], kern'[q])
    <2> SUFFICES ASSUME NEW q \in Pids PROVE MoveResult(kern[q], kern'[q])
      OBVIOUS
    <2>1. Regular(kern[q]) /\ Move(task[q], kern[q], task'[q], kern'[q])
      BY <1>1
    <2> QED BY <2>1, MoveDoomed
  <1>3. Sense'
    <2> SUFFICES ASSUME NEW q \in Pids PROVE Passage(kern'[q], q) /\ Meant(task'[q], kern'[q], q)
      BY DEF Sense
    <2>1. Passage(kern'[q], q)
      BY <1>1, MovePassage
    <2>2. Meant(task'[q], kern'[q], q)
      BY <1>1, MoveMeant
    <2> QED BY <2>1, <2>2
  <1>4. ASSUME NEW q \in Pids, kern'[q].st # "absent"
        PROVE  /\ kern[q].st # "absent" /\ kern'[q].tgid = kern[q].tgid /\ kern[q].tgid \in Pids
    BY <1>2, <1>4 DEF MoveResult, IInv, KernelFacts
  <1>5. Deaths'
    <2> SUFFICES ASSUME NEW q \in Pids, kern'[q].st # "absent"
                 PROVE  LET l == kern'[q].tgid
                        IN /\ kern'[q].dying /\ kern'[q].st # "gone" =>
                                l = q \/ Doomed(kern'[l]) \/ kern'[l].st = "execing"
                           /\ Wake(task'[q], kern'[q], kern'[l], Skipped(pc', frame', q),
                                   Emptied(pc', frame', l))
      BY DEF Deaths
    <2> DEFINE l == kern[q].tgid
    <2>1. l \in Pids /\ kern'[q].tgid = l /\ kern[q].st # "absent"
      BY <1>4
    <2>2. /\ kern[q].dying /\ kern[q].st # "gone" => l = q \/ Doomed(kern[l]) \/ kern[l].st = "execing"
          /\ Wake(task[q], kern[q], kern[l], Skipped(pc, frame, q), Emptied(pc, frame, l))
      BY <1>1, <2>1 DEF Sound, Deaths
    <2>3. kern'[q].dying /\ kern'[q].st # "gone" => l = q \/ Doomed(kern'[l]) \/ kern'[l].st = "execing"
      BY <1>2, <2>1, <2>2 DEF MoveResult
    <2>4. /\ Move(task[q], kern[q], task'[q], kern'[q])
          /\ Careful(task[q], kern[q], task'[q], kern'[q], kern'[l], l, q,
                      Skipped(pc, frame, q), Skipped(pc', frame', q),
                      Emptied(pc, frame, l), Emptied(pc', frame', l))
          /\ Noticed(task[q], kern[q], task'[q], kern'[q]) => ~Emptied(pc, frame, l)
      BY DEF Emptied
    <2>5. (Doomed(kern[l]) => Doomed(kern'[l])) /\ (l = q => kern'[l] = kern'[q] /\ kern[l] = kern[q])
      BY <1>2, <2>1 DEF MoveResult
    <2>6. kern[q].st # "absent"
      BY <1>4
    <2> HIDE DEF l
    <2>7. Wake(task'[q], kern'[q], kern'[l], Skipped(pc', frame', q), Emptied(pc', frame', l))
      BY <1>1, <2>2, <2>4, <2>5, <2>6, WakeKept
    <2> QED BY <2>1, <2>3, <2>7
  <1>6. Execs'
    <2> SUFFICES ASSUME NEW q \in Pids,
                        (task'[q].stopped /\ task'[q].event = "EXEC") \/ kern'[q].status = "exec"
                 PROVE  kern'[q].st = "stopped" /\ ~kern'[q].dying /\ ~kern'[q].exiting /\ Alone(kern', q)
      BY DEF Execs
    <2>1. /\ Move(task[q], kern[q], task'[q], kern'[q])
          /\ Stepped(task[q], kern[q], task'[q], kern'[q]) => Stays(task[q], kern[q], task'[q], kern'[q])
          /\ Regular(kern[q])
      BY <1>1 DEF Careful
    <2>2. (task[q].stopped /\ task[q].event = "EXEC") \/ kern[q].status = "exec" =>
             kern[q].st = "stopped" /\ ~kern[q].dying /\ ~kern[q].exiting /\ Alone(kern, q)
      BY DEF Sound, Execs
    <2>3. /\ (task[q].stopped /\ task[q].event = "EXEC") \/ kern[q].status = "exec"
          /\ kern'[q].st = "stopped"
      BY <2>1, <2>2, ExecsMoved
    <2>4. Alone(kern', q)
      BY <1>2, <2>2, <2>3 DEF Alone, MoveResult
    <2> QED BY <1>2, <2>2, <2>3, <2>4 DEF MoveResult
  <1> QED BY <1>3, <1>5, <1>6 DEF StepState

\* A task that is left alone.
LEMMA LeftAlone ==
  ASSUME NEW t, NEW k, NEW t2, NEW k2, SameEvent(t, t2), SameStop(k, k2), Regular(k)
  PROVE  /\ Stays(t, k, t2, k2) /\ Move(t, k, t2, k2)
         /\ ~Reported(t, k, t2, k2) /\ ~Noticed(t, k, t2, k2)
         /\ ~Continued(t, k, t2, k2) /\ ~Destroyed(t, k, t2, k2)
  BY DEF Stays, Move, SameEvent, SameStop, Alike, Reported, Noticed, Continued, Destroyed,
         Collected, Regular

\* A step that changes no event and no stop.
LEMMA StillSound ==
  ASSUME IInv, Halted, Sound, pc \notin {"step", "destroy"}, pc' # "step",
         \A q \in Pids : SameEvent(task[q], task'[q]) /\ SameStop(kern[q], kern'[q]),
         \A q \in Pids : Skipped(pc', frame', q) => Skipped(pc, frame, q) \/ task[q].event \notin Exits
  PROVE  Sense' /\ Deaths' /\ Execs' /\ StepState'
  <1>1. \A q \in Pids : Regular(kern[q])
    BY DEF Halted, Balance
  <1>2. ASSUME NEW q \in Pids
        PROVE  /\ Move(task[q], kern[q], task'[q], kern'[q])
               /\ Careful(task[q], kern[q], task'[q], kern'[q], kern'[kern[q].tgid], kern[q].tgid, q,
                          Skipped(pc, frame, q), Skipped(pc', frame', q),
                          Emptied(pc, frame, kern[q].tgid), Emptied(pc', frame', kern[q].tgid))
    <2>1. /\ Stays(task[q], kern[q], task'[q], kern'[q]) /\ Move(task[q], kern[q], task'[q], kern'[q])
          /\ ~Reported(task[q], kern[q], task'[q], kern'[q])
          /\ ~Continued(task[q], kern[q], task'[q], kern'[q])
          /\ ~Destroyed(task[q], kern[q], task'[q], kern'[q])
      BY <1>1, LeftAlone
    <2> QED BY <2>1 DEF Careful, Emptied
  <1> QED BY <1>2, MovesKeep

\* The queue and the answers, when the tracer takes no task on.
LEMMA Unmoved ==
  ASSUME Sound, event_head' = event_head, replies' = replies, pc' # "failed",
         \A q \in Pids : SameEvent(task[q], task'[q]) /\ kern'[q].exiting = kern[q].exiting,
         IInv
  PROVE  AssertsHold' /\ QueueSound' /\ Answers' /\ Queued' = Queued
  <1>1. Queued' = Queued /\ Queued \subseteq Pids /\ replies \subseteq Pids
    BY DEF Queued, IInv, Rest
  <1>2. QueueSound'
    BY <1>1 DEF Sound, QueueSound, SameEvent
  <1>3. Answers'
    BY <1>1 DEF Sound, Answers, SameEvent
  <1> QED BY <1>1, <1>2, <1>3 DEF AssertsHold

\* stop_threads sends signals, no more.
LEMMA StopSame ==
  ASSUME IInv, NEW l, NEW p, NEW cont, NEW todo, stop_threads(l, p, cont, todo), NEW q \in Pids
  PROVE  SameStop(kern[q], kern'[q])
  <1>1. CASE kern' = kern
    BY <1>1 DEF SameStop, Alike
  <1>2. CASE kern' = SendStop(kern, Members(l) \ StoppedOf(l))
    BY <1>2, SendStopAt DEF IInv
  <1> QED BY <1>1, <1>2 DEF stop_threads

\* The tracer begins to stop the threads of process l.
LEMMA StopsSound ==
  ASSUME IInv, Halted, Sound, pc \notin {"step", "destroy"}, task' = task,
         event_head' = event_head, replies' = replies,
         NEW l, NEW p, NEW cont, NEW todo, stop_threads(l, p, cont, todo),
         cont \notin {"close", "enable"},
         cont = "remove" => task[l].known /\ task[l].leader = l,
         cont = "disable" => /\ p \in Pids \ (Queued \cup replies) /\ task[p].stopped
                             /\ task[p].event \notin Exits /\ ~task[p].is_new
  PROVE  Sound'
  <1>1. \A q \in Pids : SameEvent(task[q], task'[q]) /\ SameStop(kern[q], kern'[q])
    BY StopSame DEF SameEvent
  <1>2. pc' = "stop" /\ frame' = [task |-> p, leader |-> l, cont |-> cont, todo |-> todo]
    BY DEF stop_threads
  <1>3. frame'.task = p /\ frame'.leader = l /\ frame'.cont = cont
    BY <1>2
  <1>4. \A q \in Pids : Skipped(pc', frame', q) => task[q].event \notin Exits
    BY <1>2, <1>3 DEF Skipped, Skips
  <1>5. Sense' /\ Deaths' /\ Execs' /\ StepState'
    BY <1>1, <1>2, <1>4, StillSound
  <1>6. AssertsHold' /\ QueueSound' /\ Answers' /\ Queued' = Queued
    BY <1>1, <1>2, Unmoved DEF SameStop
  <1>7. Handled'
    BY <1>2, <1>3, <1>6 DEF Handled, Owns, Skips
  <1>8. Loop' /\ Emptying'
    BY <1>2, <1>3 DEF Loop, Emptying
  <1> QED BY <1>5, <1>6, <1>7, <1>8 DEF Sound

\* The tracer goes back to its main loop, or leaves it.
LEMMA ReturnsSound ==
  ASSUME IInv, Halted, Sound, SkipReturn \/ QuitStopped \/ MainDone
  PROVE  Sound'
  <1>1. /\ pc \notin {"step", "destroy"} /\ pc' \in {"main", "done"} /\ task' = task /\ kern' = kern
        /\ event_head' = event_head /\ replies' = replies
    BY DEF SkipReturn, QuitStopped, MainDone, StopDone
  <1>2. \A q \in Pids : SameEvent(task[q], task'[q]) /\ SameStop(kern[q], kern'[q])
    BY <1>1 DEF SameEvent, SameStop, Alike
  <1>3. \A q \in Pids : ~Skipped(pc', frame', q)
    BY <1>1 DEF Skipped, Skips
  <1>4. Sense' /\ Deaths' /\ Execs' /\ StepState'
    BY <1>1, <1>2, <1>3, StillSound
  <1>5. AssertsHold' /\ QueueSound' /\ Answers'
    BY <1>1, <1>2, Unmoved DEF SameStop
  <1> QED BY <1>1, <1>4, <1>5 DEF Sound, Handled, Owns, Skips, Loop, Emptying

\* next_event takes the first task: nobody else has it.
LEMMA NextEventSound ==
  ASSUME IInv, Halted, Sound, NextEvent
  PROVE  Sound'
  <1> DEFINE p == Head(event_head)
  <1>1. event_head \in Seq(Pids) /\ event_head # <<>> /\ Once(event_head) /\ Queued = Listed(event_head)
    BY DEF IInv, Rest, NextEvent, Sound, QueueSound, Once, Listed, Queued
  <1>2. /\ Once(Tail(event_head)) /\ Listed(Tail(event_head)) \subseteq Listed(event_head)
        /\ p \in Listed(event_head) /\ p \notin Listed(Tail(event_head)) /\ p \in Pids
    BY <1>1, TailOnce
  <1>3. task[p].stopped
    BY <1>1, <1>2 DEF Sound, QueueSound
  <1>4. /\ pc = "main" /\ pc' = "handle" /\ task' = task /\ kern' = kern /\ event_head' = Tail(event_head)
        /\ replies' = replies /\ frame' = [NoFrame EXCEPT !.task = p]
    BY <1>3 DEF NextEvent, MainLoop
  <1>5. \A q \in Pids : SameEvent(task[q], task'[q]) /\ SameStop(kern[q], kern'[q])
    BY <1>4 DEF SameEvent, SameStop, Alike
  <1>6. \A q \in Pids : ~Skipped(pc', frame', q)
    BY <1>4 DEF Skipped, Skips
  <1>7. Sense' /\ Deaths' /\ Execs' /\ StepState'
    BY <1>4, <1>5, <1>6, StillSound
  <1>8. Queued' = Listed(Tail(event_head)) /\ Queued' \subseteq Queued
    BY <1>1, <1>2, <1>4 DEF Queued, Listed
  <1>9. QueueSound'
    BY <1>2, <1>4, <1>8 DEF Sound, QueueSound, Once
  <1>10. Answers'
    BY <1>4, <1>8 DEF Sound, Answers
  <1>11. Handled'
    <2>1. frame'.task = p
      BY <1>4 DEF NoFrame
    <2>2. p \notin replies
      BY <1>1, <1>2 DEF Sound, Answers
    <2> QED BY <1>2, <1>3, <1>4, <1>8, <2>1, <2>2 DEF Handled, Skips
  <1> QED BY <1>4, <1>7, <1>9, <1>10, <1>11 DEF Sound, AssertsHold, Loop, Emptying

\* continue_task of p, which nobody else waits for.
LEMMA ContinuesSound ==
  ASSUME IInv, Halted, Sound, pc # "step", pc' = "main", NEW p \in Pids, p \notin Queued,
         event_head' = event_head, replies' \subseteq replies \ {p},
         Continued(task[p], kern[p], task'[p], kern'[p]),
         \A q \in Pids \ {p} : task'[q] = task[q] /\ kern'[q] = kern[q],
         task[p].event = "EXIT" => Skipped(pc, frame, p) \/ kern[p].tgid = p,
         pc = "destroy" =>
           \A q \in Pids : kern[q].tgid = frame.leader => task[q].known \/ kern[q].st \in {"gone", "absent"}
  PROVE  Sound'
  <1>1. \A q \in Pids : Regular(kern[q])
    BY DEF Halted, Balance
  <1>2. \A q \in Pids \ {p} : SameEvent(task[q], task'[q]) /\ SameStop(kern[q], kern'[q])
    BY DEF SameEvent, SameStop, Alike
  <1>3. \A q \in Pids : ~Skipped(pc', frame', q)
    BY DEF Skipped, Skips
  <1>4. ASSUME NEW q \in Pids
        PROVE  Emptied(pc, frame, kern[q].tgid) => task[q].known \/ kern[q].st \in {"gone", "absent"}
    BY DEF Emptied
  <1>5. ASSUME NEW q \in Pids
        PROVE  /\ Move(task[q], kern[q], task'[q], kern'[q])
               /\ Careful(task[q], kern[q], task'[q], kern'[q], kern'[kern[q].tgid], kern[q].tgid, q,
                          Skipped(pc, frame, q), Skipped(pc', frame', q),
                          Emptied(pc, frame, kern[q].tgid), Emptied(pc', frame', kern[q].tgid))
               /\ ~Noticed(task[q], kern[q], task'[q], kern'[q])
    <2>1. CASE q # p
      <3>1. /\ Stays(task[q], kern[q], task'[q], kern'[q]) /\ Move(task[q], kern[q], task'[q], kern'[q])
            /\ ~Reported(task[q], kern[q], task'[q], kern'[q])
            /\ ~Noticed(task[q], kern[q], task'[q], kern'[q])
            /\ ~Continued(task[q], kern[q], task'[q], kern'[q])
            /\ ~Destroyed(task[q], kern[q], task'[q], kern'[q])
        BY <1>1, <1>2, <2>1, LeftAlone
      <3> QED BY <1>3, <1>4, <3>1 DEF Careful
    <2>2. CASE q = p
      <3>1. /\ Move(task[p], kern[p], task'[p], kern'[p])
            /\ ~Reported(task[p], kern[p], task'[p], kern'[p])
            /\ ~Noticed(task[p], kern[p], task'[p], kern'[p])
            /\ ~Destroyed(task[p], kern[p], task'[p], kern'[p])
            /\ ~Stepped(task[p], kern[p], task'[p], kern'[p])
        BY DEF Move, Continued, Reported, Noticed, Destroyed, Stepped
      <3> QED BY <1>3, <1>4, <2>2, <3>1 DEF Careful
    <2> QED BY <2>1, <2>2
  <1>6. Sense' /\ Deaths' /\ Execs' /\ StepState'
    BY <1>5, MovesKeep
  <1>7. Queued' = Queued /\ Queued \subseteq Pids /\ replies \subseteq Pids
    BY DEF Queued, IInv, Rest
  <1>8. QueueSound'
    BY <1>7 DEF Sound, QueueSound
  <1>9. Answers'
    BY <1>7 DEF Sound, Answers
  <1> QED BY <1>6, <1>8, <1>9 DEF Sound, AssertsHold, Handled, Owns, Skips, Loop, Emptying

\* continue_task and PTRACE_CONT at the end of a handler.
LEMMA ReturnedSound ==
  ASSUME IInv, Halted, Sound, pc # "step", NEW p \in Pids, p \notin Queued, p \notin replies,
         task[p].stopped, ContinueAndReturn(p),
         task[p].is_new => kern[p].exiting,
         task[p].event = "EXIT" => Skipped(pc, frame, p) \/ kern[p].tgid = p,
         pc = "destroy" =>
           \A q \in Pids : kern[q].tgid = frame.leader => task[q].known \/ kern[q].st \in {"gone", "absent"}
  PROVE  Sound'
  <1>1. task[p].known /\ task \in [Pids -> TaskRec] /\ task[p] \in TaskRec
    BY DEF IInv, TaskFacts, GoodTask
  <1>2. /\ task'[p].known = task[p].known /\ task'[p].stopped = FALSE /\ task'[p].event = "NONE"
        /\ task'[p].defer = task[p].defer /\ task'[p].is_new = task[p].is_new
        /\ \A q \in Pids \ {p} : task'[q] = task[q]
    BY <1>1 DEF ContinueAndReturn, continue_task, TaskRec
  <1>3. /\ RunsOn(kern[p], kern'[p], "running")
        /\ \A q \in Pids \ {p} : kern'[q] = kern[q]
    BY ResumeAt DEF IInv, ContinueAndReturn
  <1>4. Continued(task[p], kern[p], task'[p], kern'[p])
    BY <1>1, <1>2, <1>3 DEF Continued
  <1>5. pc' = "main" /\ event_head' = event_head /\ replies' \subseteq replies \ {p}
    BY DEF ContinueAndReturn
  <1> QED BY <1>2, <1>3, <1>4, <1>5, ContinuesSound

\* The task of a handler belongs to the handler.
LEMMA HandledAlone ==
  ASSUME IInv, Halted, Sound, NEW p \in Pids, pc = "handle", frame.task = p
  PROVE  /\ p \notin Queued /\ p \notin replies /\ task[p].stopped /\ task[p].known
         /\ task \in [Pids -> TaskRec] /\ task[p] \in TaskRec
         /\ Meant(task[p], kern[p], p)
  BY DEF Sound, Handled, Owns, IInv, TaskFacts, GoodTask, Sense

\* handle_signal, a hardware breakpoint, handle_about_exit of a thread.
LEMMA HandleContinueSound ==
  ASSUME IInv, Halted, Sound, NEW p \in Pids, HandleSignal(p) \/ HandleBreakpointHw(p)
  PROVE  Sound'
  <1>1. pc = "handle" /\ frame.task = p /\ task[p].event \in {"SIGNAL", "NONE", "BREAKPOINT"}
    BY DEF HandleSignal, HandleBreakpointHw, Handle
  <1>2. ~task[p].is_new
    BY <1>1, HandledAlone DEF Meant, Exits
  <1>3. ContinueAndReturn(p)
    BY <1>2 DEF HandleSignal, HandleBreakpointHw
  <1> QED BY <1>1, <1>2, <1>3, HandledAlone, ReturnedSound

\* handle_new
LEMMA HandleNewSound ==
  ASSUME IInv, Halted, Sound, NEW p \in Pids, HandleNew(p)
  PROVE  Sound'
  <1>1. pc = "handle" /\ frame.task = p /\ task[p].event = "NEW"
    BY DEF HandleNew, Handle
  <1>2. /\ p \notin Queued /\ p \notin replies /\ task[p].stopped /\ task[p].known /\ task[p].is_new
        /\ task \in [Pids -> TaskRec] /\ task[p] \in TaskRec
    BY <1>1, HandledAlone DEF Meant
  <1>3. /\ task' = [continue_task(task, p) EXCEPT ![p].is_new = FALSE] /\ kern' = Resume(kern, p, "running")
        /\ pc' = "main" /\ event_head' = event_head /\ replies' = replies
    BY <1>2 DEF HandleNew
  <1>4. /\ task'[p].known = task[p].known /\ task'[p].stopped = FALSE /\ task'[p].event = "NONE"
        /\ task'[p].defer = task[p].defer /\ task'[p].is_new = FALSE
        /\ \A q \in Pids \ {p} : task'[q] = task[q]
    BY <1>2, <1>3 DEF continue_task, TaskRec
  <1>5. /\ RunsOn(kern[p], kern'[p], "running")
        /\ \A q \in Pids \ {p} : kern'[q] = kern[q]
    BY <1>3, ResumeAt DEF IInv
  <1>6. Continued(task[p], kern[p], task'[p], kern'[p])
    BY <1>2, <1>4, <1>5 DEF Continued
  <1>7. pc # "step" /\ pc # "destroy" /\ task[p].event # "EXIT"
    BY <1>1
  <1> QED BY <1>2, <1>3, <1>4, <1>5, <1>6, <1>7, ContinuesSound

\* handle_about_exit: a leader waits for the client's answer, a thread goes on to die.
LEMMA HandleAboutExitSound ==
  ASSUME IInv, Halted, Sound, NEW p \in Pids, HandleAboutExit(p)
  PROVE  Sound'
  <1>1. pc = "handle" /\ frame.task = p /\ task[p].event = "ABOUT_EXIT"
    BY DEF HandleAboutExit, Handle
  <1>2. /\ p \notin Queued /\ p \notin replies /\ task[p].stopped /\ task[p].known
        /\ task \in [Pids -> TaskRec] /\ task[p] \in TaskRec /\ kern[p].exiting
    BY <1>1, HandledAlone DEF Meant
  <1>3. CASE ContinueAndReturn(p)
    BY <1>1, <1>2, <1>3, ReturnedSound
  <1>4. CASE ~ContinueAndReturn(p)
    <2>1. /\ task' = [task EXCEPT ![p].about_exit = TRUE] /\ replies' = replies \cup {p}
          /\ pc' = "main" /\ kern' = kern /\ event_head' = event_head
      BY <1>4 DEF HandleAboutExit
    <2>2. \A q \in Pids : SameEvent(task[q], task'[q]) /\ SameStop(kern[q], kern'[q])
      <3>1. /\ task'[p].known = task[p].known /\ task'[p].stopped = task[p].stopped
            /\ task'[p].is_new = task[p].is_new /\ task'[p].event = task[p].event
            /\ task'[p].defer = task[p].defer
        BY <1>2, <2>1 DEF TaskRec
      <3>2. \A q \in Pids \ {p} : task'[q] = task[q]
        BY <1>2, <2>1
      <3> QED BY <2>1, <3>1, <3>2 DEF SameEvent, SameStop, Alike
    <2>3. \A q \in Pids : ~Skipped(pc', frame', q)
      BY <2>1 DEF Skipped, Skips
    <2>4. Sense' /\ Deaths' /\ Execs' /\ StepState'
      BY <1>1, <2>1, <2>2, <2>3, StillSound
    <2>5. Queued' = Queued /\ Queued \subseteq Pids /\ replies \subseteq Pids
      BY <2>1 DEF Queued, IInv, Rest
    <2>6. QueueSound'
      BY <2>1, <2>2, <2>5 DEF Sound, QueueSound, SameEvent
    <2>7. Answers'
      <3>1. \A q \in replies : task'[q].stopped /\ kern'[q].exiting
        BY <2>1, <2>2, <2>5 DEF Sound, Answers, SameEvent
      <3>2. task'[p].stopped /\ kern'[p].exiting
        BY <1>2, <2>1, <2>2 DEF SameEvent
      <3> QED BY <1>2, <2>1, <2>5, <3>1, <3>2 DEF Sound, Answers
    <2> QED BY <2>1, <2>4, <2>6, <2>7 DEF Sound, AssertsHold, Handled, Owns, Skips, Loop, Emptying
  <1> QED BY <1>3, <1>4

\* The handlers and commands that stop the threads of a process.
LEMMA StopStepsSound ==
  ASSUME IInv, Halted, Sound, Settled,
         \/ \E p \in Pids : HandleExitLeader(p) \/ HandleExecNoFollow(p) \/ HandleBreakpointSw(p)
         \/ \E l \in Pids : ServerCommand(l) \/ QuitRemove(l)
         \/ StopNext \/ Quit
  PROVE  Sound'
  <1>1. ASSUME NEW p \in Pids, HandleExitLeader(p) \/ HandleExecNoFollow(p)
        PROVE  Sound'
    <2>1. /\ pc = "handle" /\ frame.task = p /\ stop_threads(p, p, "remove", {})
          /\ task' = task /\ event_head' = event_head /\ replies' = replies
      BY <1>1 DEF HandleExitLeader, HandleExecNoFollow, Handle
    <2>2. task[p].known /\ Meant(task[p], kern[p], p) /\ GoodTask(task[p], kern[p], p)
      BY <2>1, HandledAlone DEF IInv, TaskFacts
    <2>3. task[p].leader = p
      BY <1>1, <2>2 DEF HandleExitLeader, HandleExecNoFollow, Handle, Meant, GoodTask
    <2> QED BY <2>1, <2>2, <2>3, StopsSound
  <1>2. ASSUME NEW p \in Pids, HandleBreakpointSw(p)
        PROVE  Sound'
    <2>1. /\ pc = "handle" /\ frame.task = p /\ task[p].event = "BREAKPOINT"
          /\ stop_threads(task[p].leader, p, "disable", {})
          /\ task' = task /\ event_head' = event_head /\ replies' = replies
      BY <1>2 DEF HandleBreakpointSw, Handle
    <2>2. /\ p \notin Queued /\ p \notin replies /\ task[p].stopped
          /\ task[p].event \notin Exits /\ ~task[p].is_new
      BY <2>1, HandledAlone DEF Meant, Exits
    <2> QED BY <2>1, <2>2, StopsSound
  <1>3. ASSUME NEW l \in Pids, ServerCommand(l) \/ QuitRemove(l)
        PROVE  Sound'
    <2>1. /\ pc = "main" /\ l \in Leaders
          /\ (stop_threads(l, NoPid, "command", {}) \/ stop_threads(l, l, "remove", {}))
          /\ task' = task /\ event_head' = event_head /\ replies' = replies
      BY <1>3 DEF ServerCommand, QuitRemove, MainLoop
    <2>2. task[l].known /\ task[l].leader = l
      BY <2>1 DEF Leaders, Known
    <2> QED BY <2>1, <2>2, StopsSound
  <1>4. ASSUME StopNext \/ Quit
        PROVE  Sound'
    <2>1. pc = "stop" => frame.cont # "close"
      BY DEF Sound, Loop
    <2>2. PICK l, todo :
             stop_threads(l, NoPid, "quit", todo) /\ pc \in {"main", "stop"}
             /\ task' = task /\ event_head' = event_head /\ replies' = replies
      <3>1. CASE Quit
        BY <3>1 DEF Quit, MainLoop
      <3>2. CASE StopNext
        <4>1. pc = "stop" /\ frame.cont = "quit"
          BY <2>1, <3>2 DEF StopNext, StopDone
        <4> QED BY <3>2, <4>1 DEF StopNext
      <3> QED BY <1>4, <3>1, <3>2
    <2> QED BY <2>2, StopsSound
  <1> QED BY <1>1, <1>2, <1>3, <1>4

\* MT_ABOUT_EXIT from the client.
LEMMA ServerAboutExitSound ==
  ASSUME IInv, Halted, Sound, NEW p \in Pids, ServerAboutExit(p)
  PROVE  Sound'
  <1>1. pc = "main" /\ p \in replies /\ task[p].stopped /\ kern[p].exiting /\ p \notin Queued
    BY DEF ServerAboutExit, Sound, Answers
  <1>2. task[p].known /\ task \in [Pids -> TaskRec] /\ task[p] \in TaskRec /\ kern[p].tgid = p
    BY <1>1 DEF IInv, TaskFacts, GoodTask, FrameFacts
  <1>3. /\ task' = continue_task(task, p) /\ kern' = Resume(kern, p, "running")
        /\ replies' = replies \ {p} /\ pc' = "main" /\ event_head' = event_head
    BY <1>1 DEF ServerAboutExit
  <1>4. /\ task'[p].known = task[p].known /\ task'[p].stopped = FALSE /\ task'[p].event = "NONE"
        /\ task'[p].defer = task[p].defer /\ task'[p].is_new = task[p].is_new
        /\ \A q \in Pids \ {p} : task'[q] = task[q]
    BY <1>2, <1>3 DEF continue_task, TaskRec
  <1>5. /\ RunsOn(kern[p], kern'[p], "running")
        /\ \A q \in Pids \ {p} : kern'[q] = kern[q]
    BY <1>3, ResumeAt DEF IInv
  <1>6. Continued(task[p], kern[p], task'[p], kern'[p])
    BY <1>1, <1>2, <1>4, <1>5 DEF Continued
  <1> QED BY <1>1, <1>2, <1>3, <1>4, <1>5, <1>6, ContinuesSound

\* skip_breakpoint continues the task.
LEMMA SkipContinueSound ==
  ASSUME IInv, Halted, Sound, SkipContinue
  PROVE  Sound'
  <1> DEFINE p == frame.task
  <1>1. pc = "stop" /\ frame.cont = "enable"
    BY DEF SkipContinue, StopDone
  <1>2. /\ p \in Pids /\ p \notin Queued /\ p \notin replies /\ task[p].stopped /\ ~task[p].is_new
        /\ Skipped(pc, frame, p)
    BY <1>1 DEF Sound, Handled, Owns, Skips, Skipped
  <1>3. ContinueAndReturn(p)
    BY <1>2 DEF SkipContinue
  <1> QED BY <1>1, <1>2, <1>3, ReturnedSound

\* process_exec finds one thread, and handle_exec continues it.
LEMMA ExecDoneSound ==
  ASSUME IInv, Halted, Sound, ExecDone
  PROVE  Sound'
  <1> DEFINE l == frame.leader
  <1>1. pc = "destroy" /\ frame.todo = {} /\ frame.cont = "exec"
    BY DEF ExecDone
  <1>2. /\ l \in Pids /\ task[l].stopped /\ task[l].leader = l /\ Members(l) \ {l} = {}
        /\ Alone(kern, l) /\ ~task[l].is_new /\ l \notin Queued /\ l \notin replies
    BY <1>1 DEF Sound, Emptying
  <1>3. task[l].known /\ kern[l].tgid = l
    BY <1>2 DEF IInv, TaskFacts, GoodTask
  <1>4. MembersIn(task, l) = {l} /\ StoppedIn(task, l) = {l}
    BY <1>2, <1>3 DEF Members, Known, MembersIn, StoppedIn
  <1>5. threads[l] = 1 /\ threads_stopped[l] = 1
    <2>1. Cardinality({l}) = 1
      BY FS_Singleton
    <2>2. threads[l] = Cardinality(MembersIn(task, l))
          /\ threads_stopped[l] = Cardinality(StoppedIn(task, l))
      BY <1>2 DEF IInv, Exact
    <2> QED BY <1>4, <2>1, <2>2
  <1>6. ContinueAndReturn(l)
    BY <1>2, <1>5 DEF ExecDone
  <1>7. \A q \in Pids : kern[q].tgid = l => task[q].known \/ kern[q].st \in {"gone", "absent"}
    BY <1>2, <1>3 DEF Alone
  <1> QED BY <1>1, <1>2, <1>3, <1>6, <1>7, ReturnedSound

\* task_destroy of p.
LEMMA DestroysSound ==
  ASSUME IInv, Halted, Sound, pc # "step", pc' \in {"main", "destroy"}, NEW p \in Pids, task[p].stopped,
         task_destroy(p),
         kern[p].st = "gone" \/ Emptied(pc', frame', kern[p].tgid) \/ kern[p].tgid = p,
         \A q \in Pids : Emptied(pc, frame, kern[q].tgid) =>
           Emptied(pc', frame', kern[q].tgid) \/ task[q].known \/ kern[q].tgid = p
  PROVE  /\ AssertsHold' /\ QueueSound' /\ Sense' /\ Deaths' /\ Execs' /\ StepState' /\ Answers'
         /\ Queued' \subseteq Queued
         /\ \A q \in Pids \ {p} : task'[q] = task[q] /\ kern'[q] = kern[q]
         /\ ~task'[p].known
  <1>1. task[p].known /\ task \in [Pids -> TaskRec]
    BY DEF IInv, TaskFacts, GoodTask
  <1>2. task'[p] = NoTask /\ \A q \in Pids \ {p} : task'[q] = task[q]
    BY <1>1 DEF task_destroy
  <1>3. LetGo(kern[p], kern'[p]) /\ \A q \in Pids \ {p} : kern'[q] = kern[q]
    BY DetachAt DEF IInv, task_destroy
  <1>4. Destroyed(task[p], kern[p], task'[p], kern'[p])
    BY <1>1, <1>2, <1>3 DEF Destroyed, NoTask
  <1>5. \A q \in Pids : Regular(kern[q])
    BY DEF Halted, Balance
  <1>6. Quiet(kern[p])
    BY <1>1 DEF Halted, Balance, Stepping, Agree
  <1>7. Doomed(kern'[p])
    BY <1>3, <1>6 DEF LetGo, Alike, Quiet, Doomed, Dead
  <1>8. \A q \in Pids : ~Skipped(pc', frame', q)
    BY DEF Skipped, Skips
  <1>9. \A q \in Pids \ {p} : SameEvent(task[q], task'[q]) /\ SameStop(kern[q], kern'[q])
    BY <1>2, <1>3 DEF SameEvent, SameStop, Alike
  <1>10. ASSUME NEW q \in Pids
         PROVE  Emptied(pc, frame, kern[q].tgid) =>
                  Emptied(pc', frame', kern[q].tgid) \/ task[q].known \/ Doomed(kern'[kern[q].tgid])
    BY <1>7
  <1>11. ASSUME NEW q \in Pids
         PROVE  /\ Move(task[q], kern[q], task'[q], kern'[q])
                /\ Careful(task[q], kern[q], task'[q], kern'[q], kern'[kern[q].tgid], kern[q].tgid, q,
                          Skipped(pc, frame, q), Skipped(pc', frame', q),
                          Emptied(pc, frame, kern[q].tgid), Emptied(pc', frame', kern[q].tgid))
                /\ ~Noticed(task[q], kern[q], task'[q], kern'[q])
    <2>1. CASE q # p
      <3>1. /\ Stays(task[q], kern[q], task'[q], kern'[q]) /\ Move(task[q], kern[q], task'[q], kern'[q])
            /\ ~Reported(task[q], kern[q], task'[q], kern'[q])
            /\ ~Noticed(task[q], kern[q], task'[q], kern'[q])
            /\ ~Continued(task[q], kern[q], task'[q], kern'[q])
            /\ ~Destroyed(task[q], kern[q], task'[q], kern'[q])
        BY <1>5, <1>9, <2>1, LeftAlone
      <3> QED BY <1>8, <1>10, <3>1 DEF Careful
    <2>2. CASE q = p
      <3>1. /\ Move(task[p], kern[p], task'[p], kern'[p])
            /\ ~Reported(task[p], kern[p], task'[p], kern'[p])
            /\ ~Noticed(task[p], kern[p], task'[p], kern'[p])
            /\ ~Continued(task[p], kern[p], task'[p], kern'[p])
            /\ ~Stepped(task[p], kern[p], task'[p], kern'[p])
        BY <1>4 DEF Move, Continued, Reported, Noticed, Destroyed, Stepped
      <3> QED BY <1>8, <1>10, <2>2, <3>1 DEF Careful
    <2> QED BY <2>1, <2>2
  <1>12. Sense' /\ Deaths' /\ Execs' /\ StepState'
    BY <1>11, MovesKeep
  <1>13. Once(event_head) /\ event_head \in Seq(Pids) /\ Queued = Listed(event_head)
         /\ replies \subseteq Pids
    BY DEF Sound, QueueSound, Once, Listed, Queued, IInv, Rest
  <1>14. /\ Once(event_head') /\ Listed(event_head') \subseteq Queued \ {p}
         /\ replies' = replies \ {p}
    BY <1>13, RemoveOnce DEF task_destroy
  <1>15. Queued' = Listed(event_head') /\ Queued \subseteq Pids
    BY <1>13 DEF Queued, Listed
  <1>16. QueueSound'
    BY <1>2, <1>14, <1>15 DEF Sound, QueueSound, Once
  <1>17. Answers'
    BY <1>2, <1>3, <1>13, <1>14, <1>15 DEF Sound, Answers
  <1> QED BY <1>2, <1>3, <1>12, <1>14, <1>15, <1>16, <1>17 DEF AssertsHold, NoTask

\* handle_exit of a thread.
LEMMA HandleExitThreadSound ==
  ASSUME IInv, Halted, Sound, NEW p \in Pids, HandleExitThread(p)
  PROVE  Sound'
  <1>1. pc = "handle" /\ frame.task = p /\ task[p].event = "EXIT" /\ task_destroy(p) /\ pc' = "main"
    BY DEF HandleExitThread, Handle
  <1>2. task[p].stopped /\ kern[p].st = "gone"
    BY <1>1, HandledAlone DEF Meant
  <1>3. \A l : ~Emptied(pc, frame, l)
    BY <1>1 DEF Emptied
  <1>4. AssertsHold' /\ QueueSound' /\ Sense' /\ Deaths' /\ Execs' /\ StepState' /\ Answers'
    BY <1>1, <1>2, <1>3, DestroysSound
  <1> QED BY <1>1, <1>4 DEF Sound, Handled, Owns, Skips, Loop, Emptying

\* The loop over the other tasks of a process.
LEMMA DestroyTaskSound ==
  ASSUME IInv, Halted, Sound, NEW p \in Pids, DestroyTask(p)
  PROVE  Sound'
  <1> DEFINE l == frame.leader
  <1>1. pc = "destroy" /\ p \in frame.todo
    BY DEF DestroyTask
  <1>2. /\ l \in Pids /\ task[l].stopped /\ task[l].leader = l
        /\ frame.todo = Members(l) \ {l} /\ \A q \in frame.todo : task[q].stopped
        /\ frame.cont = "exec" => Alone(kern, l) /\ ~task[l].is_new /\ l \notin Queued \cup replies
    BY <1>1 DEF Sound, Emptying
  <1>3. /\ task_destroy(p) /\ frame' = [frame EXCEPT !.todo = @ \ {p}] /\ pc' = "destroy"
    BY <1>1, <1>2 DEF DestroyTask
  <1>4. /\ frame'.todo = frame.todo \ {p} /\ frame'.leader = l /\ frame'.cont = frame.cont
    BY <1>3 DEF IInv, Rest, Frame
  <1>5. task[p].stopped /\ kern[p].tgid = l /\ p # l
    BY <1>1, <1>2 DEF Members, Known, IInv, TaskFacts, GoodTask
  <1>6. \A m : Emptied(pc, frame, m) => Emptied(pc', frame', m)
    BY <1>3, <1>4 DEF Emptied
  <1>7. Emptied(pc', frame', kern[p].tgid)
    BY <1>3, <1>4, <1>5 DEF Emptied
  <1>8. /\ AssertsHold' /\ QueueSound' /\ Sense' /\ Deaths' /\ Execs' /\ StepState' /\ Answers'
        /\ Queued' \subseteq Queued
        /\ \A q \in Pids \ {p} : task'[q] = task[q] /\ kern'[q] = kern[q]
        /\ ~task'[p].known
    BY <1>1, <1>3, <1>5, <1>6, <1>7, DestroysSound
  <1>9. Members(l)' = Members(l) \ {p}
    BY <1>4, <1>8 DEF Members, Known
  <1>10. frame'.cont = "exec" => Alone(kern', l) /\ l \notin Queued' \cup replies'
    <2>1. /\ kern'[p].tgid = kern[p].tgid
          /\ kern[p].st \in {"gone", "absent"} => kern'[p].st = kern[p].st
      BY <1>3, DetachAt DEF task_destroy, IInv, LetGo, Alike
    <2>2. replies' \subseteq replies
      BY <1>3 DEF task_destroy
    <2> QED BY <1>2, <1>4, <1>5, <1>8, <2>1, <2>2 DEF Alone
  <1>11. Emptying'
    BY <1>2, <1>3, <1>4, <1>5, <1>8, <1>9, <1>10 DEF Emptying, Members, Known
  <1> QED BY <1>3, <1>8, <1>11 DEF Sound, Handled, Owns, Skips, Loop

\* The leader is destroyed last, and alone.
LEMMA DestroyLeaderSound ==
  ASSUME IInv, Halted, Sound, DestroyLeader
  PROVE  Sound'
  <1> DEFINE l == frame.leader
  <1>1. pc = "destroy" /\ frame.todo = {}
    BY DEF DestroyLeader
  <1>2. l \in Pids /\ task[l].stopped /\ task[l].leader = l /\ Members(l) \ {l} = {}
    BY <1>1 DEF Sound, Emptying
  <1>3. task[l].known /\ kern[l].tgid = l
    BY <1>2 DEF IInv, TaskFacts, GoodTask
  <1>4. MembersIn(task, l) = {l}
    BY <1>2, <1>3 DEF Members, Known, MembersIn
  <1>5. threads[l] = 1
    BY <1>2, <1>4, FS_Singleton DEF IInv, Exact
  <1>6. task_destroy(l) /\ pc' = "main"
    BY <1>2, <1>5 DEF DestroyLeader
  <1>7. \A q \in Pids : Emptied(pc, frame, kern[q].tgid) => kern[q].tgid = l
    BY DEF Emptied
  <1>8. AssertsHold' /\ QueueSound' /\ Sense' /\ Deaths' /\ Execs' /\ StepState' /\ Answers'
    BY <1>1, <1>2, <1>3, <1>6, <1>7, DestroysSound
  <1> QED BY <1>6, <1>8 DEF Sound, Handled, Owns, Skips, Loop, Emptying

\* remove_proc lists the tasks of a process that is stopped altogether.
LEMMA RemoveProcSound ==
  ASSUME IInv, Halted, Sound, RemoveProc
  PROVE  Sound'
  <1> DEFINE l == frame.leader
  <1>1. /\ pc = "stop" /\ frame.cont = "remove" /\ threads[l] = threads_stopped[l]
        /\ pc' = "destroy" /\ frame' = [frame EXCEPT !.todo = Members(l) \ {l}]
        /\ task' = task /\ kern' = kern /\ event_head' = event_head /\ replies' = replies
    BY DEF RemoveProc, StopDone
  <1>2. l \in Pids /\ task[l].known /\ task[l].leader = l
    BY <1>1 DEF IInv, FrameFacts, Sound, Loop
  <1>3. frame'.todo = Members(l) \ {l} /\ frame'.leader = l /\ frame'.cont = "remove"
    BY <1>1 DEF IInv, Rest, Frame
  <1>4. \A q \in Members(l) : task[q].stopped
    BY <1>1, <1>2, AllStopped
  <1>5. l \in Members(l)
    BY <1>2 DEF Members, Known
  <1>6. \A q \in Pids : SameEvent(task[q], task'[q]) /\ SameStop(kern[q], kern'[q])
    BY <1>1 DEF SameEvent, SameStop, Alike
  <1>7. \A q \in Pids : ~Skipped(pc', frame', q)
    BY <1>1 DEF Skipped, Skips
  <1>8. Sense' /\ Deaths' /\ Execs' /\ StepState'
    BY <1>1, <1>6, <1>7, StillSound
  <1>9. AssertsHold' /\ QueueSound' /\ Answers'
    BY <1>1, <1>6, Unmoved DEF SameStop
  <1>10. Emptying'
    BY <1>1, <1>2, <1>3, <1>4, <1>5 DEF Emptying, Members, Known
  <1> QED BY <1>1, <1>8, <1>9, <1>10 DEF Sound, Handled, Owns, Skips, Loop

\* handle_exec: the other tasks of the process are dead, and the tracer knows it.
LEMMA HandleExecSound ==
  ASSUME IInv, Halted, Sound, NEW p \in Pids, HandleExec(p)
  PROVE  Sound'
  <1>1. /\ pc = "handle" /\ frame.task = p /\ task[p].event = "EXEC" /\ pc' = "destroy"
        /\ frame' = [task |-> p, leader |-> p, cont |-> "exec", todo |-> Members(p) \ {p}]
        /\ task' = task /\ kern' = kern /\ event_head' = event_head /\ replies' = replies
    BY DEF HandleExec, Handle
  <1>2. /\ p \notin Queued /\ p \notin replies /\ task[p].stopped /\ task[p].known
        /\ ~task[p].is_new /\ kern[p].tgid = p
    BY <1>1, HandledAlone DEF Meant, Exits
  <1>3. task[p].leader = p
    BY <1>2 DEF IInv, TaskFacts, GoodTask
  <1>4. kern[p].st = "stopped" /\ ~kern[p].dying /\ ~kern[p].exiting /\ Alone(kern, p)
    BY <1>1, <1>2 DEF Sound, Execs
  <1>5. ASSUME NEW q \in Members(p) \ {p}
        PROVE  task[q].stopped
    <2>1. q \in Pids /\ task[q].known /\ kern[q].tgid = p /\ kern[q].st # "absent"
      BY DEF Members, Known, IInv, TaskFacts, GoodTask
    <2>2. kern[q].st = "gone"
      BY <1>4, <2>1 DEF Alone
    <2>3. ~Doomed(kern[p])
      BY <1>4 DEF Doomed, Dead
    <2>4. Wake(task[q], kern[q], kern[p], Skipped(pc, frame, q), Emptied(pc, frame, p))
      BY <1>1, <2>1 DEF Sound, Deaths, Stepping
    <2> QED BY <2>1, <2>2, <2>3, <2>4 DEF Wake
  <1>6. \A q \in Pids : SameEvent(task[q], task'[q]) /\ SameStop(kern[q], kern'[q])
    BY <1>1 DEF SameEvent, SameStop, Alike
  <1>7. \A q \in Pids : ~Skipped(pc', frame', q)
    BY <1>1 DEF Skipped, Skips
  <1>8. Sense' /\ Deaths' /\ Execs' /\ StepState'
    BY <1>1, <1>6, <1>7, StillSound
  <1>9. AssertsHold' /\ QueueSound' /\ Answers' /\ Queued' = Queued
    BY <1>1, <1>6, Unmoved DEF SameStop
  <1>10. Emptying'
    BY <1>1, <1>2, <1>3, <1>4, <1>5, <1>9 DEF Emptying, Members, Known
  <1> QED BY <1>1, <1>8, <1>9, <1>10 DEF Sound, Handled, Owns, Skips, Loop

-----------------------------------------------------------------------------
(* Wait statuses.                                                          *)

\* wait_event collects the status of p; the queue and the answers are not about p.
LEMMA CollectsSound ==
  ASSUME IInv, Halted, Sound, pc \in {"main", "stop"}, pc' \in {"main", "stop", "handle"},
         NEW p \in Pids,
         \/ Noticed(task[p], kern[p], task'[p], kern'[p])
         \/ Dropped(task[p], kern[p], task'[p], kern'[p])
         \/ Overtaken(task[p], kern[p], task'[p], kern'[p])
         \/ Reported(task[p], kern[p], task'[p], kern'[p]) /\ ~task[p].stopped,
         \A q \in Pids \ {p} : task'[q] = task[q] /\ kern'[q] = kern[q],
         Skips(pc', frame') => Skips(pc, frame) /\ frame'.task = frame.task
  PROVE  Sense' /\ Deaths' /\ Execs' /\ StepState'
  <1>1. \A q \in Pids : Regular(kern[q])
    BY DEF Halted, Balance
  <1>2. \A q \in Pids \ {p} : SameEvent(task[q], task'[q]) /\ SameStop(kern[q], kern'[q])
    BY DEF SameEvent, SameStop, Alike
  <1>3. \A q \in Pids : Skipped(pc', frame', q) => Skipped(pc, frame, q)
    BY DEF Skipped
  <1>4. \A q \in Pids : Skipped(pc, frame, q) => task[q].stopped
    BY DEF Skipped, Skips, Owns, Sound, Handled
  <1>5. \A l : ~Emptied(pc, frame, l)
    BY DEF Emptied
  <1>6. ASSUME NEW q \in Pids
        PROVE  /\ Move(task[q], kern[q], task'[q], kern'[q])
               /\ Careful(task[q], kern[q], task'[q], kern'[q], kern'[kern[q].tgid], kern[q].tgid, q,
                          Skipped(pc, frame, q), Skipped(pc', frame', q),
                          Emptied(pc, frame, kern[q].tgid), Emptied(pc', frame', kern[q].tgid))
    <2>1. CASE q # p
      <3>1. /\ Stays(task[q], kern[q], task'[q], kern'[q]) /\ Move(task[q], kern[q], task'[q], kern'[q])
            /\ ~Reported(task[q], kern[q], task'[q], kern'[q])
            /\ ~Continued(task[q], kern[q], task'[q], kern'[q])
            /\ ~Destroyed(task[q], kern[q], task'[q], kern'[q])
        BY <1>1, <1>2, <2>1, LeftAlone
      <3> QED BY <1>3, <1>5, <3>1 DEF Careful
    <2>2. CASE q = p
      <3>1. Move(task[p], kern[p], task'[p], kern'[p])
        BY DEF Move
      <3>2. /\ ~Destroyed(task[p], kern[p], task'[p], kern'[p])
            /\ ~Continued(task[p], kern[p], task'[p], kern'[p])
        BY DEF Noticed, Dropped, Overtaken, Reported, Destroyed, Continued, SameEvent
      <3>3. ~Stepped(task[p], kern[p], task'[p], kern'[p])
        <4>1. kern[p].status # "none" /\ kern'[p].status = "none"
              /\ kern[p].st \in {"stopped", "zombie"}
          BY <1>1 DEF Noticed, Dropped, Overtaken, Reported, Collected, Regular
        <4>2. kern'[p].st \in {"stopped", "gone"}
          BY <1>1, <4>1 DEF Noticed, Dropped, Overtaken, Reported, Collected
        <4> QED BY <4>1, <4>2 DEF Stepped, RunsOn
      <3>4. Reported(task[p], kern[p], task'[p], kern'[p]) =>
              Overtaken(task[p], kern[p], task'[p], kern'[p]) \/ ~task[p].stopped
        BY DEF Noticed, Dropped, Reported
      <3> QED BY <1>3, <1>4, <1>5, <2>2, <3>1, <3>2, <3>3, <3>4 DEF Careful
    <2> QED BY <2>1, <2>2
  <1> QED BY <1>6, MovesKeep

\* wait_event, the status of a pid the tracer does not know.
LEMMA WaitUnknownSound ==
  ASSUME IInv, Halted, Sound, NEW p \in Pids, WaitUnknown(p)
  PROVE  Sound'
  <1>1. /\ pc \in {"main", "stop"} /\ pc' = pc /\ frame' = frame /\ event_head' = event_head
        /\ replies' = replies
        /\ ~task[p].known /\ kern[p].status # "none" /\ kern' = Reap(kern, p)
    BY DEF WaitUnknown, Waiting, MainLoop, WaitReady
  <1>2. task \in [Pids -> TaskRec] /\ (\A q \in Pids : task[q].stopped => task[q].known)
    BY DEF IInv, TaskFacts, GoodTask
  <1>3. Collected(kern[p], kern'[p]) /\ \A q \in Pids \ {p} : kern'[q] = kern[q]
    BY <1>1, ReapAt DEF IInv
  <1>4. \A q \in Pids \ {p} : task'[q] = task[q]
    BY <1>2 DEF WaitUnknown, task_new
  <1>5. Noticed(task[p], kern[p], task'[p], kern'[p]) \/ Dropped(task[p], kern[p], task'[p], kern'[p])
    <2>1. CASE ~CanInit(p)
      <3>1. task' = task
        BY <2>1 DEF WaitUnknown
      <3> QED BY <1>1, <1>3, <3>1 DEF Dropped, SameEvent
    <2>2. CASE CanInit(p)
      <3>1. task_new(task, p, LeaderOf(p))[p] =
              [NoTask EXCEPT !.known = TRUE, !.leader = LeaderOf(p), !.is_new = TRUE]
        BY <1>2 DEF task_new
      <3>2. CASE kern[p].status = "exited"
        <4>1. task' = task_new(task, p, LeaderOf(p))
          BY <2>2, <3>2 DEF WaitUnknown
        <4>2. task'[p].known /\ task'[p].is_new /\ task'[p].defer = NoPid /\ ~task'[p].stopped
              /\ task'[p].event = "NONE"
          BY <3>1, <4>1 DEF NoTask
        <4> QED BY <1>1, <1>3, <3>2, <4>2 DEF Noticed
      <3>3. CASE kern[p].status # "exited"
        <4>1. task' = [task_new(task, p, LeaderOf(p)) EXCEPT ![p].stopped = TRUE, ![p].event = "NEW"]
          BY <2>2, <3>3 DEF WaitUnknown
        <4>2. task'[p].known /\ task'[p].is_new /\ task'[p].defer = NoPid /\ task'[p].stopped
              /\ task'[p].event = "NEW"
          BY <1>2, <3>1, <4>1 DEF task_new, NoTask
        <4> QED BY <1>1, <1>3, <3>3, <4>2 DEF Noticed
      <3> QED BY <3>2, <3>3
    <2> QED BY <2>1, <2>2
  <1>6. Sense' /\ Deaths' /\ Execs' /\ StepState'
    BY <1>1, <1>3, <1>4, <1>5, CollectsSound
  <1>7. Queued' = Queued /\ Queued \subseteq Pids /\ replies \subseteq Pids
    BY <1>1 DEF Queued, IInv, Rest
  <1>8. p \notin Queued /\ p \notin replies /\ (Owns(pc, frame) => frame.task # p)
    BY <1>1, <1>2 DEF Sound, QueueSound, Answers, Handled
  <1>9. QueueSound'
    BY <1>1, <1>4, <1>7, <1>8 DEF Sound, QueueSound
  <1>10. Answers'
    BY <1>1, <1>3, <1>4, <1>7, <1>8 DEF Sound, Answers
  <1>11. Handled'
    <2>1. Skips(pc, frame) => Owns(pc, frame)
      BY DEF Skips, Owns
    <2> QED BY <1>1, <1>4, <1>7, <1>8, <2>1 DEF Sound, Handled
  <1>12. Loop'
    BY <1>1, <1>4 DEF Sound, Loop, IInv, FrameFacts
  <1> QED BY <1>1, <1>6, <1>9, <1>10, <1>11, <1>12 DEF Sound, AssertsHold, Emptying

\* wait_event, a stopped task was killed.
LEMMA WaitStoppedSound ==
  ASSUME IInv, Halted, Sound, NEW p \in Pids, WaitStopped(p)
  PROVE  Sound'
  <1>1. pc \in {"main", "stop"} /\ task[p].known /\ task[p].stopped /\ kern[p].status # "none"
    BY DEF WaitStopped, Waiting, MainLoop, WaitReady
  <1>2. kern[p].status \in {"exited", "event_exit"}
    BY <1>1 DEF Halted, Balance, Stepping, Agree, Last
  <1>3. /\ kern' = Reap(kern, p) /\ pc' = pc /\ frame' = frame /\ event_head' = event_head
        /\ replies' = replies
        /\ task' = [task EXCEPT ![p].event = IF kern[p].status = "exited" THEN "EXIT" ELSE "ABOUT_EXIT"]
    BY <1>2 DEF WaitStopped
  <1>4. task \in [Pids -> TaskRec] /\ task[p] \in TaskRec
    BY DEF IInv, TaskFacts
  <1>5. /\ task'[p].known = task[p].known /\ task'[p].stopped = task[p].stopped
        /\ task'[p].is_new = task[p].is_new
        /\ task'[p].defer = task[p].defer /\ task'[p].leader = task[p].leader
        /\ task'[p].event = IF kern[p].status = "exited" THEN "EXIT" ELSE "ABOUT_EXIT"
        /\ \A q \in Pids \ {p} : task'[q] = task[q]
    BY <1>3, <1>4 DEF TaskRec
  <1>6. Collected(kern[p], kern'[p]) /\ \A q \in Pids \ {p} : kern'[q] = kern[q]
    BY <1>1, <1>3, ReapAt DEF IInv
  <1>7. Overtaken(task[p], kern[p], task'[p], kern'[p])
    BY <1>1, <1>2, <1>5, <1>6 DEF Overtaken
  <1>8. Sense' /\ Deaths' /\ Execs' /\ StepState'
    BY <1>1, <1>3, <1>5, <1>6, <1>7, CollectsSound
  <1>9. Queued' = Queued /\ Queued \subseteq Pids /\ replies \subseteq Pids
    BY <1>3 DEF Queued, IInv, Rest
  <1>10. QueueSound'
    BY <1>3, <1>5, <1>9 DEF Sound, QueueSound
  <1>11. Answers'
    BY <1>3, <1>5, <1>6, <1>9 DEF Sound, Answers, Collected
  <1>12. Handled'
    <2>1. Skips(pc, frame) => Owns(pc, frame)
      BY DEF Skips, Owns
    <2> QED BY <1>3, <1>5, <1>9, <2>1 DEF Sound, Handled
  <1>13. Loop'
    BY <1>3, <1>5 DEF Sound, Loop, IInv, FrameFacts
  <1> QED BY <1>1, <1>3, <1>8, <1>10, <1>11, <1>12, <1>13 DEF Sound, AssertsHold, Emptying

\* The event of a status, for a program that creates no tasks.
LEMMA EventMeans ==
  ASSUME NEW p \in Pids, NEW s \in Status, s \notin Births
  PROVE  Means(EventOf(p, s), s, task[p].is_new) /\ EventOf(p, s) # "NONE"
  BY DEF Means, EventOf, Status, Births

\* wait_event of a running task: nobody has it, and it is handled or queued.
LEMMA WaitProcessSound ==
  ASSUME IInv, Halted, Sound, NEW p \in Pids, WaitProcess(p)
  PROVE  Sound'
  <1> DEFINE s == kern[p].status
             T == [task EXCEPT ![p].stopped = TRUE, ![p].event = EventOf(p, s),
                               ![p].newpid = NoPid]
  <1>1. pc \in {"main", "stop"} /\ task[p].known /\ ~task[p].stopped /\ s # "none"
    BY DEF WaitProcess, Waiting, MainLoop, WaitReady
  <1>2. task[p].event = "NONE" /\ s \notin Births /\ s \in Status
    BY <1>1 DEF Sound, Sense, Meant, Passage, IInv, KernelFacts, KTask
  <1>3. /\ kern' = Reap(kern, p) /\ task' = T /\ Return(p) /\ replies' = replies
    BY <1>2 DEF WaitProcess, Births
  <1>4. task \in [Pids -> TaskRec] /\ task[p] \in TaskRec
    BY DEF IInv, TaskFacts
  <1>5. Means(EventOf(p, s), s, task[p].is_new) /\ EventOf(p, s) # "NONE"
    BY <1>2, EventMeans
  <1>6. /\ task'[p].known = task[p].known /\ task'[p].stopped = TRUE /\ task'[p].is_new = task[p].is_new
        /\ task'[p].defer = task[p].defer /\ task'[p].leader = task[p].leader
        /\ task'[p].event = EventOf(p, s)
        /\ \A q \in Pids \ {p} : task'[q] = task[q]
    BY <1>3, <1>4 DEF TaskRec
  <1>7. Collected(kern[p], kern'[p]) /\ \A q \in Pids \ {p} : kern'[q] = kern[q]
    BY <1>1, <1>3, ReapAt DEF IInv
  <1>8. Reported(task[p], kern[p], task'[p], kern'[p])
    BY <1>1, <1>5, <1>6, <1>7 DEF Reported
  <1>9. p \notin Queued /\ p \notin replies /\ (Owns(pc, frame) => frame.task # p)
    BY <1>1 DEF Sound, QueueSound, Answers, Handled
  <1>10. event_head \in Seq(Pids) /\ Once(event_head) /\ Queued = Listed(event_head)
         /\ replies \subseteq Pids
         /\ Queued \subseteq Pids
    BY DEF IInv, Rest, Sound, QueueSound, Once, Queued, Listed
  <1>11. CASE pc = "stop"
    <2>1. event_head' = Append(event_head, p) /\ pc' = pc /\ frame' = frame
      BY <1>3, <1>11 DEF Return
    <2>2. Once(event_head') /\ Listed(event_head') = Queued \cup {p}
      BY <1>9, <1>10, <2>1, AppendOnce
    <2>3. Queued' = Queued \cup {p}
      BY <2>2 DEF Queued, Listed
    <2>4. Sense' /\ Deaths' /\ Execs' /\ StepState'
      BY <1>1, <1>6, <1>7, <1>8, <2>1, CollectsSound
    <2>5. QueueSound'
      <3>1. \A q \in Queued : task[q].known /\ task[q].stopped /\ task[q].event # "NONE"
        BY DEF Sound, QueueSound
      <3>2. \A q \in Queued' : task'[q].known /\ task'[q].stopped /\ task'[q].event # "NONE"
        BY <1>1, <1>5, <1>6, <1>9, <1>10, <2>3, <3>1
      <3>3. \A i, j \in DOMAIN event_head' : event_head'[i] = event_head'[j] => i = j
        BY <2>2 DEF Once
      <3> QED BY <3>2, <3>3 DEF QueueSound
    <2>6. Answers'
      BY <1>3, <1>6, <1>7, <1>9, <1>10, <2>3 DEF Sound, Answers
    <2>7. Handled'
      <3>1. Skips(pc, frame) => Owns(pc, frame)
        BY DEF Skips, Owns
      <3> QED BY <1>3, <1>6, <1>9, <2>1, <2>3, <3>1 DEF Sound, Handled
    <2>8. Loop'
      BY <1>6, <2>1 DEF Sound, Loop, IInv, FrameFacts
    <2> QED BY <1>11, <2>1, <2>4, <2>5, <2>6, <2>7, <2>8 DEF Sound, AssertsHold, Emptying
  <1>12. CASE pc # "stop"
    <2>1. event_head' = event_head /\ pc' = "handle" /\ frame' = [NoFrame EXCEPT !.task = p]
      BY <1>3, <1>12 DEF Return
    <2>2. frame'.task = p
      BY <2>1 DEF NoFrame
    <2>3. Sense' /\ Deaths' /\ Execs' /\ StepState'
      <3>1. ~Skips(pc', frame')
        BY <2>1 DEF Skips
      <3> QED BY <1>1, <1>6, <1>7, <1>8, <2>1, <3>1, CollectsSound
    <2>4. Queued' = Queued
      BY <2>1 DEF Queued
    <2>5. QueueSound'
      BY <1>6, <1>9, <1>10, <2>1, <2>4 DEF Sound, QueueSound
    <2>6. Answers'
      BY <1>3, <1>6, <1>7, <1>9, <1>10, <2>4 DEF Sound, Answers
    <2>7. Handled'
      BY <1>3, <1>6, <1>9, <2>1, <2>2, <2>4 DEF Handled, Skips
    <2> QED BY <2>1, <2>3, <2>5, <2>6, <2>7 DEF Sound, AssertsHold, Loop, Emptying
  <1> QED BY <1>11, <1>12

-----------------------------------------------------------------------------
(* The single step.                                                        *)

\* The deaths of a group seen from a task that is not concerned.
LEMMA WakeMono ==
  ASSUME NEW t, NEW t2, NEW k, NEW k2, NEW kl, NEW kl2, NEW s, NEW s2, NEW d, NEW d2,
         SameEvent(t, t2), SameStop(k, k2), Doomed(kl) => Doomed(kl2), s2 => s, d => d2,
         Wake(t, k, kl, s, d)
  PROVE  Wake(t2, k2, kl2, s2, d2)
  BY DEF Wake, SameEvent, SameStop, Alike, Dead

\* The tracer is not busy with q, neither before nor after a step.
Apart(q) ==
  /\ frame.task # q /\ ~Skipped(pc', frame', q) /\ ~Stepping(q)
  /\ ~(pc' = "step" /\ frame'.task = q)

\* A step that moves one task, p, and leaves the others alone.
LEMMA OneMove ==
  ASSUME IInv, Halted, Sound, pc # "destroy", pc' # "destroy", NEW p \in Pids,
         Move(task[p], kern[p], task'[p], kern'[p]),
         ~Destroyed(task[p], kern[p], task'[p], kern'[p]),
         \A q \in Pids \ {p} : task'[q] = task[q] /\ kern'[q] = kern[q],
         \A q \in Pids \ {p} : Apart(q),
         ~(pc' = "step" /\ frame'.task = p) /\ kern[p].st # "absent" /\ kern[p].tgid \in Pids =>
           Wake(task'[p], kern'[p], kern'[kern[p].tgid], Skipped(pc', frame', p), FALSE),
         (task'[p].stopped /\ task'[p].event = "EXEC") \/ kern'[p].status = "exec" =>
            /\ kern'[p].st = "stopped" 
            /\ (task[p].stopped /\ task[p].event = "EXEC") \/ kern[p].status = "exec"
  PROVE  Sense' /\ Deaths' /\ Execs'
  <1>1. ASSUME NEW q \in Pids
        PROVE  /\ Regular(kern[q]) /\ Passage(kern[q], q) /\ Meant(task[q], kern[q], q)
               /\ (task[q].stopped => task[q].known) /\ Move(task[q], kern[q], task'[q], kern'[q])
               /\ ~Destroyed(task[q], kern[q], task'[q], kern'[q])
               /\ MoveResult(kern[q], kern'[q])
    <2>1. Regular(kern[q]) /\ GoodTask(task[q], kern[q], q)
      BY DEF IInv, TaskFacts, Halted, Balance
    <2>2. /\ Move(task[q], kern[q], task'[q], kern'[q])
          /\ ~Destroyed(task[q], kern[q], task'[q], kern'[q])
      <3>1. CASE q # p
        <4>1. SameEvent(task[q], task'[q]) /\ SameStop(kern[q], kern'[q])
          BY <3>1 DEF SameEvent, SameStop, Alike
        <4> QED BY <2>1, <4>1, LeftAlone
      <3> QED BY <3>1
    <2>3. MoveResult(kern[q], kern'[q])
      BY <2>1, <2>2, MoveDoomed
    <2> QED BY <2>1, <2>2, <2>3 DEF Sound, Sense, GoodTask
  <1>2. Sense'
    <2> SUFFICES ASSUME NEW q \in Pids PROVE Passage(kern'[q], q) /\ Meant(task'[q], kern'[q], q)
      BY DEF Sense
    <2>1. Passage(kern'[q], q)
      BY <1>1, MovePassage
    <2>2. Meant(task'[q], kern'[q], q)
      BY <1>1, MoveMeant
    <2> QED BY <2>1, <2>2
  <1>3. \A l : ~Emptied(pc, frame, l) /\ ~Emptied(pc', frame', l)
    BY DEF Emptied
  <1>4. Deaths'
    <2> SUFFICES ASSUME NEW q \in Pids, kern'[q].st # "absent"
                 PROVE  LET l == kern'[q].tgid
                        IN /\ kern'[q].dying /\ kern'[q].st # "gone" =>
                                l = q \/ Doomed(kern'[l]) \/ kern'[l].st = "execing"
                           /\ ~Stepping(q)' => Wake(task'[q], kern'[q], kern'[l], Skipped(pc', frame', q),
                                                    Emptied(pc', frame', l))
      BY DEF Deaths
    <2> DEFINE l == kern[q].tgid
    <2>1. kern[q].st # "absent" /\ kern'[q].tgid = l /\ l \in Pids
      BY <1>1 DEF MoveResult, IInv, KernelFacts
    <2>2. /\ kern[q].dying /\ kern[q].st # "gone" => l = q \/ Doomed(kern[l]) \/ kern[l].st = "execing"
          /\ ~Stepping(q) => Wake(task[q], kern[q], kern[l], Skipped(pc, frame, q), Emptied(pc, frame, l))
      BY <2>1 DEF Sound, Deaths
    <2>3. MoveResult(kern[q], kern'[q]) /\ MoveResult(kern[l], kern'[l])
      BY <1>1, <2>1
    <2>4. kern'[q].dying /\ kern'[q].st # "gone" => l = q \/ Doomed(kern'[l]) \/ kern'[l].st = "execing"
      BY <2>2, <2>3 DEF MoveResult
    <2>5. ASSUME ~Stepping(q)'
          PROVE  Wake(task'[q], kern'[q], kern'[l], Skipped(pc', frame', q), Emptied(pc', frame', l))
      <3>1. Emptied(pc', frame', l) = FALSE
        BY DEF Emptied
      <3>2. CASE q = p
        BY <2>1, <2>5, <3>1, <3>2 DEF Stepping
      <3>3. CASE q # p
        <4>1. ~Stepping(q) /\ ~Skipped(pc', frame', q) /\ Emptied(pc, frame, l) = FALSE
          BY <3>3 DEF Emptied, Stepping, Apart
        <4>2. SameEvent(task[q], task'[q]) /\ SameStop(kern[q], kern'[q])
          BY <3>3 DEF SameEvent, SameStop, Alike
        <4>3. Doomed(kern[l]) => Doomed(kern'[l])
          BY <2>3 DEF MoveResult
        <4>4. Wake(task[q], kern[q], kern[l], Skipped(pc, frame, q), Emptied(pc, frame, l))
          BY <2>2, <4>1
        <4> HIDE DEF l
        <4> QED BY <3>1, <4>1, <4>2, <4>3, <4>4, WakeMono
      <3> QED BY <3>2, <3>3
    <2> QED BY <2>1, <2>4, <2>5
  <1>5. Execs'
    <2> SUFFICES ASSUME NEW q \in Pids,
                        (task'[q].stopped /\ task'[q].event = "EXEC") \/ kern'[q].status = "exec"
                 PROVE  kern'[q].st = "stopped" /\ ~kern'[q].dying /\ ~kern'[q].exiting /\ Alone(kern', q)
      BY DEF Execs
    <2>1. (task[q].stopped /\ task[q].event = "EXEC") \/ kern[q].status = "exec"
      BY DEF SameEvent
    <2>2. kern[q].st = "stopped" /\ ~kern[q].dying /\ ~kern[q].exiting /\ Alone(kern, q)
      BY <2>1 DEF Sound, Execs
    <2>3. kern'[q].st = "stopped"
      BY <2>2
    <2>4. Alone(kern', q)
      BY <1>1, <2>2 DEF Alone, MoveResult
    <2> QED BY <1>1, <2>2, <2>3, <2>4 DEF MoveResult
  <1> QED BY <1>2, <1>4, <1>5

\* handle_singlestep
LEMMA SingleStepSound ==
  ASSUME IInv, Halted, Sound, SingleStep
  PROVE  Sound'
  <1> DEFINE p == frame.task
             l == kern[p].tgid
  <1>1. pc = "stop" /\ frame.cont = "disable"
    BY DEF SingleStep, StopDone
  <1>2. /\ p \in Pids /\ p \notin Queued /\ p \notin replies /\ task[p].stopped /\ ~task[p].is_new
        /\ Skipped(pc, frame, p)
    BY <1>1 DEF Sound, Handled, Owns, Skips, Skipped
  <1>3. /\ task' = [task EXCEPT ![p].event = "NONE"] /\ kern' = Resume(kern, p, "stepping")
        /\ event_head' = event_head /\ replies' = replies
        /\ IF kern[p].st = "stopped" THEN pc' = "step" /\ frame' = frame
           ELSE pc' = "stop" /\ frame' = [frame EXCEPT !.cont = "requeue"]
    BY <1>1, <1>2 DEF SingleStep
  <1>4. task[p].known /\ task \in [Pids -> TaskRec] /\ task[p] \in TaskRec
    BY <1>2 DEF IInv, TaskFacts, GoodTask
  <1>5. /\ task'[p].known = task[p].known /\ task'[p].stopped = task[p].stopped /\ task'[p].event = "NONE"
        /\ task'[p].defer = task[p].defer /\ task'[p].is_new = task[p].is_new
        /\ task'[p].leader = task[p].leader
        /\ \A q \in Pids \ {p} : task'[q] = task[q]
    BY <1>2, <1>3, <1>4 DEF TaskRec
  <1>6. /\ RunsOn(kern[p], kern'[p], "stepping")
        /\ \A q \in Pids \ {p} : kern'[q] = kern[q]
    BY <1>2, <1>3, ResumeAt DEF IInv
  <1>7. Stepped(task[p], kern[p], task'[p], kern'[p])
    BY <1>2, <1>4, <1>5, <1>6 DEF Stepped
  <1>8. frame'.task = p /\ frame'.leader = frame.leader
    BY <1>3 DEF IInv, Rest, Frame
  <1>9. kern[p].st # "stopped" => frame'.cont = "requeue"
    BY <1>3 DEF IInv, Rest, Frame
  <1>10. ~Stepping(p)
    BY <1>1 DEF Stepping
  <1>11. Wake(task[p], kern[p], kern[l], TRUE, FALSE) /\ l \in Pids
    <2>1. kern[p].st # "absent"
      BY <1>2, <1>4 DEF IInv, TaskFacts, GoodTask
    <2>2. Skipped(pc, frame, p) = TRUE /\ Emptied(pc, frame, l) = FALSE
      BY <1>1, <1>2 DEF Skipped, Skips, Emptied
    <2>3. Wake(task[p], kern[p], kern[l], Skipped(pc, frame, p), Emptied(pc, frame, l))
      BY <1>2, <1>10, <2>1 DEF Sound, Deaths
    <2>4. l \in Pids
      BY <1>2, <2>1 DEF IInv, KernelFacts
    <2> QED BY <2>2, <2>3, <2>4
  <1>12. Regular(kern[p]) /\ Regular(kern[l])
    BY <1>2, <1>11 DEF Halted, Balance
  <1>13. ASSUME ~(pc' = "step" /\ frame'.task = p)
         PROVE  Wake(task'[p], kern'[p], kern'[l], Skipped(pc', frame', p), FALSE)
    <2>1. kern[p].st # "stopped" /\ pc' = "stop" /\ frame'.cont = "requeue"
      BY <1>3, <1>8, <1>9, <1>13
    <2>2. ~Skipped(pc', frame', p)
      BY <2>1 DEF Skipped, Skips
    <2>3. kern'[p].st = kern[p].st /\ kern'[p].dying = kern[p].dying /\ kern'[p].exiting = kern[p].exiting
      BY <1>6, <2>1 DEF RunsOn, Alike
    <2>4. Doomed(kern[l]) => Doomed(kern'[l])
      BY <1>6, <1>11, <2>3 DEF Doomed, Dead
    <2> QED BY <1>2, <1>4, <1>5, <1>11, <2>2, <2>3, <2>4 DEF Wake, Dead
  <1>14. Sense' /\ Deaths' /\ Execs'
    <2>1. Move(task[p], kern[p], task'[p], kern'[p]) /\ ~Destroyed(task[p], kern[p], task'[p], kern'[p])
      BY <1>7 DEF Move, Stepped, Destroyed
    <2>2. \A q \in Pids \ {p} : Apart(q)
      BY <1>8 DEF Skipped, Skips, Stepping, Apart
    <2>3. task'[p].event # "EXEC" /\ kern'[p].status # "exec"
      <3>1. kern[p].status = "exec" => kern[p].st = "stopped"
        BY <1>2 DEF Sound, Execs
      <3> QED BY <1>5, <1>6, <3>1 DEF RunsOn
    <2>4. pc # "destroy" /\ pc' # "destroy"
      BY <1>1, <1>3
    <2> QED BY <1>2, <1>5, <1>6, <1>13, <2>1, <2>2, <2>3, <2>4, OneMove
  <1>15. StepState'
    BY <1>2, <1>3, <1>6, <1>8 DEF StepState, RunsOn
  <1>16. Queued' = Queued /\ Queued \subseteq Pids /\ replies \subseteq Pids
    BY <1>3 DEF Queued, IInv, Rest
  <1>17. QueueSound'
    BY <1>2, <1>3, <1>5, <1>16 DEF Sound, QueueSound
  <1>18. Answers'
    BY <1>2, <1>3, <1>5, <1>6, <1>16 DEF Sound, Answers
  <1>19. Handled'
    BY <1>2, <1>3, <1>5, <1>8, <1>9, <1>16 DEF Handled, Owns, Skips
  <1>20. Loop'
    BY <1>3, <1>9 DEF Loop
  <1> QED BY <1>3, <1>14, <1>15, <1>17, <1>18, <1>19, <1>20 DEF Sound, AssertsHold, Emptying

\* The status after the single step.
LEMMA StepDoneSound ==
  ASSUME IInv, Halted, Sound, StepDone
  PROVE  Sound'
  <1> DEFINE p == frame.task
             s == kern[p].status
             l == kern[p].tgid
  <1>1. /\ pc = "step" /\ s # "none" /\ kern' = Reap(kern, p) /\ pc' = "stop" /\ replies' = replies
        /\ task' = [task EXCEPT ![p].event = EventOf(p, s),
                                ![p].newpid = IF s \in {"clone", "fork"} THEN kern[p].child ELSE NoPid]
        /\ event_head' = IF s = "trap" THEN event_head ELSE Append(event_head, p)
        /\ frame' = [frame EXCEPT !.cont = IF s = "trap" THEN "enable" ELSE "requeue"]
    BY DEF StepDone, WaitReady
  <1>2. /\ p \in Pids /\ p \notin Queued /\ p \notin replies /\ task[p].stopped /\ ~task[p].is_new
    BY <1>1 DEF Sound, Handled, Owns, Skips
  <1>3. task[p].known /\ task \in [Pids -> TaskRec] /\ task[p] \in TaskRec /\ kern[p].st # "absent"
        /\ s \in Status
    BY <1>2 DEF IInv, TaskFacts, GoodTask, KernelFacts, KTask
  <1>4. /\ task'[p].known = task[p].known /\ task'[p].stopped = task[p].stopped
        /\ task'[p].event = EventOf(p, s)
        /\ task'[p].defer = task[p].defer /\ task'[p].is_new = task[p].is_new
        /\ \A q \in Pids \ {p} : task'[q] = task[q]
    BY <1>1, <1>2, <1>3 DEF TaskRec
  <1>5. Collected(kern[p], kern'[p]) /\ \A q \in Pids \ {p} : kern'[q] = kern[q]
    BY <1>1, <1>2, ReapAt DEF IInv
  <1>6. s \notin Births /\ Regular(kern[p]) /\ Passage(kern[p], p)
    BY <1>2 DEF Sound, Sense, Passage, Halted, Balance
  <1>7. Means(EventOf(p, s), s, task[p].is_new) /\ EventOf(p, s) # "NONE"
    BY <1>2, <1>3, <1>6, EventMeans
  <1>8. Reported(task[p], kern[p], task'[p], kern'[p])
    BY <1>2, <1>3, <1>4, <1>5, <1>7 DEF Reported
  <1>9. frame'.task = p /\ pc' = "stop" /\ frame'.cont = IF s = "trap" THEN "enable" ELSE "requeue"
    BY <1>1 DEF IInv, Rest, Frame
  <1>10. Wake(task'[p], kern'[p], kern'[l], Skipped(pc', frame', p), FALSE)
    <2>1. Skipped(pc', frame', p) => s = "trap"
      BY <1>9 DEF Skipped, Skips
    <2>2. s \in {"exited", "event_exit"} => EventOf(p, s) \in Exits
      BY <1>7 DEF Means, Exits
    <2>3. kern'[p].exiting => s \in {"exited", "event_exit"}
      BY <1>1, <1>3, <1>5, <1>6 DEF Collected, Passage, Births, Status
    <2>4. Dead(kern'[p]) => s = "exited"
      BY <1>5, <1>6 DEF Collected, Regular, Dead
    <2> QED BY <1>2, <1>3, <1>4, <2>1, <2>2, <2>3, <2>4 DEF Wake
  <1>11. Sense' /\ Deaths' /\ Execs'
    <2>1. Move(task[p], kern[p], task'[p], kern'[p]) /\ ~Destroyed(task[p], kern[p], task'[p], kern'[p])
      BY <1>8 DEF Move, Reported, Destroyed
    <2>2. \A q \in Pids \ {p} : Apart(q)
      BY <1>9 DEF Skipped, Skips, Stepping, Apart
    <2>3. ASSUME (task'[p].stopped /\ task'[p].event = "EXEC") \/ kern'[p].status = "exec"
          PROVE  kern'[p].st = "stopped" /\ kern[p].status = "exec"
      <3>1. task'[p].event = "EXEC"
        BY <1>5, <2>3 DEF Collected
      <3>2. s = "exec"
        BY <1>4, <1>7, <3>1 DEF Means
      <3>3. kern[p].st = "stopped"
        BY <1>2, <3>2 DEF Sound, Execs
      <3> QED BY <1>5, <3>2, <3>3 DEF Collected
    <2>4. pc # "destroy" /\ pc' # "destroy"
      BY <1>1
    <2> QED BY <1>2, <1>4, <1>5, <1>10, <2>1, <2>2, <2>3, <2>4, OneMove
  <1>12. event_head \in Seq(Pids) /\ Once(event_head) /\ Queued = Listed(event_head)
         /\ replies \subseteq Pids
         /\ Queued \subseteq Pids
    BY DEF IInv, Rest, Sound, QueueSound, Once, Queued, Listed
  <1>13. Once(event_head') /\ Listed(event_head') = IF s = "trap" THEN Queued ELSE Queued \cup {p}
    <2>1. Once(Append(event_head, p)) /\ Listed(Append(event_head, p)) = Queued \cup {p}
      BY <1>2, <1>12, AppendOnce
    <2> QED BY <1>1, <1>12, <2>1
  <1>14. Queued' = IF s = "trap" THEN Queued ELSE Queued \cup {p}
    BY <1>13 DEF Queued, Listed
  <1>15. QueueSound'
    <2>1. \A q \in Queued : task[q].known /\ task[q].stopped /\ task[q].event # "NONE"
      BY DEF Sound, QueueSound
    <2>2. \A q \in Queued' : task'[q].known /\ task'[q].stopped /\ task'[q].event # "NONE"
      BY <1>2, <1>3, <1>4, <1>7, <1>12, <1>14, <2>1
    <2>3. \A i, j \in DOMAIN event_head' : event_head'[i] = event_head'[j] => i = j
      BY <1>13 DEF Once
    <2> QED BY <2>2, <2>3 DEF QueueSound
  <1>16. Answers'
    BY <1>1, <1>2, <1>4, <1>5, <1>12, <1>14 DEF Sound, Answers
  <1>17. Handled'
    <2>1. Owns(pc', frame') => s = "trap"
      BY <1>9 DEF Owns
    <2>2. Skips(pc', frame') => Owns(pc', frame')
      BY DEF Owns, Skips
    <2>3. s = "trap" => p \notin Queued' /\ p \notin replies'
      BY <1>1, <1>2, <1>14
    <2> QED BY <1>2, <1>4, <1>9, <2>1, <2>2, <2>3 DEF Handled
  <1>18. Loop' /\ StepState' /\ Emptying'
    BY <1>1, <1>9 DEF Loop, StepState, Emptying
  <1> QED BY <1>1, <1>11, <1>15, <1>16, <1>17, <1>18 DEF Sound, AssertsHold

-----------------------------------------------------------------------------
(* The tracees, together.                                                  *)

\* What one step of a tracee keeps of its kernel task.
GoesResult(k, k2) ==
  /\ k2.tgid = k.tgid /\ (k2.st = "gone" <=> k.st = "gone") /\ (k2.st = "absent" <=> k.st = "absent")
  /\ k.exiting => k2.exiting
  /\ k.dying => k2.dying
  /\ Doomed(k) => Doomed(k2)
  /\ k2.st = "running" => k.st = "running" \/ k2.dying
  /\ k2.status = "exec" => k.status = "exec" \/ Executes(k, k2)
  /\ k2.exiting => k.exiting \/ k.st = "running"
  /\ Dead(k2) => Dead(k) \/ (k.st = "stopped" /\ k.exiting /\ k2.dying = k.dying /\ Killed(k, k2))
  /\ k2.dying => k.dying \/ Killed(k, k2)
  /\ k.st = "execing" => k2.st = "execing" \/ k2.dying \/ Executes(k, k2)

\* Whatever a tracee does by itself, it is not revived.
LEMMA GoesOn ==
  ASSUME NEW k, NEW k2, NEW p, Goes(k, k2, p)
  PROVE  GoesResult(k, k2)
  <1>1. CASE SameStop(k, k2)
    BY <1>1 DEF SameStop, Alike, GoesResult, Doomed, Dead
  <1>2. CASE Halts(k, k2)
    BY <1>2 DEF Halts, Alike, GoesResult, Doomed, Dead
  <1>3. CASE Leaves(k, k2)
    BY <1>3 DEF Leaves, Alike, GoesResult, Doomed, Dead
  <1>4. CASE Begins(k, k2)
    BY <1>4 DEF Begins, Alike, GoesResult, Doomed, Dead
  <1>5. CASE Executes(k, k2)
    <2>1. /\ k2.tgid = k.tgid /\ k2.dying = k.dying /\ k2.exiting = k.exiting
          /\ k.st = "execing" /\ k2.st = "stopped" /\ k2.status = "exec"
      BY <1>5 DEF Executes, Alike
    <2> QED BY <1>5, <2>1 DEF GoesResult, Doomed, Dead
  <1>6. CASE Killed(k, k2)
    <2>1. k2.tgid = k.tgid /\ k2.exiting = k.exiting
      BY <1>6 DEF Killed
    <2>2. CASE ~Live(k) /\ SameStop(k, k2)
      BY <2>1, <2>2 DEF SameStop, Alike, GoesResult, Doomed, Dead
    <2>3. CASE /\ k.st = "stopped" /\ k.exiting /\ k2.dying = k.dying
               /\ k2.st = "zombie" /\ k2.status = "exited"
      BY <1>6, <2>1, <2>3 DEF GoesResult, Doomed, Dead
    <2>4. CASE /\ Live(k) /\ ~(k.st = "stopped" /\ k.exiting)
               /\ k2.st = "running" /\ k2.status = "none" /\ k2.dying
      BY <1>6, <2>1, <2>4 DEF GoesResult, Doomed, Dead, Live
    <2> QED BY <1>6, <2>2, <2>3, <2>4 DEF Killed
  <1> QED BY <1>1, <1>2, <1>3, <1>4, <1>5, <1>6 DEF Goes

\* A task that was killed is doomed.
LEMMA KilledDoomed ==
  ASSUME NEW k, NEW k2, Killed(k, k2), k.st \in KState \ {"absent"}
  PROVE  Doomed(k2)
  BY DEF Killed, Live, SameStop, Alike, Doomed, Dead, KState

\* Who moves when a tracee does.
Moves(p) ==
  \/ Only(p) /\ Halts(kern[p], kern'[p])
  \/ Only(p) /\ Executes(kern[p], kern'[p]) /\ \A q \in OthersOf(p) : kern[q].st = "gone"
  \/ Only(p) /\ Leaves(kern[p], kern'[p])
  \/ Slain(p) /\ Begins(kern[p], kern'[p]) /\ kern[p].tgid = p
  \/ Slain(p) /\ Leaves(kern[p], kern'[p]) /\ ~kern[p].dying /\ "exit_group" \in Ops

\* p takes the tasks of its group with it: it begins an exec or leaves.
Takes(p) ==
  /\ kern[p].st = "running" /\ \A r \in OthersOf(p) : Killed(kern[r], kern'[r])
  /\ kern'[p].exiting \/ (kern[p].tgid = p /\ kern'[p].st = "execing")

\* Every task goes on, and only the group of p is concerned.
LEMMA MovesGo ==
  ASSUME NEW p \in Pids, Moves(p), NEW q \in Pids
  PROVE  /\ Goes(kern[q], kern'[q], q) /\ GoesResult(kern[q], kern'[q])
         /\ q # p => kern'[q] = kern[q] \/ (Takes(p) /\ q \in OthersOf(p) /\ Killed(kern[q], kern'[q]))
         /\ Executes(kern[q], kern'[q]) => q = p /\ \A r \in OthersOf(p) : kern[r].st = "gone"
         /\ kern[p].st \notin {"stopped", "zombie", "gone", "absent"}
  <1>1. q # p => kern'[q] = kern[q] \/ (Takes(p) /\ q \in OthersOf(p) /\ Killed(kern[q], kern'[q]))
    <2>1. CASE Only(p)
      BY <2>1 DEF Only
    <2>2. CASE /\ Slain(p)
               /\ (Begins(kern[p], kern'[p]) /\ kern[p].tgid = p) \/ Leaves(kern[p], kern'[p])
      <3>1. kern[p].st = "running" /\ (kern'[p].exiting \/ (kern[p].tgid = p /\ kern'[p].st = "execing"))
        BY <2>2 DEF Begins, Leaves
      <3>2. \A r \in OthersOf(p) : r \in Pids \ {p}
        BY DEF OthersOf, Group
      <3>3. Takes(p)
        BY <2>2, <3>1, <3>2 DEF Slain, Takes
      <3> QED BY <2>2, <3>3 DEF Slain
    <2> QED BY <2>1, <2>2 DEF Moves
  <1>2. Goes(kern[q], kern'[q], q)
    <2>1. CASE q = p
      BY <2>1 DEF Moves, Goes
    <2>2. CASE q # p
      <3>1. kern'[q] = kern[q] => SameStop(kern[q], kern'[q])
        BY DEF SameStop, Alike
      <3> QED BY <1>1, <2>2, <3>1 DEF Goes
    <2> QED BY <2>1, <2>2
  <1>3. GoesResult(kern[q], kern'[q])
    BY <1>2, GoesOn
  <1>4. Executes(kern[q], kern'[q]) => q = p
    BY <1>1 DEF Executes, Killed, SameStop
  <1>5. Executes(kern[p], kern'[p]) => \A r \in OthersOf(p) : kern[r].st = "gone"
    BY DEF Moves, Executes, Halts, Leaves, Begins
  <1>6. kern[p].st \notin {"stopped", "zombie", "gone", "absent"}
    BY DEF Moves, Executes, Halts, Leaves, Begins
  <1> QED BY <1>1, <1>2, <1>3, <1>4, <1>5, <1>6

\* What happens to q and to its leader l in a step of the tracees.
LEMMA DyingKept ==
  ASSUME IInv, Halted, NEW p \in Pids, Moves(p), NEW q \in Pids, NEW l \in Pids,
         kern[q].st # "absent", kern[q].tgid = l,
         kern[q].dying /\ kern[q].st # "gone" => l = q \/ Doomed(kern[l]) \/ kern[l].st = "execing"
  PROVE  kern'[q].dying /\ kern'[q].st # "gone" => l = q \/ Doomed(kern'[l]) \/ kern'[l].st = "execing"
  <1> SUFFICES ASSUME kern'[q].dying, kern'[q].st # "gone", l # q
               PROVE  Doomed(kern'[l]) \/ kern'[l].st = "execing"
    OBVIOUS
  <1>1. kern[l].tgid = l /\ kern[l].st # "absent" /\ kern[l].st \in KState
    BY DEF Halted, Families, Kin, IInv, KernelFacts, KTask
  <1>2. GoesResult(kern[q], kern'[q]) /\ GoesResult(kern[l], kern'[l])
    BY MovesGo
  <1>3. kern[q].st # "gone"
    BY <1>2 DEF GoesResult
  <1>4. CASE kern[q].dying
    <2>1. CASE Doomed(kern[l])
      BY <1>2, <2>1 DEF GoesResult
    <2>2. CASE kern[l].st = "execing"
      <3>1. kern'[l].st = "execing" \/ kern'[l].dying \/ Executes(kern[l], kern'[l])
        BY <1>2, <2>2 DEF GoesResult
      <3>2. ~Executes(kern[l], kern'[l])
        <4> SUFFICES ASSUME Executes(kern[l], kern'[l]) PROVE FALSE
          OBVIOUS
        <4>1. l = p /\ \A r \in OthersOf(p) : kern[r].st = "gone"
          BY MovesGo
        <4>2. q \in OthersOf(p)
          BY <1>1, <4>1 DEF OthersOf, Group
        <4> QED BY <1>3, <4>1, <4>2
      <3> QED BY <3>1, <3>2 DEF Doomed
    <2> QED BY <1>3, <1>4, <2>1, <2>2
  <1>5. CASE ~kern[q].dying
    <2>1. q # p => Takes(p) /\ q \in OthersOf(p)
      BY <1>5, MovesGo
    <2>2. q # p
      BY <1>5, MovesGo DEF Moves, Halts, Executes, Leaves, Begins, Alike
    <2>3. Takes(p) /\ kern[p].tgid = l
      BY <2>1, <2>2 DEF OthersOf, Group
    <2>4. CASE l = p
      BY <2>3, <2>4 DEF Takes, Doomed
    <2>5. CASE l # p
      <3>1. l \in OthersOf(p)
        BY <1>1, <2>3, <2>5 DEF OthersOf, Group
      <3>2. Killed(kern[l], kern'[l])
        BY <2>3, <3>1 DEF Takes
      <3> QED BY <1>1, <3>2, KilledDoomed
    <2> QED BY <2>4, <2>5
  <1> QED BY <1>4, <1>5

\* The deaths of a group, seen from a task that is not being stepped.
LEMMA WakesKept ==
  ASSUME IInv, Halted, NEW p \in Pids, Moves(p), NEW q \in Pids, NEW l \in Pids,
         NEW s, NEW d, ~Stepping(q),
         kern[q].st # "absent", kern[q].tgid = l, Wake(task[q], kern[q], kern[l], s, d),
         kern[q].dying /\ kern[q].st # "gone" => l = q \/ Doomed(kern[l]) \/ kern[l].st = "execing"
  PROVE  Wake(task[q], kern'[q], kern'[l], s, d)
  <1>1. kern[l].tgid = l /\ kern[l].st # "absent" /\ kern[l].st \in KState
    BY DEF Halted, Families, Kin, IInv, KernelFacts, KTask
  <1>2. GoesResult(kern[q], kern'[q]) /\ GoesResult(kern[l], kern'[l])
    BY MovesGo
  <1>3. Doomed(kern[l]) => Doomed(kern'[l])
    BY <1>2 DEF GoesResult
  <1>4. task[q].known /\ task[q].stopped => Quiet(kern[q])
    BY DEF Halted, Balance, Agree
  <1>5. ASSUME task[q].known, task[q].stopped, kern'[q].exiting, ~kern'[q].dying
        PROVE  task[q].event \in Exits /\ ~s
    <2>1. ~kern[q].dying
      BY <1>2, <1>5 DEF GoesResult
    <2>2. kern[q].exiting
      BY <1>2, <1>4, <1>5, <2>1 DEF GoesResult, Quiet
    <2> QED BY <1>5, <2>1, <2>2 DEF Wake
  <1>6. ASSUME task[q].known, task[q].stopped, Dead(kern'[q])
        PROVE  Doomed(kern'[l]) \/ (task[q].event \in Exits /\ ~s)
    <2>1. CASE Dead(kern[q])
      BY <1>3, <1>6, <2>1 DEF Wake
    <2>2. CASE ~Dead(kern[q])
      <3>1. kern[q].st = "stopped" /\ kern[q].exiting /\ Killed(kern[q], kern'[q])
        BY <1>2, <1>6, <2>2 DEF GoesResult
      <3>2. CASE ~kern[q].dying
        BY <1>6, <3>1, <3>2 DEF Wake
      <3>3. CASE l = q \/ Doomed(kern[l])
        BY <1>3, <1>6, <3>3 DEF Doomed
      <3>4. CASE kern[l].st = "execing" /\ l # q
        <4>1. q # p => kern'[q] = kern[q] \/ (Takes(p) /\ q \in OthersOf(p))
          BY MovesGo
        <4>2. kern'[q] # kern[q] /\ q # p
          BY <1>6, <2>2, <3>1, MovesGo
        <4>3. Takes(p) /\ kern[p].tgid = l /\ kern[p].st = "running"
          BY <4>1, <4>2 DEF OthersOf, Group, Takes
        <4>4. l \in OthersOf(p)
          BY <1>1, <3>4, <4>3 DEF OthersOf, Group
        <4>5. Killed(kern[l], kern'[l])
          BY <4>3, <4>4 DEF Takes
        <4> QED BY <1>1, <4>5, KilledDoomed
      <3> QED BY <3>1, <3>2, <3>3, <3>4
    <2> QED BY <2>1, <2>2
  <1>7. task[q].known /\ ~task[q].stopped /\ kern'[q].st = "gone" => Doomed(kern'[l])
    BY <1>2, <1>3 DEF Wake, GoesResult
  <1>8. ~task[q].known /\ kern'[q].st # "gone" => Doomed(kern'[l]) \/ d
    BY <1>2, <1>3 DEF Wake, GoesResult
  <1> QED BY <1>5, <1>6, <1>7, <1>8 DEF Wake

\* A task that executed its exec is alone, and stays as it is until it is handled.
LEMMA ExecsKept ==
  ASSUME IInv, Halted, Sense, Execs, NEW p \in Pids, Moves(p), NEW q \in Pids,
         (task[q].stopped /\ task[q].event = "EXEC") \/ kern'[q].status = "exec"
  PROVE  kern'[q].st = "stopped" /\ ~kern'[q].dying /\ ~kern'[q].exiting /\ Alone(kern', q)
  <1>1. /\ Regular(kern[q]) /\ Passage(kern[q], q) /\ Meant(task[q], kern[q], q)
        /\ (task[q].stopped => task[q].known)
    BY DEF IInv, TaskFacts, GoodTask, Halted, Balance, Sense
  <1>2. \A r \in Pids : /\ kern'[r].tgid = kern[r].tgid
                        /\ kern'[r].st = "gone" <=> kern[r].st = "gone"
                        /\ kern'[r].st = "absent" <=> kern[r].st = "absent"
    BY MovesGo DEF GoesResult
  <1>3. Alone(kern, q) => Alone(kern', q)
    BY <1>2 DEF Alone
  <1>4. CASE Executes(kern[q], kern'[q])
    <2>1. q = p /\ \A r \in OthersOf(p) : kern[r].st = "gone"
      BY <1>4, MovesGo
    <2>2. /\ kern[q].st = "execing" /\ kern'[q].st = "stopped" /\ kern'[q].dying = kern[q].dying
          /\ kern'[q].exiting = kern[q].exiting
      BY <1>4 DEF Executes, Alike
    <2>3. kern[q].tgid = q /\ ~kern[q].dying /\ ~kern[q].exiting
      BY <1>1, <2>2 DEF Passage, Regular, Dead
    <2>4. Alone(kern, q)
      BY <2>1, <2>3 DEF Alone, OthersOf, Group
    <2> QED BY <1>3, <2>2, <2>3, <2>4
  <1>5. CASE ~Executes(kern[q], kern'[q])
    <2>1. (task[q].stopped /\ task[q].event = "EXEC") \/ kern[q].status = "exec"
      BY <1>5, MovesGo DEF GoesResult
    <2>2. kern[q].st = "stopped" /\ ~kern[q].dying /\ ~kern[q].exiting /\ Alone(kern, q)
      BY <2>1 DEF Execs
    <2>3. kern[q].tgid = q
      BY <1>1, <2>1 DEF Passage, Meant
    <2>4. q # p /\ kern[p].st \notin {"gone", "absent"}
      BY <2>2, MovesGo
    <2>5. q \notin OthersOf(p)
      BY <2>2, <2>3, <2>4 DEF Alone, OthersOf, Group
    <2>6. kern'[q] = kern[q]
      BY <2>4, <2>5, MovesGo
    <2> QED BY <1>3, <2>2, <2>6
  <1> QED BY <1>4, <1>5

\* Every step of the tracees.
LEMMA TraceesSound ==
  ASSUME IInv, Halted, Sound, Settled, Tracees
  PROVE  Sound'
  <1>1. PICK p \in Pids : Moves(p)
    BY TraceeKinds DEF Moves
  <1>2. /\ task' = task /\ event_head' = event_head /\ pc' = pc /\ frame' = frame
        /\ replies' = replies
    BY TraceeKinds DEF Tracer
  <1>3. Queued' = Queued /\ \A l : Members(l)' = Members(l)
    BY <1>2 DEF Queued, Members, Known
  <1>4. \A q \in Pids : Goes(kern[q], kern'[q], q) /\ GoesResult(kern[q], kern'[q])
    BY <1>1, MovesGo
  <1>5. AssertsHold' /\ QueueSound' /\ Handled' /\ Loop'
    BY <1>2, <1>3 DEF Sound, AssertsHold, QueueSound, Handled, Loop
  <1>6. Answers'
    <2>1. replies \subseteq Pids
      BY DEF IInv, Rest
    <2> QED BY <1>2, <1>3, <1>4, <2>1 DEF Sound, Answers, GoesResult
  <1>7. Sense'
    <2> SUFFICES ASSUME NEW q \in Pids
                 PROVE  Passage(kern'[q], q) /\ Meant(task[q], kern'[q], q)
      BY <1>2 DEF Sense
    <2>1. Regular(kern[q]) /\ Passage(kern[q], q) /\ Meant(task[q], kern[q], q)
      BY DEF Sound, Sense, Halted, Balance
    <2> QED BY <1>4, <2>1, GoesPassage, GoesMeant
  <1>8. Deaths'
    <2> SUFFICES ASSUME NEW q \in Pids, kern'[q].st # "absent"
                 PROVE  LET l == kern'[q].tgid
                        IN /\ kern'[q].dying /\ kern'[q].st # "gone" =>
                                l = q \/ Doomed(kern'[l]) \/ kern'[l].st = "execing"
                           /\ ~Stepping(q) => Wake(task[q], kern'[q], kern'[l], Skipped(pc, frame, q),
                                                   Emptied(pc, frame, l))
      BY <1>2 DEF Deaths, Stepping
    <2> DEFINE l == kern[q].tgid
    <2>1. kern[q].st # "absent" /\ kern'[q].tgid = l /\ l \in Pids
      BY <1>4 DEF GoesResult, IInv, KernelFacts
    <2>2. /\ kern[q].dying /\ kern[q].st # "gone" => l = q \/ Doomed(kern[l]) \/ kern[l].st = "execing"
          /\ ~Stepping(q) => Wake(task[q], kern[q], kern[l], Skipped(pc, frame, q), Emptied(pc, frame, l))
      BY <2>1 DEF Sound, Deaths
    <2>3. kern'[q].dying /\ kern'[q].st # "gone" => l = q \/ Doomed(kern'[l]) \/ kern'[l].st = "execing"
      BY <1>1, <2>1, <2>2, DyingKept
    <2>4. ASSUME ~Stepping(q)
          PROVE  Wake(task[q], kern'[q], kern'[l], Skipped(pc, frame, q), Emptied(pc, frame, l))
      BY <1>1, <2>1, <2>2, <2>4, WakesKept
    <2> QED BY <2>1, <2>3, <2>4
  <1>9. StepState'
    <2>1. pc = "step" => frame.task \in Pids
      BY DEF IInv, FrameFacts
    <2> QED BY <1>2, <1>4, <2>1 DEF Sound, StepState, GoesResult
  <1>10. Execs'
    BY <1>1, <1>2, ExecsKept DEF Sound, Execs
  <1>11. Emptying'
    <2>1. \A m : Alone(kern, m) => Alone(kern', m)
      BY <1>4 DEF Alone, GoesResult
    <2> QED BY <1>2, <1>3, <2>1 DEF Sound, Emptying
  <1> QED BY <1>5, <1>6, <1>7, <1>8, <1>9, <1>10, <1>11 DEF Sound

-----------------------------------------------------------------------------
(* The invariant.                                                          *)

\* After open_pid every attached task is queued once, with its EVENT_NEW.
LEMMA InitSound ==
  ASSUME Init
  PROVE  Sound
  <1>1. Attached \in Seq(Pids) /\ event_head = Attached /\ Queued = AttachedSet
    <2>1. Attached \in Seq(Pids)
      BY ScenariosAssumption DEF Init, Attached, Scenario
    <2>2. event_head = Attached
      BY DEF Init
    <2> QED BY <2>1, <2>2 DEF Queued, AttachedSet
  <1>2. AttachedSet \subseteq Pids
    BY <1>1 DEF AttachedSet
  <1>3. ASSUME NEW p \in AttachedSet
        PROVE  /\ task[p].known = TRUE /\ task[p].stopped = TRUE /\ task[p].is_new = TRUE
               /\ task[p].event = "NEW" /\ task[p].defer = NoPid
               /\ kern[p].st = "stopped" /\ kern[p].status = "none" /\ kern[p].dying = FALSE
               /\ kern[p].exiting = FALSE
    <2>1. /\ task[p] = [NoTask EXCEPT !.known = TRUE, !.leader = Tgid[p], !.stopped = TRUE,
                                     !.is_new = TRUE, !.event = "NEW"]
          /\ kern[p] = [NoKTask EXCEPT !.st = "stopped", !.tgid = Tgid[p]]
      BY <1>2, <1>3 DEF Init
    <2> QED BY <2>1 DEF NoTask, NoKTask
  <1>4. ASSUME NEW p \in Pids \ AttachedSet
        PROVE  /\ task[p].known = FALSE /\ task[p].stopped = FALSE /\ task[p].is_new = FALSE
               /\ task[p].event = "NONE" /\ task[p].defer = NoPid
               /\ kern[p].st = "absent" /\ kern[p].status = "none" /\ kern[p].dying = FALSE
               /\ kern[p].exiting = FALSE
    <2>1. task[p] = NoTask /\ kern[p] = NoKTask
      BY <1>4 DEF Init
    <2> QED BY <2>1 DEF NoTask, NoKTask
  <1>5. pc = "main" /\ replies = {}
    BY DEF Init
  <1>6. AssertsHold /\ Handled /\ Answers /\ Loop /\ StepState /\ Emptying
    BY <1>5 DEF AssertsHold, Handled, Owns, Skips, Answers, Loop, StepState, Emptying
  <1>7. QueueSound
    <2>1. \A i, j \in DOMAIN event_head : event_head[i] = event_head[j] => i = j
      BY <1>1, ScenariosAssumption DEF Init, Attached
    <2>2. \A p \in Queued : task[p].known /\ task[p].stopped /\ task[p].event # "NONE"
      BY <1>1, <1>3
    <2> QED BY <2>1, <2>2 DEF QueueSound
  <1>8. Sense
    <2> SUFFICES ASSUME NEW p \in Pids PROVE Passage(kern[p], p) /\ Meant(task[p], kern[p], p)
      BY DEF Sense
    <2>1. CASE p \in AttachedSet
      BY <1>3, <2>1 DEF Passage, Meant, Births, Dead
    <2>2. CASE p \notin AttachedSet
      BY <1>4, <2>2 DEF Passage, Meant, Births, Dead
    <2> QED BY <2>1, <2>2
  <1>9. Deaths
    <2> SUFFICES ASSUME NEW p \in Pids, kern[p].st # "absent", NEW k
                 PROVE  /\ ~kern[p].dying
                        /\ Wake(task[p], kern[p], k, Skipped(pc, frame, p),
                                Emptied(pc, frame, kern[p].tgid))
      BY DEF Deaths
    <2> QED BY <1>3, <1>4 DEF Wake, Dead
  <1>10. Execs
    BY <1>3, <1>4 DEF Execs
  <1> QED BY <1>6, <1>7, <1>8, <1>9, <1>10 DEF Sound

\* No action writes the options.
LEMMA OptKept ==
  ASSUME [Next]_vars
  PROVE  opt' = opt
  <1>1. CASE UNCHANGED vars
    BY <1>1 DEF vars
  <1>2. CASE NextEvent \/ MainDone \/ Wait
    BY <1>2 DEF NextEvent, MainDone, Wait, WaitUnknown, WaitStopped, WaitProcess, Fail
  <1>3. CASE HandleEvent
    BY <1>3 DEF HandleEvent, HandleSignal, HandleNew, HandleChild, HandleDeferred, HandleAboutExit,
                HandleExitThread, HandleExitLeader, HandleExec, HandleExecNoFollow,
                HandleBreakpointHw, HandleBreakpointSw, CloneAndContinue, ContinueAndReturn, Fail
  <1>4. CASE Finish
    BY <1>4 DEF Finish, SingleStep, StepDone, SkipContinue, SkipReturn, RemoveProc, DestroyTask,
                DestroyLeader, ExecDone, StopNext, FixAboutExit, QuitStopped, ContinueAndReturn, Fail
  <1>5. CASE Server \/ \E l \in Pids : QuitRemove(l)
    BY <1>5 DEF Server, Disconnect, Quit, ServerCommand, ServerAboutExit, QuitRemove, Fail
  <1>6. CASE Tracees
    BY <1>6 DEF Tracees, Tracer, TraceeSigstop, TraceeTrap, TraceeSignal, TraceeSpawn, TraceeExec,
                TraceeExecStop, TraceeExit, TraceeExitGroup, TraceeDie
  <1> QED BY <1>1, <1>2, <1>3, <1>4, <1>5, <1>6 DEF Next, TracerNext, Terminated

\* Where no task is created and the client stays, no handler is entered for a
\* new child, and server_close does not run.
LEMMA NoBirths ==
  ASSUME IInv, Sound, Settled
  PROVE  /\ \A p \in Pids : ~HandleChild(p) /\ ~HandleDeferred(p)
         /\ ~Disconnect /\ ~FixAboutExit
  <1>1. \A p \in Pids : task[p].event # "CHILD" /\ task[p].defer = NoPid
    BY DEF Sound, Sense, Meant
  <1>2. \A p \in Pids : ~HandleChild(p) /\ ~HandleDeferred(p)
    BY <1>1 DEF HandleChild, HandleDeferred, Handle
  <1>3. ~Disconnect
    BY DEF Disconnect, Settled
  <1>4. ~FixAboutExit
    BY DEF FixAboutExit, StopDone, Sound, Loop
  <1> QED BY <1>2, <1>3, <1>4

\* Every step of the tracer, the server and the tracees preserves QInv.
LEMMA NextSound ==
  ASSUME IInv, Halted, QInv, [Next]_vars
  PROVE  QInv'
  <1>0. Settled' = Settled
    BY OptKept DEF Settled, Ops
  <1> SUFFICES ASSUME Settled, Sound PROVE Sound'
    BY <1>0 DEF QInv
  <1>1. CASE NextEvent \/ MainDone
    BY <1>1, NextEventSound, ReturnsSound
  <1>2. CASE Wait
    BY <1>2, WaitUnknownSound, WaitStoppedSound, WaitProcessSound DEF Wait
  <1>3. CASE HandleEvent
    <2>1. PICK p \in Pids :
            \/ HandleSignal(p) \/ HandleNew(p)
            \/ HandleAboutExit(p) \/ HandleExitThread(p) \/ HandleExitLeader(p)
            \/ HandleExec(p) \/ HandleExecNoFollow(p)
            \/ HandleBreakpointHw(p) \/ HandleBreakpointSw(p)
      BY <1>3, NoBirths DEF HandleEvent
    <2> QED BY <2>1, HandleContinueSound, HandleNewSound, HandleAboutExitSound,
               HandleExitThreadSound, HandleExecSound, StopStepsSound
  <1>4. CASE Finish
    BY <1>4, NoBirths, SingleStepSound, StepDoneSound, SkipContinueSound, ReturnsSound,
       RemoveProcSound, DestroyTaskSound, DestroyLeaderSound, ExecDoneSound, StopStepsSound
       DEF Finish
  <1>5. CASE Server \/ \E l \in Pids : QuitRemove(l)
    BY <1>5, NoBirths, StopStepsSound, ServerAboutExitSound DEF Server
  <1>6. CASE Tracees
    BY <1>6, TraceesSound
  <1>7. CASE UNCHANGED vars
    <2>1. /\ task' = task /\ kern' = kern /\ pc' = pc /\ frame' = frame
          /\ event_head' = event_head /\ replies' = replies
      BY <1>7 DEF vars
    <2> QED BY <2>1 DEF Sound, AssertsHold, QueueSound, Queued, Sense, Handled, Answers, Loop, Deaths,
                        Stepping, StepState, Execs, Emptying, Members, Known
  <1> QED BY <1>1, <1>2, <1>3, <1>4, <1>5, <1>6, <1>7 DEF Next, TracerNext, Terminated

\* QInv is an invariant of the tracer.
THEOREM QueueInductive == Spec => []QInv
  <1>1. Init => QInv
    BY InitSound DEF QInv
  <1>2. IInv /\ Halted /\ QInv /\ [Next]_vars => QInv'
    BY NextSound
  <1> QED BY <1>1, <1>2, Inductive, StopsInductive, PTL DEF Spec

\* Where the program creates no tasks and the client stays connected, no assert
\* of the tracer fails (event.c:417, task.c:330-341, sysdeps/linux-gnu/trace.c:161
\* and 443), in whatever order signals, breakpoints, execs, exits and kills of any
\* number of threads are collected, queued and handled.
THEOREM NoAssertFails == Spec => [](Settled => AssertsHold)
  <1>1. QInv => (Settled => AssertsHold)
    BY DEF QInv, Sound
  <1> QED BY <1>1, QueueInductive, PTL

\* In the same programs the queue never holds a task twice, and never one that
\* was destroyed or continued: next_event hands out only tasks that are stopped
\* with an event (event.c:62-63).
THEOREM QueueKept == Spec => [](Settled => QueueSound)
  <1>1. QInv => (Settled => QueueSound)
    BY DEF QInv, Sound
  <1> QED BY <1>1, QueueInductive, PTL
=============================================================================
