----------------------------- MODULE TaskEvents -----------------------------
(***************************************************************************)
(* The tracer's core: the tasks it traces (task.c), the queue of their     *)
(* events and the handlers of these events (event.c), and the collection   *)
(* of wait statuses, the stopping of a thread group and the single step    *)
(* over a software breakpoint (sysdeps/linux-gnu/trace.c, trace.c), driven *)
(* by the main loop (main.c) against the tracees of module Ptrace.         *)
(*                                                                         *)
(* The tracer is one thread.  An action of it runs from one blocking       *)
(* waitpid to the next, or from the fetching of an event to the end of its *)
(* handler; tracees move between any two of its actions.  The asserts of   *)
(* the code are part of the model: a failing one moves the tracer to pc    *)
(* "failed", as abort() does in the builds without NDEBUG.                 *)
(***************************************************************************)
EXTENDS Integers, Sequences, Ptrace

CONSTANT Scenarios  \* what an instance is about: see Scenario

\* attached: the pids open_pid attached, in the order they were queued; tgid:
\* the thread group of each of them; follow and follow_exec: the fields of the
\* options, to trace the children of a fork and to keep tracing after an exec;
\* ops: what the tracees and the client do.
Scenario ==
  [attached : Seq(Pids), tgid : [Pids -> Pids], follow : BOOLEAN, follow_exec : BOOLEAN,
   ops : SUBSET {"trap", "swbp", "signal", "clone", "fork", "exec", "exit", "leader_exit",
                 "exit_group", "command", "reply", "disconnect", "quit"}]

\* Every task is attached once, and the leader of its group with it.
ASSUME ScenariosAssumption ==
  \A s \in Scenarios :
    /\ s \in Scenario /\ s.attached # <<>>
    /\ \A i, j \in DOMAIN s.attached : s.attached[i] = s.attached[j] => i = j
    /\ \A i \in DOMAIN s.attached :
         \E j \in DOMAIN s.attached : /\ s.tgid[s.attached[i]] = s.attached[j]
                                     /\ s.tgid[s.attached[j]] = s.attached[j]

VARIABLES
  task,            \* struct task by pid (pid_hash)
  threads,         \* leader->threads
  threads_stopped, \* leader->threads_stopped
  event_head,      \* the queue of events
  kern,            \* the kernel's view of the tracees
  pc,              \* where the tracer is
  frame,           \* what the running handler is about
  connected,       \* server_fd != -1
  replies,         \* leaders whose MT_ABOUT_EXIT answer is on its way
  do_exit,         \* termination was requested: mtrace_exit runs
  opt              \* the scenario: chosen at the start, never changed

vars == <<task, threads, threads_stopped, event_head, kern, pc, frame, connected, replies,
          do_exit, opt>>

EventType == {"NONE", "SIGNAL", "BREAKPOINT", "CHILD", "EXIT", "ABOUT_EXIT", "EXEC", "NEW"}

TaskRec == [known : BOOLEAN, leader : Pids \cup {NoPid}, stopped : BOOLEAN,
            is_new : BOOLEAN, event : EventType, newpid : Pids \cup {NoPid},
            defer : Pids \cup {NoPid}, about_exit : BOOLEAN]

NoTask == [known |-> FALSE, leader |-> NoPid, stopped |-> FALSE, is_new |-> FALSE,
           event |-> "NONE", newpid |-> NoPid, defer |-> NoPid, about_exit |-> FALSE]

\* stop: the loop of stop_threads; its caller continues at frame.cont.
\* step: waitpid in handle_singlestep.  destroy: the loop over the tasks of a
\* process in remove_proc and process_exec.  done: the main loop was left.
PC == {"main", "handle", "stop", "step", "destroy", "done", "failed"}

Cont == {"none", "disable", "enable", "requeue", "remove", "exec", "command", "close",
         "quit"}

Frame == [task : Pids \cup {NoPid}, leader : Pids \cup {NoPid}, cont : Cont,
          todo : SUBSET Pids]

NoFrame == [task |-> NoPid, leader |-> NoPid, cont |-> "none", todo |-> {}]

Attached == opt.attached
Tgid == opt.tgid
Follow == opt.follow
FollowExec == opt.follow_exec
Ops == opt.ops

AttachedSet == {Attached[i] : i \in DOMAIN Attached}

Known == {p \in Pids : task[p].known}
Members(l) == {p \in Known : task[p].leader = l}
StoppedOf(l) == {p \in Members(l) : task[p].stopped}
Leaders == {p \in Known : task[p].leader = p}

-----------------------------------------------------------------------------
(* struct task: the operators the handlers are made of.                    *)

\* task_new: the leader comes from /proc, is_new is set.
task_new(T, p, l) ==
  [T EXCEPT ![p] = [NoTask EXCEPT !.known = TRUE, !.leader = l, !.is_new = TRUE]]

\* process_leader(pid) names a leader: the task itself, or a known task.
LeaderOf(p) == kern[p].tgid
CanInit(p) == LeaderOf(p) = p \/ task[LeaderOf(p)].known

\* Mutant: the event is not reset.
ContinueKeepsEvent(T, p) == [T EXCEPT ![p].stopped = FALSE]

\* continue_task on the fields of the task; PTRACE_CONT is Resume.
continue_task(T, p) == [T EXCEPT ![p].stopped = FALSE, ![p].event = "NONE"]

Dec(f, l) == [f EXCEPT ![l] = @ - 1]
Inc(f, l) == [f EXCEPT ![l] = @ + 1]

\* remove_event: the task's node leaves the list.
remove_event(q, p) ==
  IF \E i \in DOMAIN q : q[i] = p
  THEN LET i == CHOOSE i \in DOMAIN q : q[i] = p
       IN SubSeq(q, 1, i - 1) \o SubSeq(q, i + 1, Len(q))
  ELSE q

\* Mutant: leader->threads_stopped is not decremented.
DestroyMiscounts(p) ==
  /\ task' = [task EXCEPT ![p] = NoTask]
  /\ threads' = Dec(threads, task[p].leader)
  /\ event_head' = remove_event(event_head, p)
  /\ kern' = Detach(kern, p)
  /\ replies' = replies \ {p}
  /\ UNCHANGED threads_stopped

\* task_destroy of a stopped task.
task_destroy(p) ==
  /\ task' = [task EXCEPT ![p] = NoTask]
  /\ threads' = Dec(threads, task[p].leader)
  /\ threads_stopped' = Dec(threads_stopped, task[p].leader)
  /\ event_head' = remove_event(event_head, p)
  /\ kern' = Detach(kern, p)
  /\ replies' = replies \ {p}

\* A failing assert: the tracer aborts, nothing else happens.
Fail ==
  /\ pc' = "failed"
  /\ UNCHANGED <<task, threads, threads_stopped, event_head, kern, frame, connected,
                 replies, do_exit, opt>>

\* Mutant: threads_stopped is decremented twice.
ContinueTwice(p) ==
  /\ task' = continue_task(task, p)
  /\ threads_stopped' = Dec(Dec(threads_stopped, task[p].leader), task[p].leader)
  /\ kern' = Resume(kern, p, "running")
  /\ pc' = "main" /\ frame' = NoFrame
  /\ UNCHANGED <<threads, event_head, connected, replies, do_exit, opt>>

\* Mutant: no PTRACE_CONT.
ContinueNoResume(p) ==
  /\ task' = continue_task(task, p)
  /\ threads_stopped' = Dec(threads_stopped, task[p].leader)
  /\ pc' = "main" /\ frame' = NoFrame
  /\ UNCHANGED <<kern, threads, event_head, connected, replies, do_exit, opt>>

\* The handler of p ends with continue_task(p).
ContinueAndReturn(p) ==
  /\ task' = continue_task(task, p)
  /\ threads_stopped' = Dec(threads_stopped, task[p].leader)
  /\ kern' = Resume(kern, p, "running")
  /\ pc' = "main"
  /\ frame' = NoFrame
  /\ UNCHANGED <<threads, event_head, connected, replies, do_exit, opt>>

\* Mutant: no SIGSTOP is sent.
StopNoSignal(l, p, cont, todo) ==
  /\ pc' = "stop"
  /\ frame' = [task |-> p, leader |-> l, cont |-> cont, todo |-> todo]
  /\ UNCHANGED kern

\* stop_threads(l): SIGSTOP to every task that is not stopped, then the loop.
stop_threads(l, p, cont, todo) ==
  /\ kern' = IF threads[l] = threads_stopped[l] THEN kern
             ELSE SendStop(kern, Members(l) \ StoppedOf(l))
  /\ pc' = "stop"
  /\ frame' = [task |-> p, leader |-> l, cont |-> cont, todo |-> todo]

-----------------------------------------------------------------------------
(* Collecting events.                                                      *)

\* The head of the main loop.
MainLoop == pc = "main" /\ ~do_exit /\ Leaders # {}

\* Mutant: next_event leaves the event in the list.
NextEventKeeps ==
  /\ MainLoop /\ event_head # <<>>
  /\ pc' = IF task[Head(event_head)].stopped THEN "handle" ELSE "failed"
  /\ frame' = [NoFrame EXCEPT !.task = Head(event_head)]
  /\ UNCHANGED <<task, threads, threads_stopped, event_head, kern, connected,
                 replies, do_exit, opt>>

\* next_event with a queued event, and assert(task->stopped) at the head of
\* handle_event.
NextEvent ==
  /\ MainLoop /\ event_head # <<>>
  /\ pc' = IF task[Head(event_head)].stopped THEN "handle" ELSE "failed"
  /\ frame' = [NoFrame EXCEPT !.task = Head(event_head)]
  /\ event_head' = Tail(event_head)
  /\ UNCHANGED <<task, threads, threads_stopped, kern, connected, replies, do_exit, opt>>

\* wait_event is called by next_event on an empty queue, or by stop_threads.
Waiting == \/ MainLoop /\ event_head = <<>>
           \/ pc = "stop" /\ threads[frame.leader] # threads_stopped[frame.leader]

\* wait_event returns p: it is queued by stop_threads, or handled.
Return(p) ==
  IF pc = "stop"
  THEN event_head' = Append(event_head, p) /\ UNCHANGED <<pc, frame>>
  ELSE /\ pc' = "handle" /\ frame' = [NoFrame EXCEPT !.task = p]
       /\ UNCHANGED event_head

\* A status of a pid the tracer does not know: a child that stopped before
\* its parent's event was collected.  The new task is not queued.
WaitUnknown(p) ==
  /\ Waiting /\ WaitReady(kern, p) /\ ~task[p].known
  /\ kern' = Reap(kern, p)
  /\ IF ~CanInit(p) THEN UNCHANGED <<task, threads, threads_stopped>>
     ELSE LET l == LeaderOf(p)
              new == task_new(task, p, l)
          IN /\ threads' = Inc(threads, l)
             /\ IF kern[p].status = "exited"
                THEN task' = new /\ UNCHANGED threads_stopped
                ELSE /\ task' = [new EXCEPT ![p].stopped = TRUE, ![p].event = "NEW"]
                     /\ threads_stopped' = Inc(threads_stopped, l)
  /\ UNCHANGED <<event_head, pc, frame, connected, replies, do_exit, opt>>

\* A stopped task was killed: only its event type is replaced.
WaitStopped(p) ==
  /\ Waiting /\ WaitReady(kern, p) /\ task[p].known /\ task[p].stopped
  /\ IF kern[p].status \in {"exited", "event_exit"}
     THEN /\ kern' = Reap(kern, p)
          /\ task' = [task EXCEPT ![p].event =
                        IF kern[p].status = "exited" THEN "EXIT" ELSE "ABOUT_EXIT"]
          /\ UNCHANGED <<threads, threads_stopped, event_head, pc, frame, connected,
                         replies, do_exit, opt>>
     ELSE Fail

\* _process_event: the event type a status means for a task.
EventOf(p, s) ==
  CASE s = "exited"                          -> "EXIT"
    [] s = "sigstop" /\ task[p].is_new       -> "NEW"
    [] s \in {"clone", "fork"}               -> "CHILD"
    [] s = "exec"                            -> "EXEC"
    [] s = "event_exit"                      -> "ABOUT_EXIT"
    [] s = "trap"                            -> "BREAKPOINT"
    [] OTHER                                 -> "SIGNAL"

\* process_event of a running task, and child_event.  The requests to the task
\* just collected (PTRACE_GETEVENTMSG, fetch_context) do not fail.
WaitProcess(p) ==
  LET s == kern[p].status
      c == kern[p].child
      l == task[p].leader
      T == [task EXCEPT ![p].stopped = TRUE, ![p].event = EventOf(p, s),
                        ![p].newpid = IF s \in {"clone", "fork"} THEN c ELSE NoPid]
      new == s \in {"clone", "fork"} /\ ~task[c].known
  IN /\ Waiting /\ WaitReady(kern, p) /\ task[p].known /\ ~task[p].stopped
     /\ IF task[p].event = "NONE"
        THEN /\ kern' = Reap(kern, p)
             /\ task' = IF new THEN task_new(T, c, LeaderOf(c)) ELSE T
             /\ threads' = IF new THEN Inc(threads, LeaderOf(c)) ELSE threads
             /\ threads_stopped' = Inc(threads_stopped, l)
             /\ Return(p)
             /\ UNCHANGED <<connected, replies, do_exit, opt>>
        ELSE Fail

-----------------------------------------------------------------------------
(* handle_event: one action per event type.                                *)

\* handle_event is entered for the task in the frame, with an event of types.
Handle(p, types) ==
  /\ pc = "handle" /\ frame.task = p
  /\ task[p].defer = NoPid /\ task[p].event \in types

\* EVENT_NONE, handle_signal: continue_task with the signal.
HandleSignal(p) ==
  /\ Handle(p, {"SIGNAL", "NONE"})
  /\ IF task[p].is_new THEN Fail ELSE ContinueAndReturn(p)

\* handle_new
HandleNew(p) ==
  /\ Handle(p, {"NEW"})
  /\ IF ~task[p].is_new THEN Fail
     ELSE /\ task' = [continue_task(task, p) EXCEPT ![p].is_new = FALSE]
          /\ threads_stopped' = Dec(threads_stopped, task[p].leader)
          /\ kern' = Resume(kern, p, "running")
          /\ pc' = "main" /\ frame' = NoFrame
          /\ UNCHANGED <<threads, event_head, connected, replies, do_exit, opt>>

\* Mutant: the parent is not continued.
CloneOnly(p, c) ==
  LET l == task[c].leader
      drop == l = c /\ ~Follow
  IN /\ task' = IF drop THEN [task EXCEPT ![c] = NoTask]
                ELSE [continue_task(task, c) EXCEPT ![c].is_new = FALSE, ![c].defer = NoPid]
     /\ threads' = IF drop THEN Dec(threads, c) ELSE threads
     /\ threads_stopped' = Dec(threads_stopped, l)
     /\ event_head' = IF drop THEN remove_event(event_head, c) ELSE event_head
     /\ kern' = IF drop THEN Detach(kern, c) ELSE Resume(kern, c, "running")
     /\ pc' = "main" /\ frame' = NoFrame
     /\ UNCHANGED <<connected, replies, do_exit, opt>>

\* do_clone(p, c) followed by continue_task(p): the child is cloned and set
\* running (a child process is removed instead when forks are not
\* followed), then its parent.
CloneAndContinue(p, c) ==
  LET l == task[c].leader
      drop == l = c /\ ~Follow
      T == IF drop THEN [task EXCEPT ![c] = NoTask]
           ELSE [continue_task(task, c) EXCEPT ![c].is_new = FALSE, ![c].defer = NoPid]
  IN /\ task' = continue_task(T, p)
     /\ threads' = IF drop THEN Dec(threads, c) ELSE threads
     /\ threads_stopped' = Dec(Dec(threads_stopped, l), task[p].leader)
     /\ event_head' = IF drop THEN remove_event(event_head, c) ELSE event_head
     /\ kern' = Resume(IF drop THEN Detach(kern, c) ELSE Resume(kern, c, "running"),
                       p, "running")
     /\ pc' = "main" /\ frame' = NoFrame
     /\ UNCHANGED <<connected, replies, do_exit, opt>>

\* handle_child: a child that has not stopped yet keeps its parent waiting.
HandleChild(p) ==
  LET c == task[p].newpid
  IN /\ Handle(p, {"CHILD"})
     /\ IF task[c].known /\ ~task[c].stopped
        THEN /\ task' = [task EXCEPT ![c].defer = p]
             /\ pc' = "main" /\ frame' = NoFrame
             /\ UNCHANGED <<threads, threads_stopped, event_head, kern, connected,
                            replies, do_exit, opt>>
        ELSE IF task[c].known /\ task[c].is_new THEN CloneAndContinue(p, c) ELSE Fail

\* The defer_func of a child that has stopped: do_clone_cb.
HandleDeferred(c) ==
  /\ pc = "handle" /\ frame.task = c /\ task[c].defer # NoPid
  /\ LET p == task[c].defer
     IN IF task[p].known /\ task[p].stopped /\ task[c].is_new
        THEN CloneAndContinue(p, c) ELSE Fail

\* Mutant: every thread waits for an answer, not only the leader.
AboutExitEveryTask(p) ==
  /\ Handle(p, {"ABOUT_EXIT"})
  /\ IF connected
     THEN /\ task' = [task EXCEPT ![p].about_exit = TRUE]
          /\ replies' = IF task[p].leader = p THEN replies \cup {p} ELSE replies
          /\ pc' = "main" /\ frame' = NoFrame
          /\ UNCHANGED <<threads, threads_stopped, event_head, kern, connected, do_exit, opt>>
     ELSE ContinueAndReturn(p)

\* Mutant: the client is not told, and never answers.
AboutExitUnreported(p) ==
  /\ Handle(p, {"ABOUT_EXIT"})
  /\ IF task[p].leader = p /\ connected
     THEN /\ task' = [task EXCEPT ![p].about_exit = TRUE]
          /\ pc' = "main" /\ frame' = NoFrame
          /\ UNCHANGED <<threads, threads_stopped, event_head, kern, connected,
                         replies, do_exit, opt>>
     ELSE ContinueAndReturn(p)

\* handle_about_exit: a leader stays stopped until the client answers.
HandleAboutExit(p) ==
  /\ Handle(p, {"ABOUT_EXIT"})
  /\ IF task[p].leader = p /\ connected
     THEN /\ task' = [task EXCEPT ![p].about_exit = TRUE]
          /\ replies' = replies \cup {p}
          /\ pc' = "main" /\ frame' = NoFrame
          /\ UNCHANGED <<threads, threads_stopped, event_head, kern, connected, do_exit, opt>>
     ELSE ContinueAndReturn(p)

\* handle_exit, handle_exit_signal of a thread: remove_task.
HandleExitThread(p) ==
  /\ Handle(p, {"EXIT"}) /\ task[p].leader # p
  /\ task_destroy(p)
  /\ pc' = "main" /\ frame' = NoFrame
  /\ UNCHANGED <<connected, do_exit, opt>>

\* handle_exit, handle_exit_signal of a leader: untrace_proc.
HandleExitLeader(p) ==
  /\ Handle(p, {"EXIT"}) /\ task[p].leader = p
  /\ stop_threads(p, p, "remove", {})
  /\ UNCHANGED <<task, threads, threads_stopped, event_head, connected, replies, do_exit, opt>>

\* handle_exec without follow_exec: untrace_proc.
HandleExecNoFollow(p) ==
  /\ Handle(p, {"EXEC"}) /\ ~FollowExec
  /\ stop_threads(p, p, "remove", {})
  /\ UNCHANGED <<task, threads, threads_stopped, event_head, connected, replies, do_exit, opt>>

\* handle_exec, process_exec: every other task of the process is destroyed.
HandleExec(p) ==
  /\ Handle(p, {"EXEC"}) /\ FollowExec
  /\ pc' = "destroy"
  /\ frame' = [task |-> p, leader |-> p, cont |-> "exec", todo |-> Members(p) \ {p}]
  /\ UNCHANGED <<task, threads, threads_stopped, event_head, kern, connected,
                 replies, do_exit, opt>>

\* handle_breakpoint of a breakpoint that needs no single step: a hardware
\* breakpoint, one that was deleted, or one whose on_hit handled it.
HandleBreakpointHw(p) ==
  /\ Handle(p, {"BREAKPOINT"})
  /\ ContinueAndReturn(p)

\* handle_breakpoint of an enabled software breakpoint: skip_breakpoint,
\* whose breakpoint_disable stops the thread group first.
HandleBreakpointSw(p) ==
  /\ Handle(p, {"BREAKPOINT"}) /\ "swbp" \in Ops
  /\ stop_threads(task[p].leader, p, "disable", {})
  /\ UNCHANGED <<task, threads, threads_stopped, event_head, connected, replies, do_exit, opt>>

-----------------------------------------------------------------------------
(* The end of the loop of stop_threads, by caller.  Its                    *)
(* assert(leader->threads > leader->threads_stopped) follows from          *)
(* Accounting below.                                                       *)

\* Mutant: the loop is left at once.
StopAtOnce(cont) == pc = "stop" /\ frame.cont = cont

StopDone(cont) ==
  /\ pc = "stop" /\ frame.cont = cont
  /\ threads[frame.leader] = threads_stopped[frame.leader]

\* The breakpoint is disabled: handle_singlestep.  A task that was killed
\* in the meantime cannot be stepped: it keeps its stop and has no event.
SingleStep ==
  LET p == frame.task
  IN /\ StopDone("disable")
     /\ IF task[p].stopped
        THEN /\ task' = [task EXCEPT ![p].event = "NONE"]
             /\ kern' = Resume(kern, p, "stepping")
             /\ IF kern[p].st = "stopped"
                THEN pc' = "step" /\ UNCHANGED frame
                ELSE frame' = [frame EXCEPT !.cont = "requeue"] /\ UNCHANGED pc
             /\ UNCHANGED <<threads, threads_stopped, event_head, connected,
                            replies, do_exit, opt>>
        ELSE Fail

\* The status after the single step: a SIGTRAP ends the step, anything
\* else becomes the task's event and is queued; breakpoint_enable follows.
StepDone ==
  LET p == frame.task
      s == kern[p].status
      trap == s = "trap"
  IN /\ pc = "step" /\ WaitReady(kern, p)
     /\ kern' = Reap(kern, p)
     /\ task' = [task EXCEPT ![p].event = EventOf(p, s),
                             ![p].newpid = IF s \in {"clone", "fork"} THEN kern[p].child ELSE NoPid]
     /\ event_head' = IF trap THEN event_head ELSE Append(event_head, p)
     /\ pc' = "stop"
     /\ frame' = [frame EXCEPT !.cont = IF trap THEN "enable" ELSE "requeue"]
     /\ UNCHANGED <<threads, threads_stopped, connected, replies, do_exit, opt>>

\* The breakpoint is enabled again; skip_breakpoint continues the task.
SkipContinue ==
  /\ StopDone("enable")
  /\ IF task[frame.task].stopped THEN ContinueAndReturn(frame.task) ELSE Fail

\* The breakpoint is enabled again, the task has another event (skip_bp),
\* or a server command is finished.
SkipReturn ==
  /\ StopDone("requeue") \/ StopDone("command")
  /\ pc' = "main" /\ frame' = NoFrame
  /\ UNCHANGED <<task, threads, threads_stopped, event_head, kern, connected,
                 replies, do_exit, opt>>

\* remove_proc: every other task of the process is destroyed, ...
RemoveProc ==
  /\ StopDone("remove")
  /\ pc' = "destroy"
  /\ frame' = [frame EXCEPT !.todo = Members(frame.leader) \ {frame.leader}]
  /\ UNCHANGED <<task, threads, threads_stopped, event_head, kern, connected,
                 replies, do_exit, opt>>

\* ... one by one, by remove_task_cb (untrace_task asserts it is stopped), ...
DestroyTask(p) ==
  /\ pc = "destroy" /\ p \in frame.todo
  /\ IF task[p].stopped
     THEN /\ task_destroy(p)
          /\ frame' = [frame EXCEPT !.todo = @ \ {p}]
          /\ UNCHANGED <<pc, connected, do_exit, opt>>
     ELSE Fail

\* ... then, with assert(leader->threads == 1), the leader itself.
DestroyLeader ==
  /\ pc = "destroy" /\ frame.todo = {} /\ frame.cont = "remove"
  /\ IF threads[frame.leader] = 1 /\ task[frame.leader].stopped
     THEN task_destroy(frame.leader) /\ pc' = "main" /\ frame' = NoFrame
          /\ UNCHANGED <<connected, do_exit, opt>>
     ELSE Fail

\* process_exec initialises the leader again; handle_exec continues it.
ExecDone ==
  /\ pc = "destroy" /\ frame.todo = {} /\ frame.cont = "exec"
  /\ IF /\ task[frame.leader].stopped /\ task[frame.leader].leader = frame.leader
        /\ threads[frame.leader] = 1 /\ threads_stopped[frame.leader] = 1
     THEN ContinueAndReturn(frame.leader)
     ELSE Fail

-----------------------------------------------------------------------------
(* server_poll between two events: what commands do to tasks.              *)

\* MT_SCAN, MT_START, MT_STOP: the threads are stopped for the scan, or to
\* patch the breakpoints.
ServerCommand(l) ==
  /\ MainLoop /\ connected /\ l \in Leaders /\ "command" \in Ops
  /\ stop_threads(l, NoPid, "command", {})
  /\ UNCHANGED <<task, threads, threads_stopped, event_head, connected, replies, do_exit, opt>>

\* MT_ABOUT_EXIT from the client: continue_task, whatever the task is doing.
ServerAboutExit(l) ==
  /\ pc = "main" /\ connected /\ l \in replies /\ task[l].known /\ "reply" \in Ops
  /\ IF task[l].stopped
     THEN /\ task' = continue_task(task, l)
          /\ threads_stopped' = Dec(threads_stopped, l)
          /\ kern' = Resume(kern, l, "running")
          /\ replies' = replies \ {l}
          /\ UNCHANGED <<threads, event_head, pc, frame, connected, do_exit, opt>>
     ELSE Fail

\* server_close: stop_trace of every process ...
Disconnect ==
  /\ MainLoop /\ connected /\ "disconnect" \in Ops
  /\ \E l \in Leaders : stop_threads(l, NoPid, "close", Leaders \ {l})
  /\ connected' = FALSE /\ replies' = {}
  /\ UNCHANGED <<task, threads, threads_stopped, event_head, do_exit, opt>>

\* each_process: stop_threads of the next process, for server_close or mtrace_exit.
StopNext ==
  /\ StopDone("close") \/ StopDone("quit")
  /\ \E l \in frame.todo : stop_threads(l, NoPid, frame.cont, frame.todo \ {l})
  /\ UNCHANGED <<task, threads, threads_stopped, event_head, connected, replies, do_exit, opt>>

\* ... then fix_about_exit of every task.
FixAboutExit ==
  LET F == {p \in Known : task[p].about_exit}
  IN /\ StopDone("close") /\ frame.todo = {}
     /\ IF \A p \in F : task[p].stopped
        THEN /\ task' = [p \in Pids |-> IF p \in F
                            THEN [task[p] EXCEPT !.about_exit = FALSE, !.stopped = FALSE,
                                                 !.event = "NONE"]
                            ELSE task[p]]
             /\ threads_stopped' = [l \in Pids |-> threads_stopped[l] -
                                      Cardinality({p \in F : task[p].leader = l})]
             /\ kern' = [p \in Pids |-> IF p \in F THEN Resume(kern, p, "running")[p]
                                        ELSE kern[p]]
             /\ pc' = "main" /\ frame' = NoFrame
             /\ UNCHANGED <<threads, event_head, connected, replies, do_exit, opt>>
        ELSE Fail

\* mtrace_request_exit: mtrace_exit stops every process ...
Quit ==
  /\ MainLoop /\ "quit" \in Ops
  /\ do_exit' = TRUE
  /\ \E l \in Leaders : stop_threads(l, NoPid, "quit", Leaders \ {l})
  /\ UNCHANGED <<task, threads, threads_stopped, event_head, connected, replies, opt>>

QuitStopped ==
  /\ StopDone("quit") /\ frame.todo = {}
  /\ pc' = "main" /\ frame' = NoFrame
  /\ UNCHANGED <<task, threads, threads_stopped, event_head, kern, connected,
                 replies, do_exit, opt>>

\* ... then removes it: detach_proc for the client's MT_DETACH, or remove_proc.
QuitRemove(l) ==
  /\ pc = "main" /\ do_exit /\ l \in Leaders
  /\ stop_threads(l, l, "remove", {})
  /\ UNCHANGED <<task, threads, threads_stopped, event_head, connected, replies, do_exit, opt>>

\* No process is left.
MainDone ==
  /\ pc = "main" /\ Leaders = {}
  /\ pc' = "done"
  /\ UNCHANGED <<task, threads, threads_stopped, event_head, kern, frame, connected,
                 replies, do_exit, opt>>

-----------------------------------------------------------------------------
(* The tracees.                                                            *)

Tracer == <<task, threads, threads_stopped, event_head, pc, frame, connected,
            replies, do_exit, opt>>

Running(p) == kern[p].st = "running" /\ ~kern[p].dying

\* A pending SIGSTOP stops p; it is the first thing a newborn does.
TraceeSigstop(p) ==
  /\ kern[p].sigstop /\ kern[p].st \in {"newborn", "running", "stepping"} /\ ~kern[p].dying
  /\ kern' = [EnterStop(kern, p, "sigstop") EXCEPT ![p].sigstop = FALSE]
  /\ UNCHANGED Tracer

\* A breakpoint is hit, or the single step is done.
TraceeTrap(p) ==
  /\ \/ Running(p) /\ "trap" \in Ops
     \/ kern[p].st = "stepping"
  /\ kern' = EnterStop(kern, p, "trap")
  /\ UNCHANGED Tracer

\* Some other signal arrives.
TraceeSignal(p) ==
  /\ Running(p) \/ kern[p].st = "stepping"
  /\ "signal" \in Ops
  /\ kern' = EnterStop(kern, p, "signal")
  /\ UNCHANGED Tracer

\* pthread_create or fork.
TraceeSpawn(p, c, how) ==
  /\ Running(p) /\ how \in Ops /\ kern[c].st = "absent"
  /\ kern' = Spawn(kern, p, c, how)
  /\ UNCHANGED Tracer

\* exec of a group leader: the other threads are killed ...
TraceeExec(p) ==
  /\ Running(p) /\ "exec" \in Ops /\ kern[p].tgid = p
  /\ kern' = [KillAll(kern, Group(kern, p) \ {p}) EXCEPT ![p].st = "execing"]
  /\ UNCHANGED Tracer

\* ... and exec reaches its stop when all of them were reaped.
TraceeExecStop(p) ==
  /\ kern[p].st = "execing" /\ \A q \in Group(kern, p) \ {p} : kern[q].st = "gone"
  /\ kern' = EnterStop(kern, p, "exec")
  /\ UNCHANGED Tracer

\* A thread ends.  With "leader_exit" the main thread may end (pthread_exit)
\* while other threads of its group go on.
TraceeExit(p) ==
  /\ Running(p) /\ "exit" \in Ops
  /\ \/ "leader_exit" \in Ops
     \/ kern[p].tgid = p => \A q \in Group(kern, p) \ {p} : kern[q].st = "gone"
  /\ kern' = EnterExit(kern, p)
  /\ UNCHANGED Tracer

\* exit_group: the other threads are killed.
TraceeExitGroup(p) ==
  /\ Running(p) /\ "exit_group" \in Ops
  /\ kern' = EnterExit(KillAll(kern, Group(kern, p) \ {p}), p)
  /\ UNCHANGED Tracer

\* A killed task reaches its exit stop.
TraceeDie(p) ==
  /\ kern[p].st = "running" /\ kern[p].dying
  /\ kern' = EnterExit(kern, p)
  /\ UNCHANGED Tracer

-----------------------------------------------------------------------------

\* The state after open_pid, or task_create: every thread attached, stopped
\* and queued with EVENT_NEW.
Init ==
  /\ opt \in Scenarios
  /\ task = [p \in Pids |-> IF p \in AttachedSet
                THEN [NoTask EXCEPT !.known = TRUE, !.leader = Tgid[p], !.stopped = TRUE,
                                    !.is_new = TRUE, !.event = "NEW"]
                ELSE NoTask]
  /\ threads = [l \in Pids |-> Cardinality({p \in AttachedSet : Tgid[p] = l})]
  /\ threads_stopped = threads
  /\ event_head = Attached
  /\ kern = [p \in Pids |-> IF p \in AttachedSet
                THEN [NoKTask EXCEPT !.st = "stopped", !.tgid = Tgid[p]] ELSE NoKTask]
  /\ pc = "main" /\ frame = NoFrame
  /\ connected = TRUE /\ replies = {} /\ do_exit = FALSE

Wait == \E p \in Pids : WaitUnknown(p) \/ WaitStopped(p) \/ WaitProcess(p)

HandleEvent ==
  \/ \E p \in Pids :
       \/ HandleSignal(p) \/ HandleNew(p) \/ HandleChild(p) \/ HandleDeferred(p)
       \/ HandleAboutExit(p) \/ HandleExitThread(p) \/ HandleExitLeader(p)
       \/ HandleExec(p) \/ HandleExecNoFollow(p)
       \/ HandleBreakpointHw(p) \/ HandleBreakpointSw(p)

Finish ==
  \/ SingleStep \/ StepDone \/ SkipContinue \/ SkipReturn
  \/ RemoveProc \/ (\E p \in Pids : DestroyTask(p)) \/ DestroyLeader \/ ExecDone
  \/ StopNext \/ FixAboutExit \/ QuitStopped

Server == Disconnect \/ Quit \/ \E l \in Pids : ServerCommand(l) \/ ServerAboutExit(l)

TracerNext ==
  NextEvent \/ Wait \/ HandleEvent \/ Finish \/ (\E l \in Pids : QuitRemove(l)) \/ MainDone

Tracees ==
  \E p \in Pids :
    \/ TraceeSigstop(p) \/ TraceeTrap(p) \/ TraceeSignal(p) \/ TraceeExec(p)
    \/ TraceeExecStop(p) \/ TraceeExit(p) \/ TraceeExitGroup(p) \/ TraceeDie(p)
    \/ \E c \in Pids : TraceeSpawn(p, c, "clone") \/ TraceeSpawn(p, c, "fork")

\* mtrace-ng has left its main loop: the only state it may rest in.
Terminated == pc = "done" /\ UNCHANGED vars

Next == TracerNext \/ Server \/ Tracees \/ Terminated

Spec == Init /\ [][Next]_vars

\* The tracer's thread is never starved, nor is what the kernel owes it: a
\* pending SIGSTOP stops its task, a single step ends, a killed task dies, an
\* exec that waits for nobody goes on.  A connected client answers, and the
\* main loop calls server_poll once per event, so the answer is read.
Fairness ==
  /\ WF_vars(TracerNext)
  /\ \A p \in Pids :
       /\ WF_vars(TraceeSigstop(p)) /\ WF_vars(kern[p].st = "stepping" /\ TraceeTrap(p))
       /\ WF_vars(TraceeDie(p)) /\ WF_vars(TraceeExecStop(p))
       /\ SF_vars(ServerAboutExit(p))

FairSpec == Spec /\ Fairness

-----------------------------------------------------------------------------
(* Properties.                                                             *)

\* The structures have their types.  The unsigned counters of a leader never
\* wrap below zero (task.h:80,98), and a task in pid_hash has a leader.
TypeOK ==
  /\ task \in [Pids -> TaskRec]
  /\ \A p \in Pids : task[p].known => task[p].leader \in Pids
  /\ threads \in [Pids -> Nat] /\ threads_stopped \in [Pids -> Nat]
  /\ event_head \in Seq(Pids)
  /\ kern \in [Pids -> KTask]
  /\ pc \in PC /\ frame \in Frame
  /\ connected \in BOOLEAN /\ replies \subseteq Pids /\ do_exit \in BOOLEAN

\* leader->threads and leader->threads_stopped count the tasks of the group
\* and those of them that are stopped, whichever handlers created, cloned,
\* continued or destroyed tasks.  stop_threads and the assert in its loop
\* (sysdeps/linux-gnu/trace.c:489-492) decide by these counters alone.
Accounting ==
  \A l \in Pids : /\ threads[l] = Cardinality(Members(l))
                  /\ threads_stopped[l] = Cardinality(StoppedOf(l))

\* No assert of the tracer fails: the task of an event is stopped
\* (event.c:417), a continued one too (sysdeps/linux-gnu/trace.c:443), a new
\* wait status meets no unhandled event (sysdeps/linux-gnu/trace.c:161), a
\* cloned task is new (event.c:120), exec leaves one thread (task.c:330-341).
AssertsHold == pc # "failed"

Queued == {event_head[i] : i \in DOMAIN event_head}

\* The queue holds each task at most once, and only tasks that exist and are
\* stopped with an event: what queue_event asserts (event.c:62-63) is still
\* true when next_event takes the task out, which list_del relies on.
QueueSound ==
  /\ \A i, j \in DOMAIN event_head : event_head[i] = event_head[j] => i = j
  /\ \A p \in Queued : task[p].known /\ task[p].stopped /\ task[p].event # "NONE"

\* q created p and has not let it run yet.
ParentOf(q, p) ==
  \/ task[q].known /\ task[q].stopped /\ task[q].event = "CHILD" /\ task[q].newpid = p
  \/ kern[q].status \in {"clone", "fork"} /\ kern[q].child = p

\* No stop is forgotten: a task the tracer holds stopped is in the queue, is
\* being handled, waits for the client's MT_ABOUT_EXIT, or is one end of a
\* clone or fork whose other end will release it (handle_child, do_clone_cb).
\* Otherwise the traced program hangs for ever.
NoLostStop ==
  \A p \in Known : task[p].stopped =>
    \/ p \in Queued \/ frame.task = p \/ (pc = "destroy" /\ p \in frame.todo)
    \/ task[p].about_exit /\ (p \in replies \/ frame.cont = "close")
    \/ task[p].event = "CHILD" /\ task[task[p].newpid].defer = p
    \/ task[p].is_new /\ \E q \in Pids : ParentOf(q, p)

\* The tracer's "stopped" and the kernel's agree: a task it holds stopped
\* executes no instruction, and a task it takes for running that did stop has
\* a status that wait_event will collect.
AgreesWithKernel ==
  \A p \in Known :
    /\ task[p].stopped /\ ~(pc = "step" /\ frame.task = p) =>
         kern[p].st \in {"stopped", "zombie", "gone"} \/ kern[p].dying
    /\ ~task[p].stopped /\ kern[p].st = "stopped" => kern[p].status # "none"

\* While the original instruction is back in the text for a single step
\* (trace.c:66-68), no other thread of the process runs: it would pass the
\* breakpoint unseen.
StepExclusive ==
  pc = "step" => \A q \in Members(frame.leader) \ {frame.task} :
                   kern[q].st \notin {"running", "stepping"} \/ kern[q].dying

\* A task that hit a breakpoint is set running again (handle_breakpoint), or
\* is gone: no wait for the other threads of its group lasts for ever.
Resumed == \A p \in Pids :
  (task[p].stopped /\ task[p].event = "BREAKPOINT") ~> ~task[p].stopped

\* A traced process all of whose threads are dead, or stopped one last time to
\* die, is reported as exited and removed (handle_exit).
ExitReported == \A l \in Pids :
  (l \in AttachedSet /\ Tgid[l] = l
     /\ \A q \in Group(kern, l) : kern[q].exiting \/ kern[q].st \in {"zombie", "gone"})
    ~> ~task[l].known
=============================================================================
