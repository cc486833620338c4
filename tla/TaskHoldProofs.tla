--------------------------- MODULE TaskHoldProofs ---------------------------
(***************************************************************************)
(* No stop is lost: NoLostStop, for every set of pids, in the scenarios of *)
(* TaskQueueProofs (no task is created, the client stays connected) where, *)
(* if exit_group is called, no breakpoint is stepped over and the user     *)
(* does not end the tracing (Lasting).                                     *)
(*                                                                         *)
(* Lasting is needed.  With exit_group and software breakpoints TLC finds  *)
(* a task that is killed while its breakpoint is passed: it cannot be      *)
(* stepped, is left stopped without an event, and nobody queues its end.   *)
(* With exit_group and the end of the tracing it finds a killed task that  *)
(* was destroyed before its exit stop: its status makes it known again.    *)
(*                                                                         *)
(* The proof shows that these are the only two ways.  A task that is       *)
(* stopped leaves the tracer's hands (Kept) when it is continued or        *)
(* destroyed; it could come back stopped and unqueued if it was forgotten  *)
(* alive (Unheard), which is why only a dead or a detachable task may be   *)
(* destroyed.  Where threads are killed at any time a process must have    *)
(* ended when it is removed (Plain, Closing: the kernel reports a leader   *)
(* last); where they are not, only an exec kills, and its caller is not    *)
(* stopped while a killed thread is left (Killers), so no task that is     *)
(* destroyed or stepped is among the killed (Spared).                      *)
(***************************************************************************)
EXTENDS TaskQueueProofs

\* exit_group is called: threads are killed whatever they are doing.
Whole == "exit_group" \in Ops

\* No task is created, the client stays connected, and where threads may be killed by
\* an exit_group, no breakpoint is stepped over and the user does not end the tracing.
Lasting == Settled /\ (Whole => Ops \cap {"swbp", "quit"} = {})

\* The tracer has task p in hand: it is queued, it or its process is being handled, or
\* the client is to answer for it.
InHand(p) ==
  p \in Queued \/ frame.task = p \/ (pc = "destroy" /\ p \in frame.todo) \/ p \in replies

\* Every stopped task is in hand.
Kept ==
  /\ \A p \in Pids : task[p].stopped => InHand(p)
  /\ \A p \in replies : task[p].about_exit

\* What the tracer forgot is dead.
Unheard == \A p \in Pids : ~task[p].known => kern[p].st \in {"absent", "zombie", "gone"}

\* The leader ends last.
Closing ==
  \A p \in Pids : task[p].stopped /\ task[p].event = "EXIT" /\ kern[p].tgid = p => Alone(kern, p)

\* Without exit_group only an exec kills, and it waits for the dead.
Killers ==
  ~Whole => \A p \in Pids : kern[p].dying /\ kern[p].st # "gone" =>
    kern[p].tgid # p /\ kern[kern[p].tgid].st = "execing"

\* Without exit_group a task that is held does not die unheard.
Spared ==
  ~Whole => \A p \in Pids : task[p].known /\ task[p].stopped /\ Dead(kern[p]) /\ ~Stepping(p) =>
    task[p].event \in Exits /\ ~Skipped(pc, frame, p)

\* With exit_group nothing is stepped, and only a process that ended is removed.
Plain ==
  Whole =>
    /\ ~do_exit /\ pc # "step" /\ (pc = "stop" => frame.cont \notin {"disable", "enable", "requeue", "quit"})
    /\ pc \in {"stop", "destroy"} /\ frame.cont = "remove" =>
         /\ task[frame.leader].stopped /\ task[frame.leader].event \in {"EXIT", "EXEC"}
         /\ kern[frame.leader].tgid = frame.leader

\* The task that a frame names.
Named ==
  /\ pc \in {"main", "done"} => frame.task = NoPid
  /\ pc = "stop" =>
       /\ frame.cont \in {"disable", "enable", "requeue", "remove", "command", "quit"}
       /\ frame.cont \in {"command", "quit"} => frame.task = NoPid
       /\ frame.cont = "requeue" => frame.task \in Queued
       /\ frame.cont = "remove" => frame.task = frame.leader
       /\ frame.cont = "disable" => frame.leader = kern[frame.task].tgid
  /\ pc = "destroy" => frame.task = frame.leader /\ frame.cont \in {"remove", "exec"}

\* What holds in these scenarios.
Held == Kept /\ Unheard /\ Closing /\ Killers /\ Spared /\ Plain /\ Named

\* The inductive invariant, with IInv, Halted and QInv of the modules it builds on.
LInv == Lasting => Held

-----------------------------------------------------------------------------
(* The kernel's part.                                                      *)

\* What a system call of the tracer leaves of a kernel task.
CallResult(k, k2) ==
  /\ k2.tgid = k.tgid /\ k2.dying = k.dying /\ k2.exiting = k.exiting
  /\ k.st \in {"absent", "gone"} => k2.st = k.st
  /\ k.st = "execing" => k2.st = "execing"
  /\ k.st = "zombie" => k2.st \in {"zombie", "gone"}

\* The system calls.
LEMMA Calls ==
  ASSUME NEW k, NEW k2, Regular(k),
         \/ SameStop(k, k2) \/ RunsOn(k, k2, "running") \/ RunsOn(k, k2, "stepping")
         \/ Collected(k, k2) \/ LetGo(k, k2)
  PROVE  CallResult(k, k2)
  BY DEF Regular, SameStop, RunsOn, Collected, LetGo, Alike, CallResult

\* What the invariant says of one task after a step.
Good(p) ==
  /\ ~task'[p].known => kern'[p].st \in {"absent", "zombie", "gone"}
  /\ task'[p].stopped /\ task'[p].event = "EXIT" /\ kern'[p].tgid = p => Alone(kern', p)
  /\ ~Whole /\ task'[p].known /\ task'[p].stopped /\ Dead(kern'[p]) =>
       \/ task'[p].event \in Exits /\ ~Skipped(pc', frame', p)
       \/ pc' = "step" /\ frame'.task = p

\* The step leaves q as it is.
Left(q) ==
  /\ SameEvent(task[q], task'[q]) /\ SameStop(kern[q], kern'[q]) /\ ~Stepping(q)
  /\ Skipped(pc', frame', q) => Skipped(pc, frame, q) \/ task[q].event \notin Exits

\* A step of the tracer moves some tasks and leaves the others.
LEMMA KernelHeld ==
  ASSUME IInv, Halted, Held, opt' = opt,
         \A q \in Pids : CallResult(kern[q], kern'[q]),
         \A q \in Pids : Left(q) \/ Good(q)
  PROVE  Unheard' /\ Closing' /\ Killers' /\ Spared'
  <1>1. Whole' = Whole
    BY DEF Whole, Ops
  <1>2. \A l : Alone(kern, l) => Alone(kern', l)
    BY DEF Alone, CallResult
  <1>3. ASSUME NEW q \in Pids, Left(q) PROVE Good(q)
    <2>1. Left(q)
      BY <1>3
    <2>2. ~task'[q].known => kern'[q].st \in {"absent", "zombie", "gone"}
      BY <2>1 DEF Left, SameEvent, SameStop, Held, Unheard
    <2>3. task'[q].stopped /\ task'[q].event = "EXIT" /\ kern'[q].tgid = q => Alone(kern', q)
      BY <1>2, <2>1 DEF Left, SameEvent, SameStop, Alike, Held, Closing
    <2>4. ~Whole /\ task'[q].known /\ task'[q].stopped /\ Dead(kern'[q]) =>
            task'[q].event \in Exits /\ ~Skipped(pc', frame', q)
      BY <2>1 DEF Left, SameEvent, SameStop, Held, Spared, Dead
    <2> QED BY <2>2, <2>3, <2>4 DEF Good
  <1>4. \A q \in Pids : Good(q)
    BY <1>3
  <1>5. Unheard' /\ Closing'
    BY <1>4 DEF Good, Unheard, Closing
  <1>6. Spared'
    BY <1>1, <1>4 DEF Good, Spared, Stepping
  <1>7. Killers'
    <2> SUFFICES ASSUME ~Whole, NEW p \in Pids, kern'[p].dying, kern'[p].st # "gone"
                 PROVE  kern'[p].tgid # p /\ kern'[kern'[p].tgid].st = "execing"
      BY <1>1 DEF Killers
    <2>1. kern[p].dying /\ kern[p].st # "gone" /\ kern'[p].tgid = kern[p].tgid
      BY DEF CallResult
    <2>2. kern[p].st # "absent"
      BY <2>1 DEF Halted, Balance, Regular
    <2>3. kern[p].tgid \in Pids
      BY <2>2 DEF IInv, KernelFacts
    <2> QED BY <2>1, <2>3 DEF Held, Killers, CallResult
  <1> QED BY <1>5, <1>6, <1>7

-----------------------------------------------------------------------------
(* Steps that move no task.                                                *)

\* A step after which the tracer is busy with the same task, or with one more.
LEMMA QuietHeld ==
  ASSUME IInv, Halted, Held, opt' = opt, pc \notin {"step", "destroy"},
         task' = task, event_head' = event_head, replies' = replies,
         \A q \in Pids : SameStop(kern[q], kern'[q]),
         \A q \in Pids : Skipped(pc', frame', q) => Skipped(pc, frame, q) \/ task[q].event \notin Exits,
         \A q \in Pids : frame.task = q => frame'.task = q \/ q \in Queued
  PROVE  Kept' /\ Unheard' /\ Closing' /\ Killers' /\ Spared' /\ Queued' = Queued
  <1>1. Queued' = Queued
    BY DEF Queued
  <1>2. Kept'
    BY <1>1 DEF Held, Kept, InHand
  <1>3. \A q \in Pids : CallResult(kern[q], kern'[q])
    BY Calls DEF Halted, Balance
  <1>4. \A q \in Pids : Left(q)
    BY DEF Left, SameEvent, Stepping
  <1>5. Unheard' /\ Closing' /\ Killers' /\ Spared'
    BY <1>3, <1>4, KernelHeld
  <1> QED BY <1>1, <1>2, <1>5

\* The callers of stop_threads.
LEMMA StopsHeld ==
  ASSUME IInv, Halted, Held, opt' = opt, pc \notin {"step", "destroy"},
         task' = task, event_head' = event_head, replies' = replies,
         NEW l, NEW p, NEW cont, NEW todo, stop_threads(l, p, cont, todo),
         cont \in {"disable", "remove", "command", "quit"},
         cont \in {"command", "quit"} => p = NoPid,
         cont = "remove" => p = l,
         cont = "disable" => p \in Pids /\ task[p].event \notin Exits /\ l = kern[p].tgid,
         \A q \in Pids : frame.task = q => p = q,
         Whole => /\ ~do_exit' /\ cont \in {"remove", "command"}
                  /\ cont = "remove" => l \in Pids /\ task[l].stopped /\ task[l].event \in {"EXIT", "EXEC"}
                                        /\ kern[l].tgid = l
  PROVE  Held'
  <1>1. \A q \in Pids : SameStop(kern[q], kern'[q])
    BY StopSame
  <1>2. pc' = "stop" /\ frame'.task = p /\ frame'.leader = l /\ frame'.cont = cont
    BY DEF stop_threads
  <1>3. \A q \in Pids : Skipped(pc', frame', q) => task[q].event \notin Exits
    BY <1>2 DEF Skipped, Skips
  <1>4. Kept' /\ Unheard' /\ Closing' /\ Killers' /\ Spared' /\ Queued' = Queued
    BY <1>1, <1>2, <1>3, QuietHeld
  <1>5. Whole' = Whole
    BY DEF Whole, Ops
  <1>6. Plain'
    BY <1>1, <1>2, <1>5 DEF Plain, SameStop, Alike
  <1>7. Named'
    BY <1>1, <1>2 DEF Named, SameStop, Alike
  <1> QED BY <1>4, <1>6, <1>7 DEF Held

\* A handler, a command or mtrace_exit stops a process.
LEMMA StopStepsHeld ==
  ASSUME IInv, Halted, Sound, Held, Lasting, opt' = opt,
         \/ \E p \in Pids : HandleExitLeader(p) \/ HandleExecNoFollow(p) \/ HandleBreakpointSw(p)
         \/ \E l \in Pids : ServerCommand(l) \/ QuitRemove(l)
         \/ StopNext \/ Quit
  PROVE  Held'
  <1>0. \A q \in Pids : q # NoPid
    BY PidsAssumption
  <1>00. Whole => ~do_exit
    BY DEF Held, Plain
  <1>1. ASSUME NEW p \in Pids, HandleExitLeader(p) \/ HandleExecNoFollow(p)
        PROVE  Held'
    <2>1. /\ pc = "handle" /\ frame.task = p /\ stop_threads(p, p, "remove", {}) /\ do_exit' = do_exit
          /\ task' = task /\ event_head' = event_head /\ replies' = replies
          /\ task[p].event \in {"EXIT", "EXEC"} /\ (task[p].event = "EXIT" => task[p].leader = p)
      BY <1>1 DEF HandleExitLeader, HandleExecNoFollow, Handle
    <2>2. task[p].stopped /\ task[p].known /\ Meant(task[p], kern[p], p) /\ GoodTask(task[p], kern[p], p)
      BY <2>1, HandledAlone DEF IInv, TaskFacts
    <2>3. kern[p].tgid = p
      BY <2>1, <2>2 DEF Meant, GoodTask
    <2> QED BY <1>00, <2>1, <2>2, <2>3, StopsHeld
  <1>2. ASSUME NEW p \in Pids, HandleBreakpointSw(p)
        PROVE  Held'
    <2>1. /\ pc = "handle" /\ frame.task = p /\ task[p].event = "BREAKPOINT"
          /\ stop_threads(task[p].leader, p, "disable", {}) /\ "swbp" \in Ops
          /\ task' = task /\ event_head' = event_head /\ replies' = replies
      BY <1>2 DEF HandleBreakpointSw, Handle
    <2>2. ~Whole /\ task[p].event \notin Exits
      BY <2>1 DEF Lasting, Exits
    <2>3. task[p].leader = kern[p].tgid
      BY <2>1, HandledAlone DEF IInv, TaskFacts, GoodTask
    <2> QED BY <2>1, <2>2, <2>3, StopsHeld
  <1>3. ASSUME NEW l \in Pids, ServerCommand(l)
        PROVE  Held'
    <2>1. /\ pc = "main" /\ stop_threads(l, NoPid, "command", {}) /\ do_exit' = do_exit
          /\ task' = task /\ event_head' = event_head /\ replies' = replies
      BY <1>3 DEF ServerCommand, MainLoop
    <2>2. frame.task = NoPid
      BY <2>1 DEF Held, Named
    <2> QED BY <1>0, <1>00, <2>1, <2>2, StopsHeld
  <1>4. ASSUME NEW l \in Pids, QuitRemove(l)
        PROVE  Held'
    <2>1. /\ pc = "main" /\ stop_threads(l, l, "remove", {}) /\ do_exit
          /\ task' = task /\ event_head' = event_head /\ replies' = replies
      BY <1>4 DEF QuitRemove
    <2>2. frame.task = NoPid
      BY <2>1 DEF Held, Named
    <2> QED BY <1>0, <1>00, <2>1, <2>2, StopsHeld
  <1>5. ASSUME StopNext \/ Quit
        PROVE  Held'
    <2>1. PICK l, todo :
             /\ stop_threads(l, NoPid, "quit", todo) /\ pc \in {"main", "stop"}
             /\ task' = task /\ event_head' = event_head /\ replies' = replies
             /\ frame.task = NoPid /\ ~Whole
      <3>1. CASE Quit
        <4>1. pc = "main" /\ "quit" \in Ops
          BY <3>1 DEF Quit, MainLoop
        <4>2. frame.task = NoPid /\ ~Whole
          BY <4>1 DEF Held, Named, Lasting
        <4> QED BY <3>1, <4>1, <4>2 DEF Quit
      <3>2. CASE StopNext
        <4>1. pc = "stop" /\ frame.cont \in {"close", "quit"}
          BY <3>2 DEF StopNext, StopDone
        <4>2. frame.cont = "quit" /\ frame.task = NoPid /\ ~Whole
          BY <4>1 DEF Held, Named, Plain
        <4> QED BY <3>2, <4>1, <4>2 DEF StopNext
      <3> QED BY <1>5, <3>1, <3>2
    <2> QED BY <1>0, <2>1, StopsHeld
  <1> QED BY <1>1, <1>2, <1>3, <1>4, <1>5

\* The ends of loops, and the beginning of the one over the tasks of a process.
LEMMA ReturnsHeld ==
  ASSUME IInv, Halted, Sound, Held, Lasting, opt' = opt,
         \/ SkipReturn \/ QuitStopped \/ MainDone \/ RemoveProc \/ \E p \in Pids : HandleExec(p)
  PROVE  Held'
  <1>0. \A q \in Pids : q # NoPid
    BY PidsAssumption
  <1>1. /\ pc \notin {"step", "destroy"} /\ task' = task /\ kern' = kern /\ do_exit' = do_exit
        /\ event_head' = event_head /\ replies' = replies /\ pc' \in {"main", "done", "destroy"}
    BY DEF SkipReturn, QuitStopped, MainDone, RemoveProc, HandleExec, Handle, StopDone
  <1>2. frame \in Frame
    BY DEF IInv, Rest
  <1>3. \/ pc' \in {"main", "done"} /\ frame'.task = NoPid
           /\ (frame.task = NoPid \/ frame.task \in Queued)
        \/ /\ pc' = "destroy" /\ frame'.task = frame.task /\ frame'.leader = frame'.task
           /\ frame'.cont \in {"remove", "exec"}
           /\ frame'.cont = "remove" => pc = "stop" /\ frame.cont = "remove" /\ frame'.leader = frame.leader
    <2>1. CASE SkipReturn \/ QuitStopped
      BY <2>1 DEF SkipReturn, QuitStopped, StopDone, NoFrame, Held, Named
    <2>2. CASE MainDone
      BY <2>2 DEF MainDone, Held, Named
    <2>3. CASE RemoveProc
      <3>1. /\ pc = "stop" /\ frame.cont = "remove" /\ pc' = "destroy"
            /\ frame' = [frame EXCEPT !.todo = Members(frame.leader) \ {frame.leader}]
        BY <2>3 DEF RemoveProc, StopDone
      <3>2. frame'.task = frame.task /\ frame'.leader = frame.leader /\ frame'.cont = frame.cont
        BY <1>2, <3>1 DEF Frame
      <3>3. frame.task = frame.leader
        BY <3>1 DEF Held, Named
      <3> QED BY <3>1, <3>2, <3>3
    <2>4. CASE \E p \in Pids : HandleExec(p)
      BY <2>4 DEF HandleExec, Handle
    <2> QED BY <2>1, <2>2, <2>3, <2>4
  <1>4. \A q \in Pids : SameStop(kern[q], kern'[q]) /\ ~Skipped(pc', frame', q)
    BY <1>1 DEF SameStop, Alike, Skipped, Skips
  <1>5. \A q \in Pids : frame.task = q => frame'.task = q \/ q \in Queued
    BY <1>0, <1>3
  <1>6. Kept' /\ Unheard' /\ Closing' /\ Killers' /\ Spared' /\ Queued' = Queued
    BY <1>1, <1>4, <1>5, QuietHeld
  <1>7. Whole' = Whole
    BY DEF Whole, Ops
  <1>8. Plain'
    BY <1>1, <1>3, <1>7 DEF Held, Plain
  <1>9. Named'
    BY <1>1, <1>3 DEF Named
  <1> QED BY <1>6, <1>8, <1>9 DEF Held

\* next_event
LEMMA NextEventHeld ==
  ASSUME IInv, Halted, Sound, Held, Lasting, opt' = opt, AssertsHold', NextEvent
  PROVE  Held'
  <1>0. \A q \in Pids : q # NoPid
    BY PidsAssumption
  <1> DEFINE p == Head(event_head)
  <1>1. /\ pc = "main" /\ pc' = "handle" /\ task' = task /\ kern' = kern /\ replies' = replies
        /\ event_head' = Tail(event_head) /\ event_head # <<>> /\ do_exit' = do_exit
        /\ frame' = [NoFrame EXCEPT !.task = p]
    BY DEF NextEvent, MainLoop, AssertsHold
  <1>2. event_head \in Seq(Pids) /\ frame.task = NoPid
    BY <1>1 DEF IInv, Rest, Held, Named
  <1>3. frame'.task = p
    BY <1>1 DEF NoFrame
  <1>4. \A q \in Queued \ {p} : q \in Queued'
    <2> SUFFICES ASSUME NEW i \in DOMAIN event_head, event_head[i] # p
                 PROVE  \E j \in DOMAIN Tail(event_head) : Tail(event_head)[j] = event_head[i]
      BY <1>1 DEF Queued
    <2>1. Len(event_head) \in Nat \ {0} /\ i \in 1..Len(event_head) /\ p = event_head[1]
      BY <1>1, <1>2
    <2>2. i # 1 /\ i - 1 \in 1..(Len(event_head) - 1)
      BY <2>1
    <2>3. /\ DOMAIN Tail(event_head) = 1..(Len(event_head) - 1)
          /\ Tail(event_head)[i - 1] = event_head[i]
      BY <1>1, <1>2, <2>1, <2>2
    <2> QED BY <2>2, <2>3
  <1> HIDE DEF p
  <1>5. Kept'
    BY <1>0, <1>1, <1>2, <1>3, <1>4 DEF Held, Kept, InHand
  <1>6. \A q \in Pids : CallResult(kern[q], kern'[q]) /\ Left(q)
    BY <1>1 DEF CallResult, Left, SameEvent, SameStop, Alike, Stepping, Skipped, Skips
  <1>7. Unheard' /\ Closing' /\ Killers' /\ Spared'
    BY <1>6, KernelHeld
  <1>8. Whole' = Whole
    BY DEF Whole, Ops
  <1> QED BY <1>1, <1>5, <1>7, <1>8 DEF Held, Plain, Named

-----------------------------------------------------------------------------
(* continue_task and task_destroy.                                         *)

\* A task is continued, and the tracer returns to the main loop.
LEMMA ContinuesHeld ==
  ASSUME IInv, Halted, Held, opt' = opt, pc # "step", pc' = "main", frame'.task = NoPid,
         do_exit' = do_exit, NEW p \in Pids, task'[p].known, ~task'[p].stopped,
         RunsOn(kern[p], kern'[p], "running"),
         \A q \in Pids \ {p} : task'[q] = task[q] /\ kern'[q] = kern[q],
         event_head' = event_head, replies' = replies \ {p}, frame.task \in {p, NoPid},
         pc = "destroy" => frame.todo = {}
  PROVE  Held'
  <1>0. \A q \in Pids : q # NoPid
    BY PidsAssumption
  <1>1. replies \subseteq Pids
    BY DEF IInv, Rest
  <1>2. Kept'
    <2>1. Queued' = Queued
      BY DEF Queued
    <2> QED BY <1>0, <1>1, <2>1 DEF Held, Kept, InHand
  <1>3. ASSUME NEW q \in Pids \ {p} PROVE CallResult(kern[q], kern'[q]) /\ Left(q)
    BY <1>3 DEF CallResult, Left, SameEvent, SameStop, Alike, Stepping, Skipped, Skips
  <1>4. CallResult(kern[p], kern'[p])
    BY Calls DEF Halted, Balance
  <1>5. Good(p)
    BY DEF Good
  <1>6. Unheard' /\ Closing' /\ Killers' /\ Spared'
    BY <1>3, <1>4, <1>5, KernelHeld
  <1>7. Whole' = Whole
    BY DEF Whole, Ops
  <1> QED BY <1>2, <1>6, <1>7 DEF Held, Plain, Named

\* continue_task and PTRACE_CONT at the end of a handler.
LEMMA ReturnedHeld ==
  ASSUME IInv, Halted, Held, opt' = opt, pc # "step", NEW p \in Pids, task[p].stopped,
         ContinueAndReturn(p), p \notin replies, frame.task = p,
         pc = "destroy" => frame.todo = {}
  PROVE  Held'
  <1>1. task \in [Pids -> TaskRec] /\ task[p] \in TaskRec /\ task[p].known
    BY DEF IInv, TaskFacts, GoodTask
  <1>2. /\ task'[p].known = task[p].known /\ task'[p].stopped = FALSE
        /\ \A q \in Pids \ {p} : task'[q] = task[q]
    BY <1>1 DEF ContinueAndReturn, continue_task, TaskRec
  <1>3. RunsOn(kern[p], kern'[p], "running") /\ \A q \in Pids \ {p} : kern'[q] = kern[q]
    BY ResumeAt DEF ContinueAndReturn, IInv
  <1>4. /\ pc' = "main" /\ frame'.task = NoPid /\ do_exit' = do_exit /\ event_head' = event_head
        /\ replies' = replies \ {p}
    BY DEF ContinueAndReturn, NoFrame
  <1> QED BY <1>1, <1>2, <1>3, <1>4, ContinuesHeld

\* The handlers that end with continue_task, skip_breakpoint and process_exec.
LEMMA ContinueStepsHeld ==
  ASSUME IInv, Halted, Sound, Held, Lasting, opt' = opt, AssertsHold',
         \/ \E p \in Pids : HandleSignal(p) \/ HandleBreakpointHw(p) \/ HandleNew(p)
         \/ SkipContinue \/ ExecDone
  PROVE  Held'
  <1>1. ASSUME NEW p \in Pids, HandleSignal(p) \/ HandleBreakpointHw(p)
        PROVE  Held'
    <2>1. pc = "handle" /\ frame.task = p /\ ContinueAndReturn(p)
      BY <1>1 DEF HandleSignal, HandleBreakpointHw, Handle, Fail, AssertsHold
    <2>2. task[p].stopped /\ p \notin replies
      BY <2>1, HandledAlone
    <2> QED BY <2>1, <2>2, ReturnedHeld
  <1>2. ASSUME NEW p \in Pids, HandleNew(p)
        PROVE  Held'
    <2>1. /\ pc = "handle" /\ frame.task = p /\ kern' = Resume(kern, p, "running")
          /\ task' = [continue_task(task, p) EXCEPT ![p].is_new = FALSE]
          /\ pc' = "main" /\ frame' = NoFrame /\ do_exit' = do_exit /\ event_head' = event_head
          /\ replies' = replies
      BY <1>2 DEF HandleNew, Handle, Fail, AssertsHold
    <2>2. /\ task[p].stopped /\ p \notin replies /\ task[p].known
          /\ task \in [Pids -> TaskRec] /\ task[p] \in TaskRec
      BY <2>1, HandledAlone
    <2>3. /\ task'[p].known = task[p].known /\ task'[p].stopped = FALSE
          /\ \A q \in Pids \ {p} : task'[q] = task[q]
      BY <2>1, <2>2 DEF continue_task, TaskRec
    <2>4. RunsOn(kern[p], kern'[p], "running") /\ \A q \in Pids \ {p} : kern'[q] = kern[q]
      BY <2>1, ResumeAt DEF IInv
    <2>5. frame'.task = NoPid /\ replies' = replies \ {p}
      BY <2>1, <2>2 DEF NoFrame
    <2> QED BY <2>1, <2>2, <2>3, <2>4, <2>5, ContinuesHeld
  <1>3. ASSUME SkipContinue
        PROVE  Held'
    <2> DEFINE p == frame.task
    <2>1. pc = "stop" /\ frame.cont = "enable" /\ ContinueAndReturn(p) /\ task[p].stopped
      BY <1>3 DEF SkipContinue, StopDone, Fail, AssertsHold
    <2>2. p \in Pids /\ p \notin replies
      BY <2>1 DEF Sound, Handled, Owns
    <2> QED BY <2>1, <2>2, ReturnedHeld
  <1>4. ASSUME ExecDone
        PROVE  Held'
    <2> DEFINE p == frame.leader
    <2>1. /\ pc = "destroy" /\ frame.cont = "exec" /\ ContinueAndReturn(p) /\ task[p].stopped
          /\ frame.todo = {}
      BY <1>4 DEF ExecDone, Fail, AssertsHold
    <2>2. p \in Pids /\ p \notin replies /\ frame.task = p
      BY <2>1 DEF Sound, Emptying, Held, Named
    <2> QED BY <2>1, <2>2, ReturnedHeld
  <1> QED BY <1>1, <1>2, <1>3, <1>4

\* MT_ABOUT_EXIT from the client.
LEMMA ServerAboutExitHeld ==
  ASSUME IInv, Halted, Sound, Held, Lasting, opt' = opt, AssertsHold',
         NEW p \in Pids, ServerAboutExit(p)
  PROVE  Held'
  <1>1. /\ pc = "main" /\ pc' = "main" /\ task[p].known /\ task[p].stopped /\ frame' = frame
        /\ task' = continue_task(task, p) /\ kern' = Resume(kern, p, "running")
        /\ replies' = replies \ {p} /\ event_head' = event_head /\ do_exit' = do_exit
    BY DEF ServerAboutExit, Fail, AssertsHold
  <1>2. frame.task = NoPid
    BY <1>1 DEF Held, Named
  <1>3. task \in [Pids -> TaskRec] /\ task[p] \in TaskRec
    BY DEF IInv, TaskFacts
  <1>4. /\ task'[p].known = task[p].known /\ task'[p].stopped = FALSE
        /\ \A q \in Pids \ {p} : task'[q] = task[q]
    BY <1>1, <1>3 DEF continue_task, TaskRec
  <1>5. RunsOn(kern[p], kern'[p], "running") /\ \A q \in Pids \ {p} : kern'[q] = kern[q]
    BY <1>1, ResumeAt DEF IInv
  <1> QED BY <1>1, <1>2, <1>4, <1>5, ContinuesHeld

\* handle_about_exit: the leader waits for the client, a thread goes on.
LEMMA HandleAboutExitHeld ==
  ASSUME IInv, Halted, Sound, Held, Lasting, opt' = opt, NEW p \in Pids, HandleAboutExit(p)
  PROVE  Held'
  <1>0. \A q \in Pids : q # NoPid
    BY PidsAssumption
  <1>1. pc = "handle" /\ frame.task = p
    BY DEF HandleAboutExit, Handle
  <1>2. /\ task[p].stopped /\ p \notin replies /\ task \in [Pids -> TaskRec] /\ task[p] \in TaskRec
    BY <1>1, HandledAlone
  <1>3. CASE ContinueAndReturn(p)
    BY <1>1, <1>2, <1>3, ReturnedHeld
  <1>4. CASE /\ task' = [task EXCEPT ![p].about_exit = TRUE] /\ replies' = replies \cup {p}
             /\ pc' = "main" /\ frame' = NoFrame
             /\ UNCHANGED <<threads, threads_stopped, event_head, kern, connected, do_exit, opt>>
    <2>1. /\ task'[p].known = task[p].known /\ task'[p].stopped = task[p].stopped
          /\ task'[p].is_new = task[p].is_new /\ task'[p].event = task[p].event
          /\ task'[p].defer = task[p].defer /\ task'[p].about_exit = TRUE
          /\ \A q \in Pids \ {p} : task'[q] = task[q]
      BY <1>2, <1>4 DEF TaskRec
    <2>2. frame'.task = NoPid /\ Queued' = Queued /\ replies \subseteq Pids
      BY <1>4 DEF NoFrame, Queued, IInv, Rest
    <2>3. Kept'
      BY <1>0, <1>1, <1>4, <2>1, <2>2 DEF Held, Kept, InHand
    <2>4. ASSUME NEW q \in Pids PROVE CallResult(kern[q], kern'[q]) /\ Left(q)
      BY <1>1, <1>4, <2>1 DEF CallResult, Left, SameEvent, SameStop, Alike, Stepping, Skipped, Skips
    <2>5. Unheard' /\ Closing' /\ Killers' /\ Spared'
      BY <2>4, KernelHeld
    <2>6. Whole' = Whole
      BY DEF Whole, Ops
    <2> QED BY <1>4, <2>2, <2>3, <2>5, <2>6 DEF Held, Plain, Named
  <1> QED BY <1>3, <1>4 DEF HandleAboutExit

\* remove_event takes one task off the list.
LEMMA RemoveKeeps ==
  ASSUME NEW q \in Seq(Pids), NEW p, NEW x \in Listed(q), x # p
  PROVE  x \in Listed(remove_event(q, p))
  <1>1. CASE ~\E i \in DOMAIN q : q[i] = p
    BY <1>1 DEF remove_event
  <1>2. CASE \E i \in DOMAIN q : q[i] = p
    <2>1. PICK n \in DOMAIN q :
             q[n] = p /\ remove_event(q, p) = SubSeq(q, 1, n - 1) \o SubSeq(q, n + 1, Len(q))
      <3> DEFINE n == CHOOSE i \in DOMAIN q : q[i] = p
      <3>1. n \in DOMAIN q /\ q[n] = p
        BY <1>2
      <3>2. remove_event(q, p) = SubSeq(q, 1, n - 1) \o SubSeq(q, n + 1, Len(q))
        BY <1>2 DEF remove_event
      <3> QED BY <3>1, <3>2
    <2>2. PICK i \in DOMAIN q : q[i] = x
      BY DEF Listed
    <2> DEFINE A == SubSeq(q, 1, n - 1)
               C == SubSeq(q, n + 1, Len(q))
    <2>3. Len(q) \in Nat /\ n \in 1..Len(q) /\ i \in 1..Len(q) /\ i # n
      BY <2>1, <2>2
    <2>4. /\ A \in Seq(Pids) /\ Len(A) = n - 1 /\ \A j \in 1..(n - 1) : A[j] = q[j]
      BY <2>3, SubSeqProperties
    <2>5. /\ C \in Seq(Pids) /\ Len(C) = Len(q) - n /\ \A j \in 1..(Len(q) - n) : C[j] = q[n + j]
      BY <2>3, SubSeqProperties
    <2> HIDE DEF A, C
    <2>9. Len(A) + Len(C) = Len(q) - 1
      BY <2>3, <2>4, <2>5
    <2>10. /\ A \o C \in Seq(Pids) /\ Len(A \o C) = Len(A) + Len(C)
           /\ \A j \in 1..(Len(A) + Len(C)) : (A \o C)[j] = IF j <= Len(A) THEN A[j] ELSE C[j - Len(A)]
      BY <2>4, <2>5, ConcatProperties
    <2>11. DOMAIN (A \o C) = 1..(Len(q) - 1)
      BY <2>9, <2>10
    <2>6. \A j \in 1..(Len(q) - 1) : (A \o C)[j] = IF j <= n - 1 THEN A[j] ELSE C[j - (n - 1)]
      BY <2>4, <2>9, <2>10
    <2>7. CASE i < n
      <3>1. i \in 1..(n - 1) /\ i \in 1..(Len(q) - 1) /\ i <= n - 1
        BY <2>3, <2>7
      <3>2. (A \o C)[i] = x
        BY <2>2, <2>4, <2>6, <3>1
      <3> QED BY <2>1, <2>11, <3>1, <3>2 DEF Listed, A, C
    <2>8. CASE i > n
      <3>1. i - 1 \in 1..(Len(q) - 1) /\ ~(i - 1 <= n - 1) /\ (i - 1) - (n - 1) = i - n
            /\ i - n \in 1..(Len(q) - n) /\ n + (i - n) = i
        BY <2>3, <2>8
      <3>2. (A \o C)[i - 1] = x
        BY <2>2, <2>5, <2>6, <3>1
      <3> QED BY <2>1, <2>11, <3>1, <3>2 DEF Listed, A, C
    <2> QED BY <2>3, <2>7, <2>8
  <1> QED BY <1>1, <1>2

\* task_destroy of a task that is not on its way to its exit stop.
LEMMA DestroysHeld ==
  ASSUME IInv, Halted, Held, opt' = opt, pc # "step", pc' \in {"main", "destroy"},
         NEW p \in Pids, task[p].stopped, task_destroy(p), kern[p].st # "running",
         frame.task \in {p, frame'.task},
         \A q \in Pids \ {p} : pc = "destroy" /\ q \in frame.todo => pc' = "destroy" /\ q \in frame'.todo
  PROVE  /\ Kept' /\ Unheard' /\ Closing' /\ Killers' /\ Spared'
         /\ \A q \in Pids \ {p} : task'[q] = task[q] /\ kern'[q] = kern[q]
  <1>1. task[p].known /\ task \in [Pids -> TaskRec]
    BY DEF IInv, TaskFacts, GoodTask
  <1>2. task'[p] = NoTask /\ \A q \in Pids \ {p} : task'[q] = task[q]
    BY <1>1 DEF task_destroy
  <1>3. LetGo(kern[p], kern'[p]) /\ \A q \in Pids \ {p} : kern'[q] = kern[q]
    BY DetachAt DEF IInv, task_destroy
  <1>4. event_head' = remove_event(event_head, p) /\ replies' = replies \ {p}
        /\ replies \subseteq Pids /\ event_head \in Seq(Pids)
    BY DEF task_destroy, IInv, Rest
  <1>5. \A q \in Queued \ {p} : q \in Queued'
    <2>1. Queued = Listed(event_head) /\ Queued' = Listed(event_head')
      BY DEF Queued, Listed
    <2> QED BY <1>4, <2>1, RemoveKeeps
  <1>6. ~task'[p].stopped /\ ~task'[p].known
    BY <1>2 DEF NoTask
  <1>7. Kept'
    <2>1. ASSUME NEW q \in Pids, task'[q].stopped PROVE InHand(q)'
      <3>1. q # p /\ task[q].stopped
        BY <1>2, <1>6, <2>1
      <3>2. InHand(q)
        BY <3>1 DEF Held, Kept
      <3> QED BY <1>4, <1>5, <3>1, <3>2 DEF InHand
    <2>2. \A q \in replies' : task'[q].about_exit
      BY <1>2, <1>4 DEF Held, Kept
    <2> QED BY <2>1, <2>2 DEF Kept
  <1>8. ASSUME NEW q \in Pids \ {p} PROVE CallResult(kern[q], kern'[q]) /\ Left(q)
    BY <1>2, <1>3, <1>8 DEF CallResult, Left, SameEvent, SameStop, Alike, Stepping, Skipped, Skips
  <1>9. CallResult(kern[p], kern'[p])
    BY <1>3, Calls DEF Halted, Balance
  <1>10. Good(p)
    <2>1. Quiet(kern[p]) /\ Regular(kern[p])
      BY <1>1 DEF Halted, Balance, Stepping, Agree
    <2>2. kern[p].st \in {"stopped", "zombie", "gone"}
      BY <2>1 DEF Quiet, Regular
    <2>3. kern'[p].st \in {"zombie", "gone"}
      BY <1>3, <2>2 DEF LetGo
    <2> QED BY <1>6, <2>3 DEF Good
  <1>11. Unheard' /\ Closing' /\ Killers' /\ Spared'
    BY <1>8, <1>9, <1>10, KernelHeld
  <1> QED BY <1>2, <1>3, <1>7, <1>11

\* handle_exit of a thread, and the loop over the tasks of a process.
LEMMA DestroyStepsHeld ==
  ASSUME IInv, Halted, Sound, Held, Lasting, opt' = opt, AssertsHold',
         (\E p \in Pids : HandleExitThread(p) \/ DestroyTask(p)) \/ DestroyLeader
  PROVE  Held'
  <1>0. Whole' = Whole
    BY DEF Whole, Ops
  <1>1. ASSUME NEW p \in Pids, HandleExitThread(p)
        PROVE  Held'
    <2>1. /\ pc = "handle" /\ frame.task = p /\ task[p].event = "EXIT" /\ task_destroy(p)
          /\ pc' = "main" /\ frame' = NoFrame /\ do_exit' = do_exit
      BY <1>1 DEF HandleExitThread, Handle
    <2>2. task[p].stopped /\ kern[p].st = "gone"
      BY <2>1, HandledAlone DEF Meant
    <2>3. Kept' /\ Unheard' /\ Closing' /\ Killers' /\ Spared'
      BY <2>1, <2>2, DestroysHeld
    <2>4. frame'.task = NoPid
      BY <2>1 DEF NoFrame
    <2> QED BY <1>0, <2>1, <2>3, <2>4 DEF Held, Plain, Named
  <1> DEFINE l == frame.leader
  <1>2. ASSUME pc = "destroy"
        PROVE  /\ l \in Pids /\ task[l].stopped /\ task[l].leader = l /\ task[l].known
               /\ kern[l].tgid = l /\ Regular(kern[l]) /\ Quiet(kern[l])
               /\ frame.todo = Members(l) \ {l} /\ \A q \in frame.todo : task[q].stopped
    <2>1. /\ l \in Pids /\ task[l].stopped /\ task[l].leader = l
          /\ frame.todo = Members(l) \ {l} /\ \A q \in frame.todo : task[q].stopped
      BY <1>2 DEF Sound, Emptying
    <2>2. task[l].known /\ kern[l].tgid = l
      BY <2>1 DEF IInv, TaskFacts, GoodTask
    <2>3. Regular(kern[l]) /\ Quiet(kern[l])
      BY <1>2, <2>1, <2>2 DEF Halted, Balance, Stepping, Agree
    <2> QED BY <2>1, <2>2, <2>3
  <1>3. ASSUME pc = "destroy", frame.cont = "exec" \/ Whole
        PROVE  Alone(kern, l) /\ (frame.cont = "remove" => kern[l].st # "running")
    <2>1. CASE frame.cont = "exec"
      BY <1>3, <2>1 DEF Sound, Emptying
    <2>2. CASE Whole /\ frame.cont # "exec"
      <3>1. frame.cont = "remove"
        BY <1>3, <2>2 DEF Held, Named
      <3>2. task[l].stopped /\ task[l].event \in {"EXIT", "EXEC"} /\ kern[l].tgid = l
        BY <1>3, <2>2, <3>1 DEF Held, Plain
      <3>3. CASE task[l].event = "EXIT"
        BY <1>2, <1>3, <3>2, <3>3 DEF Held, Closing, Sound, Sense, Meant
      <3>4. CASE task[l].event = "EXEC"
        BY <1>2, <1>3, <3>2, <3>4 DEF Sound, Execs
      <3> QED BY <3>2, <3>3, <3>4
    <2> QED BY <1>3, <2>1, <2>2
  <1>4. ASSUME NEW p \in Pids, DestroyTask(p)
        PROVE  Held'
    <2>1. /\ pc = "destroy" /\ p \in frame.todo /\ task[p].stopped /\ task_destroy(p)
          /\ frame' = [frame EXCEPT !.todo = @ \ {p}] /\ pc' = "destroy" /\ do_exit' = do_exit
      BY <1>4 DEF DestroyTask, Fail, AssertsHold
    <2>2. p # l /\ kern[p].tgid = l
      BY <1>2, <2>1 DEF Members, Known, IInv, TaskFacts, GoodTask
    <2>3. /\ frame'.task = frame.task /\ frame'.leader = l /\ frame'.cont = frame.cont
          /\ frame'.todo = frame.todo \ {p}
      BY <2>1 DEF IInv, Rest, Frame
    <2>4. kern[p].st # "running"
      <3>1. CASE frame.cont = "exec" \/ Whole
        BY <1>3, <2>1, <2>2, <3>1 DEF Alone
      <3>2. CASE ~Whole
        <4>1. kern[l].st # "execing"
          BY <1>2, <2>1 DEF Quiet, Regular
        <4>2. kern[p].st = "running" => kern[p].dying
          BY <2>1 DEF Halted, Balance, Stepping, Agree, Quiet, IInv, TaskFacts, GoodTask
        <4> QED BY <2>2, <3>2, <4>1, <4>2 DEF Held, Killers
      <3> QED BY <3>1, <3>2
    <2>5. /\ Kept' /\ Unheard' /\ Closing' /\ Killers' /\ Spared'
          /\ \A q \in Pids \ {p} : task'[q] = task[q] /\ kern'[q] = kern[q]
      BY <2>1, <2>3, <2>4, DestroysHeld
    <2>6. task'[l] = task[l] /\ kern'[l] = kern[l]
      BY <1>2, <2>1, <2>2, <2>5
    <2>7. Plain'
      BY <1>0, <2>1, <2>3, <2>6 DEF Held, Plain
    <2>8. Named'
      BY <2>1, <2>3 DEF Held, Named
    <2> QED BY <2>5, <2>7, <2>8 DEF Held
  <1>5. ASSUME DestroyLeader
        PROVE  Held'
    <2>1. /\ pc = "destroy" /\ frame.cont = "remove" /\ task_destroy(l) /\ frame.todo = {}
          /\ frame' = NoFrame /\ pc' = "main" /\ do_exit' = do_exit
      BY <1>5 DEF DestroyLeader, Fail, AssertsHold
    <2>2. kern[l].st # "running"
      <3>1. CASE Whole
        BY <1>3, <2>1, <3>1
      <3>2. CASE ~Whole
        <4>1. ~kern[l].dying \/ kern[l].st = "gone"
          BY <1>2, <2>1, <3>2 DEF Held, Killers
        <4> QED BY <1>2, <2>1, <4>1 DEF Quiet
      <3> QED BY <3>1, <3>2
    <2>3. frame.task = l
      BY <2>1 DEF Held, Named
    <2>4. Kept' /\ Unheard' /\ Closing' /\ Killers' /\ Spared'
      BY <1>2, <2>1, <2>2, <2>3, DestroysHeld
    <2>5. frame'.task = NoPid
      BY <2>1 DEF NoFrame
    <2> QED BY <1>0, <2>1, <2>4, <2>5 DEF Held, Plain, Named
  <1> QED BY <1>1, <1>4, <1>5

-----------------------------------------------------------------------------
(* Wait statuses.                                                          *)

\* wait_event collects the status of p.
LEMMA CollectsHeld ==
  ASSUME IInv, Halted, Held, opt' = opt, NEW p \in Pids, pc = "step" => frame.task = p,
         WaitReady(kern, p), kern' = Reap(kern, p),
         \A q \in Pids \ {p} : task'[q] = task[q],
         \A q \in Pids : Skipped(pc', frame', q) => Skipped(pc, frame, q),
         task'[p].known \/ kern[p].st = "zombie",
         task'[p].stopped /\ task'[p].event = "EXIT" => kern[p].status = "exited",
         ~Whole /\ task'[p].known /\ task'[p].stopped /\ kern[p].status = "exited" =>
           task'[p].event \in Exits /\ ~Skipped(pc', frame', p)
  PROVE  /\ Unheard' /\ Closing' /\ Killers' /\ Spared'
         /\ \A q \in Pids \ {p} : kern'[q] = kern[q]
         /\ \A q \in Pids : kern'[q].tgid = kern[q].tgid
  <1>1. Collected(kern[p], kern'[p]) /\ \A q \in Pids \ {p} : kern'[q] = kern[q]
    BY ReapAt DEF IInv, WaitReady
  <1>2. Regular(kern[p])
    BY DEF Halted, Balance
  <1>3. ASSUME NEW q \in Pids \ {p} PROVE CallResult(kern[q], kern'[q]) /\ Left(q)
    BY <1>1, <1>3 DEF CallResult, Left, SameEvent, SameStop, Alike, Stepping
  <1>4. CallResult(kern[p], kern'[p])
    BY <1>1, <1>2, Calls
  <1>5. Dead(kern'[p]) => kern[p].status = "exited"
    BY <1>1, <1>2 DEF Collected, Regular, Dead
  <1>6. kern[p].st = "zombie" => kern'[p].st = "gone"
    BY <1>1 DEF Collected
  <1>7. ASSUME kern[p].status = "exited", kern'[p].tgid = p
        PROVE  Alone(kern', p)
    <2>1. kern[p].st = "zombie" /\ kern[p].tgid = p
      BY <1>1, <1>2, <1>7 DEF Regular, Collected, Alike
    <2>2. \A q \in Group(kern, p) \ {p} : kern[q].st = "gone"
      BY <2>1 DEF WaitReady
    <2> QED BY <1>1, <2>1, <2>2 DEF Alone, Group
  <1>8. Good(p)
    BY <1>5, <1>6, <1>7 DEF Good
  <1>9. Unheard' /\ Closing' /\ Killers' /\ Spared'
    BY <1>3, <1>4, <1>8, KernelHeld
  <1> QED BY <1>1, <1>4, <1>9 DEF CallResult

\* wait_event, the status of a pid the tracer does not know: the task is dead.
LEMMA WaitUnknownHeld ==
  ASSUME IInv, Halted, Sound, Held, Lasting, opt' = opt, NEW p \in Pids, WaitUnknown(p)
  PROVE  Held'
  <1>1. /\ pc \in {"main", "stop"} /\ pc' = pc /\ frame' = frame /\ event_head' = event_head
        /\ replies' = replies /\ do_exit' = do_exit
        /\ ~task[p].known /\ WaitReady(kern, p) /\ kern' = Reap(kern, p)
    BY DEF WaitUnknown, Waiting, MainLoop
  <1>2. task \in [Pids -> TaskRec] /\ ~task[p].stopped
    BY <1>1 DEF IInv, TaskFacts, GoodTask
  <1>3. Regular(kern[p])
    BY DEF Halted, Balance
  <1>4. kern[p].st = "zombie" /\ kern[p].status = "exited"
    BY <1>1, <1>3 DEF WaitReady, Held, Unheard, Regular
  <1>5. \A q \in Pids \ {p} : task'[q] = task[q]
    BY <1>2 DEF WaitUnknown, task_new
  <1>6. ~task'[p].stopped
    <2>1. CASE ~CanInit(p)
      BY <1>2, <2>1 DEF WaitUnknown
    <2>2. CASE CanInit(p)
      <3>1. task' = task_new(task, p, LeaderOf(p))
        BY <1>4, <2>2 DEF WaitUnknown
      <3>2. task'[p] = [NoTask EXCEPT !.known = TRUE, !.leader = LeaderOf(p), !.is_new = TRUE]
        BY <1>2, <3>1 DEF task_new
      <3> QED BY <3>2 DEF NoTask
    <2> QED BY <2>1, <2>2
  <1>7. /\ Unheard' /\ Closing' /\ Killers' /\ Spared' /\ \A q \in Pids \ {p} : kern'[q] = kern[q]
        /\ \A q \in Pids : kern'[q].tgid = kern[q].tgid
    BY <1>1, <1>4, <1>5, <1>6, CollectsHeld
  <1>8. Queued' = Queued /\ replies \subseteq Pids /\ p \notin replies
    BY <1>1, <1>2 DEF Queued, IInv, Rest, Sound, Answers
  <1>9. Kept'
    BY <1>1, <1>5, <1>6, <1>8 DEF Held, Kept, InHand
  <1>10. Whole' = Whole
    BY DEF Whole, Ops
  <1>11. Plain'
    <2>1. pc = "stop" => frame.leader \in Pids
      BY DEF IInv, FrameFacts
    <2>2. Whole /\ pc = "stop" /\ frame.cont = "remove" => frame.leader # p
      BY <1>2 DEF Held, Plain
    <2> QED BY <1>1, <1>5, <1>7, <1>10, <2>1, <2>2 DEF Held, Plain
  <1>12. Named'
    BY <1>1, <1>7, <1>8 DEF Held, Named, IInv, FrameFacts
  <1> QED BY <1>7, <1>9, <1>11, <1>12 DEF Held

\* wait_event, a stopped task was killed.
LEMMA WaitStoppedHeld ==
  ASSUME IInv, Halted, Sound, Held, Lasting, opt' = opt, NEW p \in Pids, WaitStopped(p)
  PROVE  Held'
  <1>1. pc \in {"main", "stop"} /\ task[p].known /\ task[p].stopped /\ WaitReady(kern, p)
        /\ kern[p].status # "none"
    BY DEF WaitStopped, Waiting, MainLoop, WaitReady
  <1>2. kern[p].status \in {"exited", "event_exit"} /\ Regular(kern[p])
    BY <1>1 DEF Halted, Balance, Stepping, Agree, Last
  <1>3. /\ kern' = Reap(kern, p) /\ pc' = pc /\ frame' = frame /\ event_head' = event_head
        /\ replies' = replies /\ do_exit' = do_exit
        /\ task' = [task EXCEPT ![p].event = IF kern[p].status = "exited" THEN "EXIT" ELSE "ABOUT_EXIT"]
    BY <1>2 DEF WaitStopped
  <1>4. task \in [Pids -> TaskRec] /\ task[p] \in TaskRec
    BY DEF IInv, TaskFacts
  <1>5. /\ task'[p].known = task[p].known /\ task'[p].stopped = task[p].stopped
        /\ task'[p].about_exit = task[p].about_exit
        /\ task'[p].event = IF kern[p].status = "exited" THEN "EXIT" ELSE "ABOUT_EXIT"
        /\ \A q \in Pids \ {p} : task'[q] = task[q]
    BY <1>3, <1>4 DEF TaskRec
  <1>6. ~Whole /\ kern[p].status = "exited" => ~Skipped(pc', frame', p)
    BY <1>1, <1>2, <1>3 DEF Held, Spared, Dead, Regular, Stepping
  <1>7. /\ Unheard' /\ Closing' /\ Killers' /\ Spared' /\ \A q \in Pids \ {p} : kern'[q] = kern[q]
        /\ \A q \in Pids : kern'[q].tgid = kern[q].tgid
    <2>1. kern[p].status = "exited" => task'[p].event \in Exits
      BY <1>5 DEF Exits
    <2>2. task'[p].known
      BY <1>1, <1>5
    <2>3. task'[p].event = "EXIT" => kern[p].status = "exited"
      BY <1>5
    <2> QED BY <1>1, <1>3, <1>5, <1>6, <2>1, <2>2, <2>3, CollectsHeld
  <1>8. Queued' = Queued /\ replies \subseteq Pids
    BY <1>3 DEF Queued, IInv, Rest
  <1>9. Kept'
    BY <1>3, <1>5, <1>8 DEF Held, Kept, InHand
  <1>10. Whole' = Whole
    BY DEF Whole, Ops
  <1>11. Plain'
    <2>1. pc = "stop" => frame.leader \in Pids
      BY DEF IInv, FrameFacts
    <2>2. task[p].event # "EXIT"
      BY <1>1, <1>2 DEF Sound, Sense, Meant, Regular
    <2>3. task[p].event # "EXEC"
      <3>1. Passage(kern[p], p)
        BY DEF Sound, Sense
      <3> QED BY <1>1, <1>2, <3>1 DEF Sound, Execs, Passage, Regular
    <2>4. Whole /\ pc = "stop" /\ frame.cont = "remove" => frame.leader # p
      BY <2>2, <2>3 DEF Held, Plain
    <2> QED BY <1>1, <1>3, <1>5, <1>7, <1>10, <2>1, <2>4 DEF Held, Plain
  <1>12. Named'
    BY <1>3, <1>7, <1>8 DEF Held, Named, IInv, FrameFacts
  <1> QED BY <1>7, <1>9, <1>11, <1>12 DEF Held

\* wait_event of a running task: it is handled or queued.
LEMMA WaitProcessHeld ==
  ASSUME IInv, Halted, Sound, Held, Lasting, opt' = opt, NEW p \in Pids, WaitProcess(p)
  PROVE  Held'
  <1> DEFINE s == kern[p].status
             T == [task EXCEPT ![p].stopped = TRUE, ![p].event = EventOf(p, s),
                               ![p].newpid = NoPid]
  <1>0. \A q \in Pids : q # NoPid
    BY PidsAssumption
  <1>1. pc \in {"main", "stop"} /\ task[p].known /\ ~task[p].stopped /\ WaitReady(kern, p) /\ s # "none"
    BY DEF WaitProcess, Waiting, MainLoop, WaitReady
  <1>2. task[p].event = "NONE" /\ s \notin Births /\ s \in Status
    BY <1>1 DEF Sound, Sense, Meant, Passage, IInv, KernelFacts, KTask
  <1>3. kern' = Reap(kern, p) /\ task' = T /\ Return(p) /\ replies' = replies /\ do_exit' = do_exit
    BY <1>2 DEF WaitProcess, Births
  <1>4. task \in [Pids -> TaskRec] /\ task[p] \in TaskRec
    BY DEF IInv, TaskFacts
  <1>5. Means(EventOf(p, s), s, task[p].is_new)
    BY <1>2, EventMeans
  <1>6. /\ task'[p].known = task[p].known /\ task'[p].stopped = TRUE
        /\ task'[p].about_exit = task[p].about_exit /\ task'[p].event = EventOf(p, s)
        /\ \A q \in Pids \ {p} : task'[q] = task[q]
    BY <1>3, <1>4 DEF TaskRec
  <1>7. (EventOf(p, s) = "EXIT" => s = "exited") /\ (s = "exited" => EventOf(p, s) \in Exits)
    BY <1>5 DEF Means, Exits
  <1>8. ~Skipped(pc, frame, p)
    BY <1>1 DEF Sound, Handled, Owns, Skipped, Skips
  <1>9. \/ pc = "stop" /\ event_head' = Append(event_head, p) /\ pc' = pc /\ frame' = frame
        \/ /\ pc = "main" /\ event_head' = event_head /\ pc' = "handle" /\ frame'.task = p
           /\ frame.task = NoPid
    BY <1>1, <1>3 DEF Return, NoFrame, Held, Named
  <1>10. \A q \in Pids : Skipped(pc', frame', q) => Skipped(pc, frame, q)
    BY <1>9 DEF Skipped, Skips
  <1>11. /\ Unheard' /\ Closing' /\ Killers' /\ Spared' /\ \A q \in Pids \ {p} : kern'[q] = kern[q]
         /\ \A q \in Pids : kern'[q].tgid = kern[q].tgid
    BY <1>1, <1>3, <1>6, <1>7, <1>8, <1>10, CollectsHeld
  <1>12. pc = "stop" => Queued' = Queued \cup {p}
    <2>1. ASSUME pc = "stop" PROVE Queued' = Queued \cup {p}
      <3>1. event_head \in Seq(Pids) /\ Once(event_head) /\ Queued = Listed(event_head) /\ p \notin Queued
        BY <1>1 DEF IInv, Rest, Sound, QueueSound, Once, Queued, Listed
      <3>2. Listed(event_head') = Queued \cup {p}
        BY <1>9, <2>1, <3>1, AppendOnce
      <3> QED BY <3>2 DEF Queued, Listed
    <2> QED BY <2>1
  <1>13. Queued' = Queued \/ (pc = "stop" /\ Queued' = Queued \cup {p})
    BY <1>9, <1>12 DEF Queued
  <1>14. Kept'
    <2>1. \A q \in Queued : q \in Queued'
      BY <1>13
    <2>2. replies \subseteq Pids
      BY DEF IInv, Rest
    <2>3. ASSUME NEW q \in Pids, task'[q].stopped PROVE InHand(q)'
      <3>1. CASE q = p
        BY <1>9, <1>12, <3>1 DEF InHand
      <3>2. CASE q # p
        <4>1. InHand(q)
          BY <1>6, <2>3, <3>2 DEF Held, Kept
        <4>2. frame.task = q => frame'.task = q
          BY <1>0, <1>9
        <4> QED BY <1>1, <1>3, <2>1, <4>1, <4>2 DEF InHand
      <3> QED BY <3>1, <3>2
    <2>4. \A q \in replies' : task'[q].about_exit
      BY <1>3, <1>6, <2>2 DEF Held, Kept
    <2> QED BY <2>3, <2>4 DEF Kept
  <1>15. Whole' = Whole
    BY DEF Whole, Ops
  <1>16. Plain'
    <2>1. pc = "stop" => frame.leader \in Pids
      BY DEF IInv, FrameFacts
    <2>2. Whole /\ pc = "stop" /\ frame.cont = "remove" => frame.leader # p
      BY <1>1 DEF Held, Plain
    <2>3. CASE pc = "stop" /\ pc' = pc /\ frame' = frame
      <3>1. Whole /\ frame.cont = "remove" =>
              task'[frame.leader] = task[frame.leader] /\ kern'[frame.leader] = kern[frame.leader]
        BY <1>6, <1>11, <2>1, <2>2, <2>3
      <3>2. do_exit' = do_exit
        BY <1>3
      <3> QED BY <1>15, <2>3, <3>1, <3>2 DEF Held, Plain
    <2>4. CASE pc' = "handle"
      BY <1>3, <1>15, <2>4 DEF Held, Plain
    <2> QED BY <1>9, <2>3, <2>4
  <1>17. Named'
    BY <1>9, <1>11, <1>13 DEF Held, Named, IInv, FrameFacts
  <1> QED BY <1>11, <1>14, <1>16, <1>17 DEF Held

-----------------------------------------------------------------------------
(* The single step.                                                        *)

\* handle_singlestep: the task can be stepped, since nobody killed it.
LEMMA SingleStepHeld ==
  ASSUME IInv, Halted, Sound, Held, Lasting, opt' = opt, SingleStep
  PROVE  Held'
  <1> DEFINE p == frame.task
             l == frame.leader
  <1>1. pc = "stop" /\ frame.cont = "disable" /\ threads[l] = threads_stopped[l]
    BY DEF SingleStep, StopDone
  <1>2. /\ p \in Pids /\ task[p].stopped /\ task[p].known /\ Skipped(pc, frame, p) /\ ~Stepping(p)
        /\ l \in Pids /\ l = kern[p].tgid /\ kern[p].st # "absent" /\ ~Whole
    <2>1. p \in Pids /\ task[p].stopped /\ Skipped(pc, frame, p) /\ l \in Pids /\ ~Stepping(p)
      BY <1>1 DEF Sound, Handled, Owns, Skips, Skipped, IInv, FrameFacts, Stepping
    <2>2. l = kern[p].tgid /\ ~Whole
      BY <1>1 DEF Held, Named, Plain
    <2>3. task[p].known /\ kern[p].st # "absent"
      BY <2>1 DEF IInv, TaskFacts, GoodTask
    <2> QED BY <2>1, <2>2, <2>3
  <1>3. kern[l].st # "execing"
    <2>1. CASE task[l].known
      <3>1. kern[l].tgid = l
        BY <1>2 DEF Halted, Families, Kin
      <3>2. l \in Members(l)
        BY <1>2, <2>1, <3>1 DEF Members, Known, IInv, TaskFacts, GoodTask
      <3>3. task[l].stopped
        BY <1>1, <1>2, <3>2, AllStopped
      <3> QED BY <1>1, <1>2, <2>1, <3>3 DEF Halted, Balance, Stepping, Agree, Quiet, Regular
    <2>2. CASE ~task[l].known
      BY <1>2, <2>2 DEF Held, Unheard
    <2> QED BY <2>1, <2>2
  <1>4. ~Dead(kern[p])
    BY <1>2 DEF Held, Spared
  <1>5. ~kern[p].dying
    BY <1>2, <1>3, <1>4 DEF Held, Killers, Dead
  <1>6. kern[p].st = "stopped" /\ ~kern[p].exiting
    <2>1. kern[p].st = "stopped"
      BY <1>2, <1>4, <1>5 DEF Halted, Balance, Agree, Quiet, Dead
    <2>2. ~(kern[p].exiting /\ ~kern[p].dying)
      BY <1>2 DEF Sound, Deaths, Wake
    <2> QED BY <1>5, <2>1, <2>2
  <1>7. /\ task' = [task EXCEPT ![p].event = "NONE"] /\ kern' = Resume(kern, p, "stepping")
        /\ event_head' = event_head /\ replies' = replies /\ do_exit' = do_exit
        /\ pc' = "step" /\ frame' = frame
    BY <1>2, <1>6 DEF SingleStep
  <1>8. task \in [Pids -> TaskRec] /\ task[p] \in TaskRec
    BY <1>2 DEF IInv, TaskFacts
  <1>9. /\ task'[p].known = task[p].known /\ task'[p].stopped = task[p].stopped /\ task'[p].event = "NONE"
        /\ task'[p].about_exit = task[p].about_exit
        /\ \A q \in Pids \ {p} : task'[q] = task[q]
    BY <1>2, <1>7, <1>8 DEF TaskRec
  <1>10. RunsOn(kern[p], kern'[p], "stepping") /\ \A q \in Pids \ {p} : kern'[q] = kern[q]
    BY <1>2, <1>7, ResumeAt DEF IInv
  <1>11. ASSUME NEW q \in Pids \ {p} PROVE CallResult(kern[q], kern'[q]) /\ Left(q)
    BY <1>1, <1>7, <1>9, <1>10, <1>11
       DEF CallResult, Left, SameEvent, SameStop, Alike, Stepping, Skipped, Skips
  <1>12. CallResult(kern[p], kern'[p]) /\ Good(p)
    <2>1. CallResult(kern[p], kern'[p])
      BY <1>2, <1>10, Calls DEF Halted, Balance
    <2> QED BY <1>2, <1>7, <1>9, <2>1 DEF Good
  <1>13. Unheard' /\ Closing' /\ Killers' /\ Spared'
    BY <1>11, <1>12, KernelHeld
  <1>14. Kept'
    <2>1. Queued' = Queued /\ replies \subseteq Pids
      BY <1>7 DEF Queued, IInv, Rest
    <2> QED BY <1>1, <1>7, <1>9, <2>1 DEF Held, Kept, InHand
  <1>15. Whole' = Whole
    BY DEF Whole, Ops
  <1> QED BY <1>2, <1>7, <1>13, <1>14, <1>15 DEF Held, Plain, Named

\* The status after the single step.
LEMMA StepDoneHeld ==
  ASSUME IInv, Halted, Sound, Held, Lasting, opt' = opt, StepDone
  PROVE  Held'
  <1> DEFINE p == frame.task
             s == kern[p].status
  <1>1. /\ pc = "step" /\ WaitReady(kern, p) /\ kern' = Reap(kern, p) /\ pc' = "stop" /\ replies' = replies
        /\ task' = [task EXCEPT ![p].event = EventOf(p, s),
                                ![p].newpid = IF s \in {"clone", "fork"} THEN kern[p].child ELSE NoPid]
        /\ event_head' = IF s = "trap" THEN event_head ELSE Append(event_head, p)
        /\ frame' = [frame EXCEPT !.cont = IF s = "trap" THEN "enable" ELSE "requeue"]
        /\ do_exit' = do_exit
    BY DEF StepDone
  <1>2. /\ p \in Pids /\ p \notin Queued /\ task[p].stopped /\ ~Whole
    BY <1>1 DEF Sound, Handled, Owns, Held, Plain
  <1>3. task[p].known /\ task \in [Pids -> TaskRec] /\ task[p] \in TaskRec /\ s \in Status
    BY <1>2 DEF IInv, TaskFacts, GoodTask, KernelFacts, KTask
  <1>4. /\ task'[p].known = task[p].known /\ task'[p].stopped = task[p].stopped
        /\ task'[p].event = EventOf(p, s) /\ task'[p].about_exit = task[p].about_exit
        /\ \A q \in Pids \ {p} : task'[q] = task[q]
    BY <1>1, <1>2, <1>3 DEF TaskRec
  <1>5. Means(EventOf(p, s), s, task[p].is_new)
    BY <1>2, <1>3, EventMeans DEF Sound, Sense, Passage
  <1>6. (EventOf(p, s) = "EXIT" => s = "exited") /\ (s = "exited" => EventOf(p, s) \in Exits)
    BY <1>5 DEF Means, Exits
  <1>7. frame'.task = p /\ frame'.cont = IF s = "trap" THEN "enable" ELSE "requeue"
    BY <1>1 DEF IInv, Rest, Frame
  <1>8. /\ \A q \in Pids : Skipped(pc', frame', q) => Skipped(pc, frame, q)
        /\ s = "exited" => ~Skipped(pc', frame', p)
    BY <1>1, <1>7 DEF Skipped, Skips
  <1>9. Unheard' /\ Closing' /\ Killers' /\ Spared'
    BY <1>1, <1>2, <1>3, <1>4, <1>6, <1>8, CollectsHeld
  <1>10. Queued' = IF s = "trap" THEN Queued ELSE Queued \cup {p}
    <2>1. event_head \in Seq(Pids) /\ Once(event_head) /\ Queued = Listed(event_head)
      BY DEF IInv, Rest, Sound, QueueSound, Once, Queued, Listed
    <2>2. Listed(Append(event_head, p)) = Queued \cup {p}
      BY <1>2, <2>1, AppendOnce
    <2> QED BY <1>1, <2>1, <2>2 DEF Queued, Listed
  <1>11. Kept'
    <2>1. \A q \in Queued : q \in Queued'
      BY <1>10
    <2>2. replies \subseteq Pids
      BY DEF IInv, Rest
    <2>3. ASSUME NEW q \in Pids, task'[q].stopped PROVE InHand(q)'
      <3>1. InHand(q)
        BY <1>4, <2>3 DEF Held, Kept
      <3> QED BY <1>1, <1>7, <2>1, <3>1 DEF InHand
    <2>4. \A q \in replies' : task'[q].about_exit
      BY <1>1, <1>4, <2>2 DEF Held, Kept
    <2> QED BY <2>3, <2>4 DEF Kept
  <1>12. Whole' = Whole
    BY DEF Whole, Ops
  <1>13. Plain'
    BY <1>2, <1>12 DEF Plain
  <1>14. Named'
    BY <1>1, <1>7, <1>10 DEF Named
  <1> QED BY <1>9, <1>11, <1>13, <1>14 DEF Held

-----------------------------------------------------------------------------
(* The tracees.                                                            *)

\* Without exit_group a task that kills others begins an exec.
LEMMA OnlyExecs ==
  ASSUME ~Whole, NEW p \in Pids, Moves(p), NEW q \in Pids \ {p}, kern'[q] # kern[q]
  PROVE  /\ kern[p].st = "running" /\ kern[p].tgid = p /\ kern'[p].st = "execing"
         /\ kern[q].tgid = p /\ Killed(kern[q], kern'[q])
  <1>1. ~Only(p)
    BY DEF Only
  <1>2. Slain(p) /\ Begins(kern[p], kern'[p]) /\ kern[p].tgid = p
    BY <1>1 DEF Moves, Whole
  <1>3. q \in OthersOf(p) /\ Killed(kern[q], kern'[q])
    BY <1>2 DEF Slain
  <1> QED BY <1>2, <1>3 DEF Begins, OthersOf, Group

\* Only an exec kills, and the leader stays in it until the killed are reaped.
LEMMA KillersKept ==
  ASSUME IInv, Halted, Sound, Held, ~Whole, NEW p \in Pids, Moves(p), NEW q \in Pids,
         kern'[q].dying, kern'[q].st # "gone"
  PROVE  kern'[q].tgid # q /\ kern'[kern'[q].tgid].st = "execing"
  <1> DEFINE l == kern[q].tgid
  <1>1. GoesResult(kern[q], kern'[q])
    BY MovesGo
  <1>2. kern[q].st # "gone" /\ kern'[q].tgid = l
    BY <1>1 DEF GoesResult
  <1>3. CASE kern[q].dying
    <2>1. l # q /\ kern[l].st = "execing"
      BY <1>2, <1>3 DEF Held, Killers
    <2>2. kern[q].st # "absent" /\ Regular(kern[q])
      BY <1>3 DEF Halted, Balance, Regular
    <2>3. l \in Pids /\ kern[l].tgid = l
      BY <2>2 DEF IInv, KernelFacts, Halted, Families, Kin
    <2>4. ~kern[l].dying
      BY <2>1, <2>3 DEF Halted, Balance, Regular
    <2>5. CASE l = p
      <3>1. Executes(kern[p], kern'[p]) /\ \A r \in OthersOf(p) : kern[r].st = "gone"
        BY <2>1, <2>5 DEF Moves, Halts, Leaves, Begins, Executes
      <3>2. q \in OthersOf(p)
        BY <2>1, <2>2, <2>3, <2>5 DEF OthersOf, Group
      <3> QED BY <1>2, <3>1, <3>2
    <2>6. CASE l # p
      <3>1. kern'[l] = kern[l]
        <4> SUFFICES ASSUME kern'[l] # kern[l] PROVE FALSE
          OBVIOUS
        <4>1. kern[l].tgid = p
          BY <2>3, <2>6, OnlyExecs
        <4> QED BY <2>3, <2>6, <4>1
      <3> QED BY <1>2, <2>1, <3>1
    <2> QED BY <2>5, <2>6
  <1>4. CASE ~kern[q].dying
    <2>1. q # p
      BY <1>4 DEF Moves, Halts, Leaves, Begins, Executes, Alike
    <2>2. kern'[q] # kern[q]
      BY <1>4
    <2> QED BY <1>2, <2>1, <2>2, OnlyExecs
  <1> QED BY <1>3, <1>4

\* A task the tracer holds does not die before it is heard of.
LEMMA SparedKept ==
  ASSUME IInv, Halted, Sound, Held, ~Whole, NEW p \in Pids, Moves(p), NEW q \in Pids,
         task[q].known, task[q].stopped, Dead(kern'[q]), ~Stepping(q)
  PROVE  task[q].event \in Exits /\ ~Skipped(pc, frame, q)
  <1>1. CASE Dead(kern[q])
    BY <1>1 DEF Held, Spared
  <1>2. CASE ~Dead(kern[q])
    <2>1. kern[q].st = "stopped" /\ kern[q].exiting
      BY <1>2, MovesGo DEF GoesResult
    <2>2. q # p /\ kern'[q] # kern[q]
      BY <1>2, <2>1, MovesGo
    <2>3. kern[p].st = "running" /\ kern[q].tgid = p
      BY <2>2, OnlyExecs
    <2>4. ~kern[q].dying
      BY <2>1, <2>3 DEF Held, Killers
    <2> QED BY <2>1, <2>4 DEF Sound, Deaths, Wake
  <1> QED BY <1>1, <1>2

\* Every step of the tracees.
LEMMA TraceesHeld ==
  ASSUME IInv, Halted, Sound, Held, Lasting, opt' = opt, Tracees
  PROVE  Held'
  <1>1. PICK p \in Pids : Moves(p)
    BY TraceeKinds DEF Moves, Lasting
  <1>2. /\ task' = task /\ event_head' = event_head /\ pc' = pc /\ frame' = frame
        /\ replies' = replies /\ do_exit' = do_exit
    BY TraceeKinds DEF Tracer, Lasting
  <1>3. Queued' = Queued /\ Whole' = Whole
    BY <1>2 DEF Queued, Whole, Ops
  <1>4. \A q \in Pids : GoesResult(kern[q], kern'[q]) /\ kern'[q].tgid = kern[q].tgid
    BY <1>1, MovesGo DEF GoesResult
  <1>5. Kept'
    BY <1>2, <1>3 DEF Held, Kept, InHand
  <1>6. Unheard'
    <2> SUFFICES ASSUME NEW q \in Pids, ~task[q].known
                 PROVE  kern'[q].st \in {"absent", "zombie", "gone"}
      BY <1>2 DEF Unheard
    <2>1. kern[q].st \in {"absent", "zombie", "gone"}
      BY DEF Held, Unheard
    <2>2. q # p
      BY <1>1, <2>1, MovesGo
    <2>3. kern'[q] = kern[q] \/ Killed(kern[q], kern'[q])
      BY <1>1, <2>2, MovesGo
    <2> QED BY <2>1, <2>3 DEF Killed, Live, SameStop
  <1>7. Closing'
    <2>1. \A m : Alone(kern, m) => Alone(kern', m)
      BY <1>4 DEF Alone, GoesResult
    <2> QED BY <1>2, <1>4, <2>1 DEF Held, Closing
  <1>8. Killers'
    BY <1>1, <1>3, KillersKept DEF Killers
  <1>9. Spared'
    BY <1>1, <1>2, <1>3, SparedKept DEF Spared, Stepping
  <1>10. Plain'
    BY <1>2, <1>3, <1>4 DEF Held, Plain, IInv, FrameFacts
  <1>11. Named'
    BY <1>2, <1>3, <1>4 DEF Held, Named, IInv, FrameFacts
  <1> QED BY <1>5, <1>6, <1>7, <1>8, <1>9, <1>10, <1>11 DEF Held

-----------------------------------------------------------------------------
(* The invariant.                                                          *)

\* After open_pid every stopped task is queued.
LEMMA InitHeld ==
  ASSUME Init, Lasting
  PROVE  Held
  <1>1. Attached \in Seq(Pids) /\ event_head = Attached /\ Queued = AttachedSet
    <2>1. Attached \in Seq(Pids)
      BY ScenariosAssumption DEF Init, Attached, Scenario
    <2>2. event_head = Attached
      BY DEF Init
    <2> QED BY <2>1, <2>2 DEF Queued, AttachedSet
  <1>2. AttachedSet \subseteq Pids
    BY <1>1 DEF AttachedSet
  <1>3. ASSUME NEW p \in AttachedSet
        PROVE  /\ task[p].known = TRUE /\ task[p].event = "NEW"
               /\ kern[p].st = "stopped" /\ kern[p].dying = FALSE
    <2>1. /\ task[p] = [NoTask EXCEPT !.known = TRUE, !.leader = Tgid[p], !.stopped = TRUE,
                                     !.is_new = TRUE, !.event = "NEW"]
          /\ kern[p] = [NoKTask EXCEPT !.st = "stopped", !.tgid = Tgid[p]]
      BY <1>2, <1>3 DEF Init
    <2> QED BY <2>1 DEF NoTask, NoKTask
  <1>4. ASSUME NEW p \in Pids \ AttachedSet
        PROVE  /\ task[p].known = FALSE /\ task[p].stopped = FALSE /\ kern[p].st = "absent"
               /\ kern[p].dying = FALSE
    <2>1. task[p] = NoTask /\ kern[p] = NoKTask
      BY <1>4 DEF Init
    <2> QED BY <2>1 DEF NoTask, NoKTask
  <1>5. pc = "main" /\ replies = {} /\ frame.task = NoPid /\ ~do_exit
    BY DEF Init, NoFrame
  <1>6. Kept
    BY <1>1, <1>4, <1>5 DEF Kept, InHand
  <1>7. Unheard /\ Closing /\ Killers /\ Spared
    BY <1>3, <1>4 DEF Unheard, Closing, Killers, Spared, Dead
  <1>8. Plain /\ Named
    BY <1>5 DEF Plain, Named
  <1> QED BY <1>6, <1>7, <1>8 DEF Held

\* Every step of the tracer, the server and the tracees preserves LInv.
LEMMA NextHeld ==
  ASSUME IInv, Halted, QInv, LInv, [Next]_vars
  PROVE  LInv'
  <1>0. opt' = opt /\ Lasting' = Lasting
    BY OptKept DEF Lasting, Settled, Whole, Ops
  <1> SUFFICES ASSUME Lasting, Held PROVE Held'
    BY <1>0 DEF LInv
  <1>1. Settled /\ Sound /\ AssertsHold'
    <2>1. Settled /\ Settled'
      BY <1>0 DEF Lasting
    <2>2. QInv'
      BY NextSound
    <2> QED BY <2>1, <2>2 DEF QInv, Sound
  <1>2. CASE NextEvent \/ MainDone
    BY <1>0, <1>1, <1>2, NextEventHeld, ReturnsHeld
  <1>3. CASE Wait
    BY <1>0, <1>1, <1>3, WaitUnknownHeld, WaitStoppedHeld, WaitProcessHeld DEF Wait
  <1>4. CASE HandleEvent
    <2>1. PICK p \in Pids :
            \/ HandleSignal(p) \/ HandleNew(p)
            \/ HandleAboutExit(p) \/ HandleExitThread(p) \/ HandleExitLeader(p)
            \/ HandleExec(p) \/ HandleExecNoFollow(p)
            \/ HandleBreakpointHw(p) \/ HandleBreakpointSw(p)
      BY <1>1, <1>4, NoBirths DEF HandleEvent
    <2> QED BY <1>0, <1>1, <2>1, ContinueStepsHeld, HandleAboutExitHeld, DestroyStepsHeld,
               StopStepsHeld, ReturnsHeld
  <1>5. CASE Finish
    BY <1>0, <1>1, <1>5, NoBirths, SingleStepHeld, StepDoneHeld, ContinueStepsHeld, ReturnsHeld,
       DestroyStepsHeld, StopStepsHeld DEF Finish
  <1>6. CASE Server \/ \E l \in Pids : QuitRemove(l)
    BY <1>0, <1>1, <1>6, NoBirths, StopStepsHeld, ServerAboutExitHeld DEF Server
  <1>7. CASE Tracees
    BY <1>0, <1>1, <1>7, TraceesHeld
  <1>8. CASE UNCHANGED vars
    <2>1. /\ task' = task /\ kern' = kern /\ pc' = pc /\ frame' = frame
          /\ event_head' = event_head /\ replies' = replies /\ do_exit' = do_exit
      BY <1>8 DEF vars
    <2>2. Queued' = Queued /\ Whole' = Whole
      BY <1>0, <2>1 DEF Queued, Whole, Ops
    <2> QED BY <2>1, <2>2 DEF Held, Kept, InHand, Unheard, Closing, Killers, Spared, Stepping, Plain, Named
  <1> QED BY <1>2, <1>3, <1>4, <1>5, <1>6, <1>7, <1>8 DEF Next, TracerNext, Terminated

\* LInv is an invariant of the tracer.
THEOREM HoldInductive == Spec => []LInv
  <1>1. Init => LInv
    BY InitHeld DEF LInv
  <1>2. IInv /\ Halted /\ QInv /\ LInv /\ [Next]_vars => LInv'
    BY NextHeld
  <1> QED BY <1>1, <1>2, Inductive, StopsInductive, QueueInductive, PTL DEF Spec

\* A task that the tracer holds stopped is queued, in a handler, about to be removed
\* or waiting for the client's answer, so the traced program never hangs in a stop
\* that nobody ends: whatever stop_threads collects while it waits, whatever events
\* are queued behind it, and whichever tasks end, are killed by an exec or an
\* exit_group, or are removed in the meantime (event.c:60-88, task.c, and
\* sysdeps/linux-gnu/trace.c:475-502).
THEOREM NoStopLost == Spec => [](Lasting => NoLostStop)
  <1>1. LInv => (Lasting => NoLostStop)
    <2> SUFFICES ASSUME LInv, Lasting, NEW p \in Known, task[p].stopped
                 PROVE  \/ p \in Queued \/ frame.task = p \/ (pc = "destroy" /\ p \in frame.todo)
                        \/ task[p].about_exit /\ (p \in replies \/ frame.cont = "close")
      BY DEF NoLostStop
    <2>1. p \in Pids
      BY DEF Known
    <2> QED BY <2>1 DEF LInv, Held, Kept, InHand
  <1> QED BY <1>1, HoldInductive, PTL
=============================================================================
