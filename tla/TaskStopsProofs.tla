--------------------------- MODULE TaskStopsProofs ---------------------------
(***************************************************************************)
(* The tracer's view of who is stopped, and the kernel's, for every set of *)
(* pids and every scenario.  A task that the tracer holds stopped executes *)
(* nothing, unless the tracer is stepping it or it was killed; so nothing  *)
(* of a process runs while a breakpoint is out of its text (StepExclusive). *)
(* A task that it takes for running and that did stop has a status         *)
(* that wait_event will collect (AgreesWithKernel), where forks are        *)
(* followed.                                                               *)
(*                                                                         *)
(* Agree is the relation between one struct task and its kernel task.      *)
(* Every step of the tracer changes the two together, in one of the few    *)
(* ways of TaskStep, and every step of a tracee is an Advance; what a      *)
(* status of a clone or fork says about a child that the tracer does not   *)
(* know yet is in Kin, Led and Fresh.                                      *)
(***************************************************************************)
EXTENDS TaskEventsProofs

Births == {"clone", "fork"}
Last == {"none", "event_exit", "exited"}

\* k executes no instruction of its program any more, or not until it is resumed.
Quiet(k) == k.st \in {"stopped", "zombie", "gone"} \/ k.dying

\* k has not run yet, or is past running.
Waits(k) == k.st \in {"absent", "newborn"} \/ Quiet(k)

\* A stop of k is still to be reported.
Uncollected(k) == k.st = "stopped" => k.status # "none"

\* What holds of every kernel task.
Regular(k) ==
  /\ k.status # "none" => k.st \in {"stopped", "zombie"}
  /\ k.status = "exited" <=> k.st = "zombie"
  /\ k.dying => /\ k.st \in {"running", "stopped", "zombie", "gone"}
                /\ k.st = "stopped" => k.exiting

\* The struct task t and its kernel task k; f: forks are followed.
Agree(t, k, f) ==
  /\ Regular(k)
  /\ t.known /\ t.stopped => Quiet(k) /\ k.status \in Last
  /\ ~t.known => Waits(k) /\ k.status \notin Births
  /\ f /\ t.known /\ ~t.stopped => Uncollected(k)

\* Thread groups have leaders, and a child is in the group of its parent or its own.
Kin(K) ==
  \A p \in Pids :
    /\ K[p].st # "absent" => K[K[p].tgid].st # "absent" /\ K[K[p].tgid].tgid = K[p].tgid
    /\ K[p].status \in Births => K[K[p].child].tgid \in {K[p].tgid, K[p].child}

\* The leader of a known task is known.
Led(T, K) == \A p \in Pids : T[p].known => T[K[p].tgid].known

\* A child the tracer has yet to hear of has not lost its stop.
Fresh(T, K) ==
  \A q \in Pids : T[q].known /\ K[q].status \in Births /\ ~T[K[q].child].known
                    => Uncollected(K[K[q].child])

Stepping(p) == pc = "step" /\ frame.task = p

Balance ==
  \A p \in Pids : Regular(kern[p]) /\ (~Stepping(p) => Agree(task[p], kern[p], Follow))

StepHeld ==
  pc = "step" => task[frame.task].stopped /\ \A q \in Members(frame.leader) : task[q].stopped

TodoHeld ==
  pc = "destroy" => \A q \in frame.todo :
    task[q].known /\ task[q].leader = frame.leader /\ q # frame.leader

Families == Kin(kern) /\ (Follow => Led(task, kern) /\ Fresh(task, kern))

Halted == Balance /\ StepHeld /\ TodoHeld /\ Families

-----------------------------------------------------------------------------
(* One task and its kernel task.                                           *)

Alike(k, k2) == k2.tgid = k.tgid /\ k2.child = k.child /\ k2.dying = k.dying

\* Nothing that matters here changes (a SIGSTOP may be sent).
SameStop(k, k2) ==
  Alike(k, k2) /\ k2.st = k.st /\ k2.status = k.status /\ k2.exiting = k.exiting

\* PTRACE_CONT or PTRACE_SINGLESTEP (how).
RunsOn(k, k2, how) ==
  /\ Alike(k, k2) /\ k2.exiting = k.exiting
  /\ \/ k.st # "stopped" /\ k2.st = k.st /\ k2.status = k.status
     \/ k.st = "stopped" /\ k.exiting /\ k2.st = "zombie" /\ k2.status = "exited"
     \/ k.st = "stopped" /\ ~k.exiting /\ k2.st = how /\ k2.status = "none"

\* waitpid returned its status.
Collected(k, k2) ==
  /\ Alike(k, k2) /\ k2.exiting = k.exiting
  /\ k.status # "none" /\ k2.status = "none"
  /\ k2.st = IF k.st = "zombie" THEN "gone" ELSE k.st

\* PTRACE_DETACH.
LetGo(k, k2) ==
  /\ Alike(k, k2) /\ k2.exiting = k.exiting
  /\ \/ k.st # "stopped" /\ k2.st = k.st /\ k2.status = k.status
     \/ k.st = "stopped" /\ k2.st = "gone" /\ k2.status = "none"

\* The pid p and those it is related to, before and after a step of the tracer.
TaskStep(T, K, T2, K2, f, p) ==
  LET t == T[p]  t2 == T2[p]  k == K[p]  k2 == K2[p]
  IN \/ t2.known = t.known /\ t2.stopped = t.stopped /\ SameStop(k, k2)
     \/ t.known /\ t2.known /\ ~t2.stopped /\ RunsOn(k, k2, "running")
     \/ /\ t.known /\ t.stopped /\ ~t2.known /\ LetGo(k, k2)
        /\ f => \A q \in Pids : T2[q].known => K[q].tgid # p
     \/ /\ t2.known /\ t2.stopped /\ Collected(k, k2)
        /\ t.known \/ (f => T2[k.tgid].known)
     \/ /\ ~t.known /\ t2.known /\ ~t2.stopped /\ Collected(k, k2) /\ k.status = "exited"
        /\ f => T2[k.tgid].known
     \/ /\ ~t.known /\ ~t2.known /\ Collected(k, k2)
        /\ f => \A q \in Pids : T[q].known /\ K[q].status \in Births => K[q].child # p
     \/ /\ ~t.known /\ t2.known /\ ~t2.stopped /\ SameStop(k, k2)
        /\ f => Uncollected(k) /\ T2[k.tgid].known

\* A tracee goes on by itself.
Advance(k, k2) ==
  \/ SameStop(k, k2)
  \/ /\ Alike(k, k2) /\ ~k.dying /\ k.st \in {"newborn", "running", "stepping", "execing"}
     /\ k2.st = "stopped" /\ k2.status \in {"sigstop", "trap", "signal", "exec", "event_exit"}
  \/ /\ Alike(k, k2) /\ k.dying /\ k.st = "running"
     /\ k2.st = "stopped" /\ k2.status = "event_exit" /\ k2.exiting
  \/ /\ Alike(k, k2) /\ ~k.dying /\ k.st = "running" /\ k2.st = "execing" /\ k2.status = k.status
  \/ /\ Alike(k, k2) /\ k.st = "stopped" /\ k2.st = "zombie" /\ k2.status = "exited"
  \/ /\ k2.tgid = k.tgid /\ k2.child = k.child /\ Live(k)
     /\ k2.st = "running" /\ k2.status = "none" /\ k2.dying

\* A step of the tracer keeps the agreement of a task with its kernel task.
LEMMA AgreeStep ==
  ASSUME NEW T, NEW K, NEW T2, NEW K2, NEW f, NEW p, TaskStep(T, K, T2, K2, f, p),
         Agree(T[p], K[p], f)
  PROVE  Agree(T2[p], K2[p], f)
  BY DEF TaskStep, Agree, Regular, Quiet, Waits, Uncollected, Last, Births, SameStop, Alike,
         RunsOn, Collected, LetGo

\* A tracee that goes on keeps the agreement with a tracer that does not look.
LEMMA AgreeAdvance ==
  ASSUME NEW t, NEW k, NEW k2, NEW f, Advance(k, k2)
  PROVE  /\ Regular(k) => Regular(k2)
         /\ Agree(t, k, f) => Agree(t, k2, f)
  BY DEF Advance, Agree, Regular, Quiet, Waits, Uncollected, Last, Births, SameStop, Alike, Live

-----------------------------------------------------------------------------
(* Families.                                                               *)

\* Kernel tasks that keep their groups and their children.
LEMMA KinKept ==
  ASSUME NEW K, NEW K2, KernelFacts(K), Kin(K),
         \A p \in Pids : /\ K2[p].tgid = K[p].tgid
                         /\ K2[p].st = "absent" <=> K[p].st = "absent"
                         /\ K2[p].status \in Births => K[p].status \in Births /\ K2[p].child = K[p].child
  PROVE  Kin(K2)
  <1> SUFFICES ASSUME NEW p \in Pids
               PROVE  /\ K2[p].st # "absent" => /\ K2[K2[p].tgid].st # "absent"
                                                /\ K2[K2[p].tgid].tgid = K2[p].tgid
                      /\ K2[p].status \in Births => K2[K2[p].child].tgid \in {K2[p].tgid, K2[p].child}
    BY DEF Kin
  <1>1. ASSUME K2[p].st # "absent"
        PROVE  K2[K2[p].tgid].st # "absent" /\ K2[K2[p].tgid].tgid = K2[p].tgid
    <2>1. K[p].tgid \in Pids
      BY <1>1 DEF KernelFacts
    <2> QED BY <1>1, <2>1 DEF Kin
  <1>2. ASSUME K2[p].status \in Births
        PROVE  K2[K2[p].child].tgid \in {K2[p].tgid, K2[p].child}
    <2>1. K[p].child \in Pids
      BY <1>2 DEF KernelFacts, Births
    <2> QED BY <1>2, <2>1 DEF Kin
  <1> QED BY <1>1, <1>2

\* What a step of the tracer is to a kernel task.
LEMMA TaskStepKin ==
  ASSUME NEW T, NEW K, NEW T2, NEW K2, NEW f, NEW p, TaskStep(T, K, T2, K2, f, p), Regular(K[p])
  PROVE  /\ K2[p].tgid = K[p].tgid
         /\ K2[p].st = "absent" <=> K[p].st = "absent"
         /\ K2[p].status \in Births => K[p].status \in Births /\ K2[p].child = K[p].child
  BY DEF TaskStep, Regular, SameStop, Alike, RunsOn, Collected, LetGo, Births

\* A known task has a known leader after a step of the tracer, when forks are followed.
LEMMA LedKept ==
  ASSUME NEW T, NEW K, NEW T2, NEW K2, NEW f, f, KernelFacts(K), TaskFacts(T, K), Led(T, K),
         \A p \in Pids : TaskStep(T, K, T2, K2, f, p) /\ Regular(K[p])
  PROVE  Led(T2, K2)
  <1> SUFFICES ASSUME NEW p \in Pids, T2[p].known
               PROVE  T2[K2[p].tgid].known
    BY DEF Led
  <1>0. TaskStep(T, K, T2, K2, f, p) /\ Regular(K[p])
    OBVIOUS
  <1>1. K2[p].tgid = K[p].tgid
    BY <1>0 DEF TaskStep, SameStop, Alike, RunsOn, Collected, LetGo
  <1>2. CASE T[p].known
    <2> DEFINE m == K[p].tgid
    <2>1. m \in Pids /\ T[m].known
      BY <1>2 DEF TaskFacts, GoodTask, KernelFacts, Led
    <2>2. TaskStep(T, K, T2, K2, f, m)
      BY <2>1
    <2>3. T2[m].known \/ \A q \in Pids : T2[q].known => K[q].tgid # m
      BY <2>1, <2>2 DEF TaskStep
    <2> QED BY <1>1, <2>3
  <1>3. CASE ~T[p].known
    <2>1. T2[K[p].tgid].known
      BY <1>3 DEF TaskStep
    <2> QED BY <1>1, <2>1
  <1> QED BY <1>2, <1>3

\* No step of the tracer takes the stop of a child it does not know, when forks are followed.
LEMMA FreshKept ==
  ASSUME NEW T, NEW K, NEW T2, NEW K2, NEW f, f, KernelFacts(K), Fresh(T, K),
         \A p \in Pids : TaskStep(T, K, T2, K2, f, p) /\ Regular(K[p]),
         \A p \in Pids : ~T[p].known => K[p].status \notin Births
  PROVE  Fresh(T2, K2)
  <1> SUFFICES ASSUME NEW q \in Pids, T2[q].known, K2[q].status \in Births, ~T2[K2[q].child].known
               PROVE  Uncollected(K2[K2[q].child])
    BY DEF Fresh
  <1> DEFINE c == K[q].child
  <1>1. K[q].status \in Births /\ K2[q].child = c
    BY TaskStepKin
  <1>2. T[q].known
    BY <1>1
  <1>3. c \in Pids
    BY <1>1 DEF KernelFacts, Births
  <1>4. TaskStep(T, K, T2, K2, f, c) /\ ~T2[c].known
    BY <1>1, <1>3
  <1>5. CASE T[c].known
    BY <1>1, <1>4, <1>5 DEF TaskStep, LetGo, Uncollected
  <1>6. CASE ~T[c].known
    <2>1. Uncollected(K[c])
      BY <1>1, <1>2, <1>6 DEF Fresh
    <2>2. SameStop(K[c], K2[c])
      BY <1>1, <1>2, <1>4, <1>6 DEF TaskStep
    <2> QED BY <1>1, <2>1, <2>2 DEF SameStop, Uncollected
  <1> QED BY <1>5, <1>6

\* A step of the tracer that neither begins nor ends a single step.
LEMMA StepsKeep ==
  ASSUME IInv, Halted, opt' = opt, pc # "step", pc' # "step",
         \A p \in Pids : TaskStep(task, kern, task', kern', Follow, p)
  PROVE  Balance' /\ StepHeld' /\ Families'
  <1>1. \A p \in Pids : Regular(kern[p]) /\ Agree(task[p], kern[p], Follow)
    BY DEF Halted, Balance, Stepping
  <1>2. Follow' = Follow
    BY DEF Follow
  <1>3. \A p \in Pids : Agree(task'[p], kern'[p], Follow)
    BY <1>1, AgreeStep
  <1>4. Balance'
    BY <1>2, <1>3 DEF Balance, Agree
  <1>5. Kin(kern')
    <2>1. \A p \in Pids : /\ kern'[p].tgid = kern[p].tgid
                          /\ kern'[p].st = "absent" <=> kern[p].st = "absent"
                          /\ kern'[p].status \in Births => kern[p].status \in Births /\ kern'[p].child = kern[p].child
      BY <1>1, TaskStepKin
    <2> QED BY <2>1, KinKept DEF IInv, Halted, Families
  <1>6. ASSUME Follow
        PROVE  Led(task', kern') /\ Fresh(task', kern')
    <2>2. \A p \in Pids : ~task[p].known => kern[p].status \notin Births
      BY <1>1 DEF Agree
    <2>3. Led(task, kern) /\ Fresh(task, kern)
      BY <1>6 DEF Halted, Families
    <2> QED BY <1>1, <1>6, <2>2, <2>3, LedKept, FreshKept DEF IInv
  <1> QED BY <1>2, <1>4, <1>5, <1>6 DEF StepHeld, Families

-----------------------------------------------------------------------------
(* The system calls, task by task.                                         *)

\* waitpid collects the status of one task.
LEMMA ReapAt ==
  ASSUME NEW K, KernelFacts(K), NEW p \in Pids, K[p].status # "none"
  PROVE  /\ Collected(K[p], Reap(K, p)[p])
         /\ \A q \in Pids \ {p} : Reap(K, p)[q] = K[q]
  <1>1. K \in [Pids -> KTask] /\ K[p] \in KTask
    BY DEF KernelFacts
  <1> QED BY <1>1 DEF Reap, Collected, Alike, KTask

\* PTRACE_CONT and PTRACE_SINGLESTEP resume one task.
LEMMA ResumeAt ==
  ASSUME NEW K, KernelFacts(K), NEW p \in Pids, NEW how \in {"running", "stepping"}
  PROVE  /\ RunsOn(K[p], Resume(K, p, how)[p], how)
         /\ \A q \in Pids \ {p} : Resume(K, p, how)[q] = K[q]
  <1>1. K \in [Pids -> KTask] /\ K[p] \in KTask
    BY DEF KernelFacts
  <1> QED BY <1>1 DEF Resume, RunsOn, Alike, KTask

\* PTRACE_DETACH lets one task go.
LEMMA DetachAt ==
  ASSUME NEW K, KernelFacts(K), NEW p \in Pids
  PROVE  /\ LetGo(K[p], Detach(K, p)[p])
         /\ \A q \in Pids \ {p} : Detach(K, p)[q] = K[q]
  <1>1. K \in [Pids -> KTask] /\ K[p] \in KTask
    BY DEF KernelFacts
  <1> QED BY <1>1 DEF Detach, LetGo, Alike, KTask

\* tgkill stops nobody by itself.
LEMMA SendStopAt ==
  ASSUME NEW K, KernelFacts(K), NEW P, NEW q \in Pids
  PROVE  SameStop(K[q], SendStop(K, P)[q])
  <1>1. K[q] \in KTask
    BY DEF KernelFacts
  <1> QED BY <1>1 DEF SendStop, SameStop, Alike, KTask

\* A task that neither the tracer nor the kernel touches.
LEMMA Untouched ==
  ASSUME NEW T, NEW K, NEW T2, NEW K2, NEW f, NEW p, K2[p] = K[p],
         T2[p].known = T[p].known, T2[p].stopped = T[p].stopped
  PROVE  TaskStep(T, K, T2, K2, f, p)
  BY DEF TaskStep, SameStop, Alike

-----------------------------------------------------------------------------
(* The steps of the tracer.                                                *)

\* A step that changes neither what is stopped nor the kernel.
LEMMA Idle ==
  ASSUME IInv, Halted, opt' = opt, pc # "step", pc' # "step", kern' = kern,
         \A p \in Pids : task'[p].known = task[p].known /\ task'[p].stopped = task[p].stopped
  PROVE  Balance' /\ StepHeld' /\ Families'
  <1>1. \A p \in Pids : TaskStep(task, kern, task', kern', Follow, p)
    BY Untouched
  <1> QED BY <1>1, StepsKeep

\* A failing assert.
LEMMA FailsHalted ==
  ASSUME IInv, Halted, pc # "step", Fail
  PROVE  Halted'
  <1>1. Balance' /\ StepHeld' /\ Families'
    BY Idle DEF Fail
  <1> QED BY <1>1 DEF Halted, TodoHeld, Fail

\* stop_threads sends signals and waits; nobody is stopped by it yet.
LEMMA StopsHalted ==
  ASSUME IInv, Halted, opt' = opt, pc # "step", task' = task,
         NEW l, NEW p, NEW cont, NEW todo, stop_threads(l, p, cont, todo)
  PROVE  Halted'
  <1>1. \A q \in Pids : SameStop(kern[q], kern'[q])
    <2>1. CASE kern' = kern
      BY <2>1 DEF SameStop, Alike
    <2>2. CASE kern' = SendStop(kern, Members(l) \ StoppedOf(l))
      BY <2>2, SendStopAt DEF IInv
    <2> QED BY <2>1, <2>2 DEF stop_threads
  <1>2. \A q \in Pids : TaskStep(task, kern, task', kern', Follow, q)
    BY <1>1 DEF TaskStep
  <1>3. pc' = "stop"
    BY DEF stop_threads
  <1> QED BY <1>2, <1>3, StepsKeep DEF Halted, TodoHeld

\* Some stopped tasks C are set running, the others stay as they are.
LEMMA ContinuesHalted ==
  ASSUME IInv, Halted, opt' = opt, pc # "step", pc' \notin {"step", "destroy"}, NEW C,
         \A q \in Pids :
           IF q \in C THEN /\ task[q].known /\ task'[q].known /\ ~task'[q].stopped
                           /\ RunsOn(kern[q], kern'[q], "running")
           ELSE /\ kern'[q] = kern[q]
                /\ task'[q].known = task[q].known /\ task'[q].stopped = task[q].stopped
  PROVE  Halted'
  <1>1. ASSUME NEW q \in Pids
        PROVE  TaskStep(task, kern, task', kern', Follow, q)
    <2>1. CASE q \in C
      BY <2>1 DEF TaskStep
    <2>2. CASE q \notin C
      BY <2>2, Untouched
    <2> QED BY <2>1, <2>2
  <1> QED BY <1>1, StepsKeep DEF Halted, TodoHeld

\* continue_task at the end of a handler.
LEMMA ContinueHalted ==
  ASSUME IInv, Halted, pc # "step", NEW p \in Pids, task[p].stopped, ContinueAndReturn(p)
  PROVE  Halted'
  <1>1. task[p].known /\ task \in [Pids -> TaskRec] /\ task[p] \in TaskRec
    BY DEF IInv, TaskFacts, GoodTask
  <1>2. /\ task'[p].known = task[p].known /\ task'[p].stopped = FALSE
        /\ \A q \in Pids \ {p} : task'[q] = task[q]
    BY <1>1 DEF ContinueAndReturn, continue_task, TaskRec
  <1>3. /\ RunsOn(kern[p], kern'[p], "running")
        /\ \A q \in Pids \ {p} : kern'[q] = kern[q]
    BY ResumeAt DEF IInv, ContinueAndReturn
  <1>4. \A q \in Pids :
           IF q \in {p} THEN /\ task[q].known /\ task'[q].known /\ ~task'[q].stopped
                             /\ RunsOn(kern[q], kern'[q], "running")
           ELSE /\ kern'[q] = kern[q]
                /\ task'[q].known = task[q].known /\ task'[q].stopped = task[q].stopped
    BY <1>1, <1>2, <1>3
  <1>5. opt' = opt /\ pc' = "main"
    BY DEF ContinueAndReturn
  <1> QED BY <1>4, <1>5, ContinuesHalted

\* task_destroy: nobody is left without a leader.
LEMMA DestroyKeeps ==
  ASSUME IInv, Halted, opt' = opt, pc # "step", pc' # "step", NEW p \in Pids, task[p].stopped,
         task_destroy(p),
         Follow => \A q \in Pids \ {p} : task[q].known => kern[q].tgid # p
  PROVE  Balance' /\ StepHeld' /\ Families'
  <1>1. task[p].known /\ task \in [Pids -> TaskRec]
    BY DEF IInv, TaskFacts, GoodTask
  <1>2. ~task'[p].known /\ \A q \in Pids \ {p} : task'[q] = task[q]
    BY <1>1 DEF task_destroy, NoTask
  <1>3. LetGo(kern[p], kern'[p]) /\ \A q \in Pids \ {p} : kern'[q] = kern[q]
    BY DetachAt DEF IInv, task_destroy
  <1>4. TaskStep(task, kern, task', kern', Follow, p)
    <2>1. Follow => \A q \in Pids : task'[q].known => kern[q].tgid # p
      BY <1>2
    <2> QED BY <1>1, <1>2, <1>3, <2>1 DEF TaskStep
  <1>5. \A q \in Pids \ {p} : TaskStep(task, kern, task', kern', Follow, q)
    BY <1>2, <1>3, Untouched
  <1>6. \A q \in Pids : TaskStep(task, kern, task', kern', Follow, q)
    BY <1>4, <1>5
  <1> QED BY <1>6, StepsKeep

\* next_event, MT_ABOUT_EXIT sent, the end of a command: nothing is stopped or resumed.
LEMMA QuietSteps ==
  ASSUME IInv, Halted,
         NextEvent \/ SkipReturn \/ QuitStopped \/ MainDone
  PROVE  Halted'
  <1>1. /\ opt' = opt /\ pc # "step" /\ pc' \notin {"step", "destroy"} /\ kern' = kern /\ task' = task
    BY DEF NextEvent, MainLoop, SkipReturn, QuitStopped, MainDone, StopDone
  <1>2. Balance' /\ StepHeld' /\ Families'
    BY <1>1, Idle
  <1> QED BY <1>1, <1>2 DEF Halted, TodoHeld

\* wait_event, status of an unknown pid.
LEMMA WaitUnknownHalted ==
  ASSUME IInv, Halted, NEW p \in Pids, WaitUnknown(p)
  PROVE  Halted'
  <1>1. opt' = opt /\ pc \in {"main", "stop"} /\ pc' = pc
    BY DEF WaitUnknown, Waiting, MainLoop
  <1>2. ~task[p].known /\ kern[p].status # "none" /\ task \in [Pids -> TaskRec]
    BY DEF WaitUnknown, WaitReady, IInv, TaskFacts
  <1>3. Collected(kern[p], kern'[p]) /\ \A q \in Pids \ {p} : kern'[q] = kern[q]
    BY <1>2, ReapAt DEF IInv, WaitUnknown
  <1>4. kern[p].st # "absent" /\ kern[p].tgid \in Pids
    BY <1>2 DEF IInv, KernelFacts
  <1>5. \A q \in Pids \ {p} : task'[q] = task[q]
    BY <1>2 DEF WaitUnknown, task_new
  <1>6. TaskStep(task, kern, task', kern', Follow, p)
    <2>1. CASE ~CanInit(p)
      <3>1. task' = task
        BY <2>1 DEF WaitUnknown
      <3>2. ASSUME Follow, NEW q \in Pids, task[q].known, kern[q].status \in Births, kern[q].child = p
            PROVE  FALSE
        <4>1. kern[p].tgid \in {kern[q].tgid, p}
          BY <3>2 DEF Halted, Families, Kin
        <4>2. task[kern[q].tgid].known
          BY <3>2 DEF Halted, Families, Led
        <4> QED BY <2>1, <4>1, <4>2 DEF CanInit, LeaderOf
      <3> QED BY <1>2, <1>3, <3>1, <3>2 DEF TaskStep
    <2>2. CASE CanInit(p)
      <3>1. task'[p].known /\ (task'[p].stopped \/ (~task'[p].stopped /\ kern[p].status = "exited"))
        <4>1. task_new(task, p, LeaderOf(p))[p] = [NoTask EXCEPT !.known = TRUE, !.leader = LeaderOf(p), !.is_new = TRUE]
          BY <1>2 DEF task_new
        <4>2. task_new(task, p, LeaderOf(p))[p].known = TRUE /\ task_new(task, p, LeaderOf(p))[p].stopped = FALSE
          BY <4>1 DEF NoTask
        <4>3. CASE kern[p].status = "exited"
          BY <2>2, <4>2, <4>3 DEF WaitUnknown
        <4>4. CASE kern[p].status # "exited"
          <5>1. task' = [task_new(task, p, LeaderOf(p)) EXCEPT ![p].stopped = TRUE, ![p].event = "NEW"]
            BY <2>2, <4>4 DEF WaitUnknown
          <5> QED BY <1>2, <4>1, <5>1 DEF task_new, NoTask
        <4> QED BY <4>3, <4>4
      <3>2. task'[kern[p].tgid].known
        BY <1>4, <1>5, <2>2, <3>1 DEF CanInit, LeaderOf
      <3> QED BY <1>2, <1>3, <3>1, <3>2 DEF TaskStep
    <2> QED BY <2>1, <2>2
  <1>7. \A q \in Pids : TaskStep(task, kern, task', kern', Follow, q)
    BY <1>3, <1>5, <1>6, Untouched
  <1> QED BY <1>1, <1>7, StepsKeep DEF Halted, TodoHeld

\* wait_event, a stopped task was killed.
LEMMA WaitStoppedHalted ==
  ASSUME IInv, Halted, NEW p \in Pids, WaitStopped(p)
  PROVE  Halted'
  <1>1. pc \in {"main", "stop"} /\ task[p].known /\ task[p].stopped /\ kern[p].status # "none"
    BY DEF WaitStopped, Waiting, MainLoop, WaitReady
  <1>2. CASE Fail
    BY <1>1, <1>2, FailsHalted
  <1>3. CASE ~Fail
    <2>1. /\ kern' = Reap(kern, p) /\ opt' = opt /\ pc' = pc
          /\ task' = [task EXCEPT ![p].event =
                        IF kern[p].status = "exited" THEN "EXIT" ELSE "ABOUT_EXIT"]
      BY <1>3 DEF WaitStopped
    <2>2. task \in [Pids -> TaskRec] /\ task[p] \in TaskRec
      BY DEF IInv, TaskFacts
    <2>3. /\ task'[p].known = task[p].known /\ task'[p].stopped = task[p].stopped
          /\ \A q \in Pids \ {p} : task'[q] = task[q]
      BY <2>1, <2>2 DEF TaskRec
    <2>4. Collected(kern[p], kern'[p]) /\ \A q \in Pids \ {p} : kern'[q] = kern[q]
      BY <1>1, <2>1, ReapAt DEF IInv
    <2>5. TaskStep(task, kern, task', kern', Follow, p)
      BY <1>1, <2>3, <2>4 DEF TaskStep
    <2>6. \A q \in Pids : TaskStep(task, kern, task', kern', Follow, q)
      BY <2>3, <2>4, <2>5, Untouched
    <2> QED BY <1>1, <2>1, <2>6, StepsKeep DEF Halted, TodoHeld
  <1> QED BY <1>2, <1>3

\* wait_event, a running task stopped; the child it created may be new to the tracer.
LEMMA WaitProcessHalted ==
  ASSUME IInv, Halted, NEW p \in Pids, WaitProcess(p)
  PROVE  Halted'
  <1> DEFINE s == kern[p].status
             c == kern[p].child
             new == s \in {"clone", "fork"} /\ ~task[c].known
             T == [task EXCEPT ![p].stopped = TRUE, ![p].event = EventOf(p, s),
                               ![p].newpid = IF s \in {"clone", "fork"} THEN c ELSE NoPid]
  <1>1. pc \in {"main", "stop"} /\ task[p].known /\ kern[p].status # "none"
    BY DEF WaitProcess, Waiting, MainLoop, WaitReady
  <1>2. CASE Fail
    BY <1>1, <1>2, FailsHalted
  <1>3. CASE ~Fail
    <2>1. /\ kern' = Reap(kern, p) /\ opt' = opt
          /\ task' = IF new THEN task_new(T, c, LeaderOf(c)) ELSE T
          /\ Return(p)
      BY <1>3 DEF WaitProcess
    <2>2. pc' \in {"stop", "handle"}
      BY <2>1, <1>1 DEF Return
    <2>3. task \in [Pids -> TaskRec] /\ task[p] \in TaskRec
      BY DEF IInv, TaskFacts
    <2>4. T \in [Pids -> TaskRec \cup {T[p]}] /\ T[p].known = task[p].known /\ T[p].stopped = TRUE
          /\ \A q \in Pids \ {p} : T[q] = task[q]
      BY <2>3 DEF TaskRec
    <2>5. Collected(kern[p], kern'[p]) /\ \A q \in Pids \ {p} : kern'[q] = kern[q]
      BY <1>1, <2>1, ReapAt DEF IInv
    <2> HIDE DEF T
    <2>6. CASE ~new
      <3>1. task' = T
        BY <2>1, <2>6
      <3>2. TaskStep(task, kern, task', kern', Follow, p)
        BY <1>1, <2>4, <2>5, <3>1 DEF TaskStep
      <3>3. \A q \in Pids : TaskStep(task, kern, task', kern', Follow, q)
        BY <2>4, <2>5, <3>1, <3>2, Untouched
      <3> QED BY <1>1, <2>1, <2>2, <3>3, StepsKeep DEF Halted, TodoHeld
    <2>7. CASE new
      <3>1. c \in Pids /\ c # p /\ ~task[c].known /\ kern[p].status \in Births
        BY <2>7 DEF IInv, KernelFacts, Births
      <3>2. /\ task'[c] = [NoTask EXCEPT !.known = TRUE, !.leader = LeaderOf(c), !.is_new = TRUE]
            /\ \A q \in Pids \ {c} : task'[q] = T[q]
        BY <2>1, <2>4, <2>7, <3>1 DEF task_new
      <3>3. task'[c].known = TRUE /\ task'[c].stopped = FALSE
        BY <3>2 DEF NoTask
      <3>4. TaskStep(task, kern, task', kern', Follow, p)
        BY <1>1, <2>4, <2>5, <3>1, <3>2 DEF TaskStep
      <3>5. ASSUME Follow
            PROVE  Uncollected(kern[c]) /\ task'[kern[c].tgid].known
        <4>1. Uncollected(kern[c])
          BY <1>1, <3>1, <3>5 DEF Halted, Families, Fresh
        <4>2. kern[c].tgid \in {kern[p].tgid, c} /\ task[kern[p].tgid].known
          BY <1>1, <3>1, <3>5 DEF Halted, Families, Kin, Led
        <4>3. kern[p].tgid \in Pids
          BY <1>1 DEF IInv, KernelFacts
        <4> QED BY <2>4, <3>2, <3>3, <4>1, <4>2, <4>3
      <3>6. TaskStep(task, kern, task', kern', Follow, c)
        <4>1. SameStop(kern[c], kern'[c])
          BY <2>5, <3>1 DEF SameStop, Alike
        <4> QED BY <3>1, <3>3, <3>5, <4>1 DEF TaskStep
      <3>7. \A q \in Pids \ {p, c} : TaskStep(task, kern, task', kern', Follow, q)
        BY <2>4, <2>5, <3>2, Untouched
      <3>8. \A q \in Pids : TaskStep(task, kern, task', kern', Follow, q)
        BY <3>4, <3>6, <3>7
      <3> QED BY <1>1, <2>1, <2>2, <3>8, StepsKeep DEF Halted, TodoHeld
    <2> QED BY <2>6, <2>7
  <1> QED BY <1>2, <1>3

\* The task of a handler is stopped.
LEMMA HandledTask ==
  ASSUME IInv, NEW p \in Pids, pc = "handle", frame.task = p
  PROVE  task[p].stopped /\ task[p].known /\ task[p] \in TaskRec /\ task \in [Pids -> TaskRec]
  BY DEF IInv, FrameFacts, TaskFacts, GoodTask

\* handle_signal, handle_about_exit, a breakpoint without single step: continued, or kept.
LEMMA HandleContinueHalted ==
  ASSUME IInv, Halted, NEW p \in Pids,
         HandleSignal(p) \/ HandleAboutExit(p) \/ HandleBreakpointHw(p)
  PROVE  Halted'
  <1>1. pc = "handle" /\ frame.task = p
    BY DEF HandleSignal, HandleAboutExit, HandleBreakpointHw, Handle
  <1>2. task[p].stopped /\ task[p] \in TaskRec /\ task \in [Pids -> TaskRec]
    BY <1>1, HandledTask
  <1>3. CASE Fail
    BY <1>1, <1>3, FailsHalted
  <1>4. CASE ContinueAndReturn(p)
    BY <1>1, <1>2, <1>4, ContinueHalted
  <1>5. CASE /\ task' = [task EXCEPT ![p].about_exit = TRUE] /\ pc' = "main" /\ kern' = kern
             /\ opt' = opt
    <2>1. \A q \in Pids : task'[q].known = task[q].known /\ task'[q].stopped = task[q].stopped
      BY <1>2, <1>5 DEF TaskRec
    <2>2. Balance' /\ StepHeld' /\ Families'
      BY <1>1, <1>5, <2>1, Idle
    <2> QED BY <1>5, <2>2 DEF Halted, TodoHeld
  <1> QED BY <1>3, <1>4, <1>5 DEF HandleSignal, HandleAboutExit, HandleBreakpointHw

\* handle_new.
LEMMA HandleNewHalted ==
  ASSUME IInv, Halted, NEW p \in Pids, HandleNew(p)
  PROVE  Halted'
  <1>1. pc = "handle" /\ frame.task = p
    BY DEF HandleNew, Handle
  <1>2. task[p].stopped /\ task[p].known /\ task[p] \in TaskRec /\ task \in [Pids -> TaskRec]
    BY <1>1, HandledTask
  <1>3. CASE Fail
    BY <1>1, <1>3, FailsHalted
  <1>4. CASE ~Fail
    <2>1. /\ task' = [continue_task(task, p) EXCEPT ![p].is_new = FALSE]
          /\ kern' = Resume(kern, p, "running") /\ pc' = "main" /\ opt' = opt
      BY <1>4 DEF HandleNew
    <2>2. /\ task'[p].known = task[p].known /\ task'[p].stopped = FALSE
          /\ \A q \in Pids \ {p} : task'[q] = task[q]
      BY <1>2, <2>1 DEF continue_task, TaskRec
    <2>3. RunsOn(kern[p], kern'[p], "running") /\ \A q \in Pids \ {p} : kern'[q] = kern[q]
      BY <2>1, ResumeAt DEF IInv
    <2>4. \A q \in Pids :
             IF q \in {p} THEN /\ task[q].known /\ task'[q].known /\ ~task'[q].stopped
                               /\ RunsOn(kern[q], kern'[q], "running")
             ELSE /\ kern'[q] = kern[q]
                  /\ task'[q].known = task[q].known /\ task'[q].stopped = task[q].stopped
      BY <1>2, <2>2, <2>3
    <2> QED BY <1>1, <2>1, <2>4, ContinuesHalted
  <1> QED BY <1>3, <1>4

\* do_clone and continue_task of the parent: the child runs, or is let go.
LEMMA CloneHalted ==
  ASSUME IInv, Halted, pc # "step", NEW p \in Pids, NEW c \in Pids, p # c,
         task[p].stopped, task[c].stopped, CloneAndContinue(p, c)
  PROVE  Halted'
  <1>1. /\ task \in [Pids -> TaskRec] /\ task[p] \in TaskRec /\ task[c] \in TaskRec
        /\ task[p].known /\ task[c].known
    BY DEF IInv, TaskFacts, GoodTask
  <1>2. opt' = opt /\ pc' = "main"
    BY DEF CloneAndContinue
  <1>3. CASE task[c].leader = c /\ ~Follow
    <2>1. /\ task' = continue_task([task EXCEPT ![c] = NoTask], p)
          /\ kern' = Resume(Detach(kern, c), p, "running")
      BY <1>3 DEF CloneAndContinue
    <2>2. /\ task'[p].known = task[p].known /\ task'[p].stopped = FALSE /\ ~task'[c].known
          /\ \A q \in Pids \ {p, c} : task'[q] = task[q]
      BY <1>1, <2>1 DEF continue_task, NoTask, TaskRec
    <2>3. KernelFacts(kern) /\ KernelFacts(Detach(kern, c))
      BY DetachFacts DEF IInv
    <2>4. LetGo(kern[c], Detach(kern, c)[c]) /\ \A q \in Pids \ {c} : Detach(kern, c)[q] = kern[q]
      BY <2>3, DetachAt
    <2>5. /\ RunsOn(Detach(kern, c)[p], kern'[p], "running")
          /\ \A q \in Pids \ {p} : kern'[q] = Detach(kern, c)[q]
      BY <2>1, <2>3, ResumeAt
    <2>6. /\ RunsOn(kern[p], kern'[p], "running") /\ LetGo(kern[c], kern'[c])
          /\ \A q \in Pids \ {p, c} : kern'[q] = kern[q]
      BY <2>4, <2>5
    <2>7. TaskStep(task, kern, task', kern', Follow, p)
      BY <1>1, <2>2, <2>6 DEF TaskStep
    <2>8. TaskStep(task, kern, task', kern', Follow, c)
      BY <1>1, <1>3, <2>2, <2>6 DEF TaskStep
    <2>9. \A q \in Pids \ {p, c} : TaskStep(task, kern, task', kern', Follow, q)
      BY <2>2, <2>6, Untouched
    <2>10. \A q \in Pids : TaskStep(task, kern, task', kern', Follow, q)
      BY <2>7, <2>8, <2>9
    <2> QED BY <1>2, <2>10, StepsKeep DEF Halted, TodoHeld
  <1>4. CASE ~(task[c].leader = c /\ ~Follow)
    <2> DEFINE T == [continue_task(task, c) EXCEPT ![c].is_new = FALSE, ![c].defer = NoPid]
    <2>1. task' = continue_task(T, p) /\ kern' = Resume(Resume(kern, c, "running"), p, "running")
      BY <1>4 DEF CloneAndContinue
    <2>2. /\ T[c].known = task[c].known /\ T[c].stopped = FALSE /\ DOMAIN T = Pids
          /\ \A q \in Pids \ {c} : T[q] = task[q]
      BY <1>1 DEF continue_task, TaskRec
    <2> HIDE DEF T
    <2>3. /\ task'[p].known = T[p].known /\ task'[p].stopped = FALSE
          /\ \A q \in Pids \ {p} : task'[q] = T[q]
      <3>1. T[p] \in TaskRec
        BY <1>1, <2>2
      <3> QED BY <2>1, <2>2, <3>1 DEF continue_task, TaskRec
    <2>4. KernelFacts(kern) /\ KernelFacts(Resume(kern, c, "running"))
      BY ResumeFacts DEF IInv
    <2>5. /\ RunsOn(kern[c], Resume(kern, c, "running")[c], "running")
          /\ \A q \in Pids \ {c} : Resume(kern, c, "running")[q] = kern[q]
      BY <2>4, ResumeAt
    <2>6. /\ RunsOn(Resume(kern, c, "running")[p], kern'[p], "running")
          /\ \A q \in Pids \ {p} : kern'[q] = Resume(kern, c, "running")[q]
      BY <2>1, <2>4, ResumeAt
    <2>7. \A q \in Pids :
             IF q \in {p, c} THEN /\ task[q].known /\ task'[q].known /\ ~task'[q].stopped
                                  /\ RunsOn(kern[q], kern'[q], "running")
             ELSE /\ kern'[q] = kern[q]
                  /\ task'[q].known = task[q].known /\ task'[q].stopped = task[q].stopped
      <3>1. RunsOn(kern[c], kern'[c], "running") /\ RunsOn(kern[p], kern'[p], "running")
        BY <1>1, <2>5, <2>6
      <3>2. \A q \in Pids \ {p, c} : kern'[q] = kern[q] /\ task'[q] = task[q]
        BY <2>2, <2>3, <2>5, <2>6
      <3>3. /\ task[p].known /\ task'[p].known /\ ~task'[p].stopped
            /\ task[c].known /\ task'[c].known /\ ~task'[c].stopped
        BY <1>1, <2>2, <2>3
      <3> QED BY <3>1, <3>2, <3>3
    <2> QED BY <1>2, <2>7, ContinuesHalted
  <1> QED BY <1>3, <1>4

\* handle_child and do_clone_cb.
LEMMA HandleChildHalted ==
  ASSUME IInv, Halted, NEW p \in Pids, HandleChild(p) \/ HandleDeferred(p)
  PROVE  Halted'
  <1>1. pc = "handle" /\ frame.task = p
    BY DEF HandleChild, HandleDeferred, Handle
  <1>2. task[p].stopped /\ task[p].known /\ task[p] \in TaskRec /\ task \in [Pids -> TaskRec]
    BY <1>1, HandledTask
  <1>3. CASE Fail
    BY <1>1, <1>3, FailsHalted
  <1>4. CASE HandleChild(p) /\ ~Fail
    <2> DEFINE c == task[p].newpid
    <2>1. c \in Pids /\ c # p
      BY <1>4 DEF HandleChild, Handle, IInv, TaskFacts, GoodTask
    <2>2. CASE task[c].known /\ ~task[c].stopped
      <3>1. task' = [task EXCEPT ![c].defer = p] /\ pc' = "main" /\ kern' = kern /\ opt' = opt
        BY <1>4, <2>2 DEF HandleChild
      <3>2. \A q \in Pids : task'[q].known = task[q].known /\ task'[q].stopped = task[q].stopped
        <4>1. task[c] \in TaskRec
          BY <1>2, <2>1
        <4> QED BY <1>2, <2>1, <3>1, <4>1 DEF TaskRec
      <3>3. Balance' /\ StepHeld' /\ Families'
        BY <1>1, <3>1, <3>2, Idle
      <3> QED BY <3>1, <3>3 DEF Halted, TodoHeld
    <2>3. CASE ~(task[c].known /\ ~task[c].stopped)
      <3>1. CloneAndContinue(p, c) /\ task[c].known
        BY <1>4, <2>3 DEF HandleChild
      <3>2. task[c].stopped
        BY <2>3, <3>1
      <3> QED BY <1>1, <1>2, <2>1, <3>1, <3>2, CloneHalted
    <2> QED BY <2>2, <2>3
  <1>5. CASE HandleDeferred(p) /\ ~Fail
    <2> DEFINE q == task[p].defer
    <2>1. q # NoPid /\ task[q].known /\ task[q].stopped /\ CloneAndContinue(q, p)
      BY <1>5 DEF HandleDeferred
    <2>2. q \in Pids /\ q # p
      BY <1>2, <2>1 DEF TaskRec, IInv, TaskFacts, GoodTask
    <2> QED BY <1>1, <1>2, <2>1, <2>2, CloneHalted
  <1> QED BY <1>3, <1>4, <1>5

\* The handlers and commands that begin with stop_threads.
LEMMA StopStepsHalted ==
  ASSUME IInv, Halted, NEW p \in Pids,
         \/ HandleExitLeader(p) \/ HandleExecNoFollow(p) \/ HandleBreakpointSw(p)
         \/ QuitRemove(p) \/ ServerCommand(p) \/ Disconnect \/ Quit \/ StopNext
  PROVE  Halted'
  <1>1. pc # "step" /\ opt' = opt /\ task' = task
    BY DEF HandleExitLeader, HandleExecNoFollow, HandleBreakpointSw, QuitRemove, ServerCommand,
           Disconnect, Quit, StopNext, Handle, MainLoop, StopDone
  <1>2. PICK l, q, cont, todo : stop_threads(l, q, cont, todo)
    BY DEF HandleExitLeader, HandleExecNoFollow, HandleBreakpointSw, QuitRemove, ServerCommand,
           Disconnect, Quit, StopNext
  <1> QED BY <1>1, <1>2, StopsHalted

\* remove_proc and process_exec list the tasks they destroy.
LEMMA ListHalted ==
  ASSUME IInv, Halted, RemoveProc \/ \E p \in Pids : HandleExec(p)
  PROVE  Halted'
  <1>1. /\ pc # "step" /\ pc' = "destroy" /\ opt' = opt /\ task' = task /\ kern' = kern
    BY DEF RemoveProc, HandleExec, StopDone, Handle
  <1>2. Balance' /\ StepHeld' /\ Families'
    BY <1>1, Idle
  <1>3. frame'.todo = Members(frame'.leader) \ {frame'.leader}
    <2>1. CASE RemoveProc
      <3>1. frame \in Frame
        BY DEF IInv, Rest
      <3> QED BY <2>1, <3>1 DEF RemoveProc, Frame
    <2>2. CASE \E p \in Pids : HandleExec(p)
      BY <2>2 DEF HandleExec
    <2> QED BY <2>1, <2>2
  <1>4. TodoHeld'
    BY <1>1, <1>3 DEF TodoHeld, Members, Known
  <1> QED BY <1>2, <1>4 DEF Halted

\* A task that is not its own leader leads nobody.
LEMMA LeadsNobody ==
  ASSUME IInv, Halted, NEW p \in Pids, task[p].known, task[p].leader # p, NEW q \in Pids, task[q].known
  PROVE  kern[q].tgid # p
  <1>1. kern[p].tgid # p /\ kern[q].st # "absent"
    BY DEF IInv, TaskFacts, GoodTask
  <1> QED BY <1>1 DEF Halted, Families, Kin

\* remove_task of a thread, by handle_exit or by the loop over a process.
LEMMA DestroyTaskHalted ==
  ASSUME IInv, Halted, NEW p \in Pids, HandleExitThread(p) \/ DestroyTask(p)
  PROVE  Halted'
  <1>1. CASE HandleExitThread(p)
    <2>1. pc = "handle" /\ frame.task = p /\ task[p].leader # p /\ task_destroy(p)
          /\ pc' = "main" /\ opt' = opt
      BY <1>1 DEF HandleExitThread, Handle
    <2>2. task[p].stopped /\ task[p].known
      BY <2>1, HandledTask
    <2>3. \A q \in Pids \ {p} : task[q].known => kern[q].tgid # p
      BY <2>1, <2>2, LeadsNobody
    <2>4. Balance' /\ StepHeld' /\ Families'
      BY <2>1, <2>2, <2>3, DestroyKeeps
    <2> QED BY <2>1, <2>4 DEF Halted, TodoHeld
  <1>2. CASE DestroyTask(p) /\ ~Fail
    <2>1. pc = "destroy" /\ p \in frame.todo /\ task[p].stopped /\ task_destroy(p)
          /\ frame' = [frame EXCEPT !.todo = @ \ {p}] /\ pc' = pc /\ opt' = opt
      BY <1>2 DEF DestroyTask
    <2>2. task[p].known /\ task[p].leader = frame.leader /\ p # frame.leader
      BY <2>1 DEF Halted, TodoHeld
    <2>3. \A q \in Pids \ {p} : task[q].known => kern[q].tgid # p
      BY <2>2, LeadsNobody
    <2>4. Balance' /\ StepHeld' /\ Families'
      BY <2>1, <2>3, DestroyKeeps
    <2>5. frame'.todo = frame.todo \ {p} /\ frame'.leader = frame.leader /\ frame.todo \subseteq Pids
      BY <2>1 DEF IInv, Rest, Frame
    <2>6. \A q \in Pids \ {p} : task'[q] = task[q]
      BY <2>1 DEF task_destroy, IInv, TaskFacts
    <2>7. TodoHeld'
      BY <2>1, <2>5, <2>6 DEF Halted, TodoHeld
    <2> QED BY <2>4, <2>7 DEF Halted
  <1>3. CASE DestroyTask(p) /\ Fail
    <2>1. pc # "step"
      BY <1>3 DEF DestroyTask
    <2> QED BY <1>3, <2>1, FailsHalted
  <1> QED BY <1>1, <1>2, <1>3

\* remove_proc destroys the leader last, with assert(leader->threads == 1).
LEMMA DestroyLeaderHalted ==
  ASSUME IInv, Halted, DestroyLeader
  PROVE  Halted'
  <1> DEFINE l == frame.leader
  <1>1. pc = "destroy" /\ l \in Pids
    BY DEF DestroyLeader, IInv, FrameFacts
  <1>2. CASE Fail
    BY <1>1, <1>2, FailsHalted
  <1>3. CASE ~Fail
    <2>1. /\ threads[l] = 1 /\ task[l].stopped /\ task_destroy(l)
          /\ pc' = "main" /\ opt' = opt
      BY <1>3 DEF DestroyLeader
    <2>2. task[l].known /\ task[l].leader = kern[l].tgid
      BY <1>1, <2>1 DEF IInv, TaskFacts, GoodTask
    <2>3. ASSUME NEW q \in Pids \ {l}, task[q].known, kern[q].tgid = l
          PROVE  FALSE
      <3>1. task[q].leader = l /\ kern[q].st # "absent"
        BY <2>3 DEF IInv, TaskFacts, GoodTask
      <3>2. task[l].leader = l
        BY <2>2, <2>3, <3>1 DEF Halted, Families, Kin
      <3>3. l \in MembersIn(task, l) /\ q \in MembersIn(task, l)
        BY <1>1, <2>2, <2>3, <3>1, <3>2 DEF MembersIn
      <3>4. IsFiniteSet(MembersIn(task, l)) /\ Cardinality(MembersIn(task, l)) = 1
        BY <1>1, <2>1, FiniteGroups DEF IInv, Exact
      <3>5. PICK x : MembersIn(task, l) = {x}
        BY <3>4, FS_Singleton
      <3> QED BY <2>3, <3>3, <3>5
    <2>4. Balance' /\ StepHeld' /\ Families'
      BY <1>1, <2>1, <2>3, DestroyKeeps
    <2> QED BY <2>1, <2>4 DEF Halted, TodoHeld
  <1> QED BY <1>2, <1>3

\* skip_breakpoint and handle_exec end with continue_task.
LEMMA FinishHalted ==
  ASSUME IInv, Halted, SkipContinue \/ ExecDone
  PROVE  Halted'
  <1>1. pc \in {"stop", "destroy"}
    BY DEF SkipContinue, ExecDone, StopDone
  <1>2. CASE Fail
    BY <1>1, <1>2, FailsHalted
  <1>3. CASE SkipContinue /\ ~Fail
    <2>1. frame.task \in Pids
      BY <1>3 DEF SkipContinue, StopDone, IInv, FrameFacts
    <2> QED BY <1>1, <1>3, <2>1, ContinueHalted DEF SkipContinue
  <1>4. CASE ExecDone /\ ~Fail
    <2>1. frame.leader \in Pids
      BY <1>4 DEF ExecDone, IInv, FrameFacts
    <2> QED BY <1>1, <1>4, <2>1, ContinueHalted DEF ExecDone
  <1> QED BY <1>2, <1>3, <1>4

\* MT_ABOUT_EXIT from the client.
LEMMA ServerAboutExitHalted ==
  ASSUME IInv, Halted, NEW p \in Pids, ServerAboutExit(p)
  PROVE  Halted'
  <1>1. pc = "main" /\ task[p].known /\ task[p] \in TaskRec /\ task \in [Pids -> TaskRec]
    BY DEF ServerAboutExit, IInv, TaskFacts
  <1>2. CASE Fail
    BY <1>1, <1>2, FailsHalted
  <1>3. CASE ~Fail
    <2>1. /\ task' = continue_task(task, p) /\ kern' = Resume(kern, p, "running")
          /\ pc' = pc /\ opt' = opt
      BY <1>3 DEF ServerAboutExit
    <2>2. /\ task'[p].known = task[p].known /\ task'[p].stopped = FALSE
          /\ \A q \in Pids \ {p} : task'[q] = task[q]
      BY <1>1, <2>1 DEF continue_task, TaskRec
    <2>3. RunsOn(kern[p], kern'[p], "running") /\ \A q \in Pids \ {p} : kern'[q] = kern[q]
      BY <2>1, ResumeAt DEF IInv
    <2>4. \A q \in Pids :
             IF q \in {p} THEN /\ task[q].known /\ task'[q].known /\ ~task'[q].stopped
                               /\ RunsOn(kern[q], kern'[q], "running")
             ELSE /\ kern'[q] = kern[q]
                  /\ task'[q].known = task[q].known /\ task'[q].stopped = task[q].stopped
      BY <1>1, <2>2, <2>3
    <2> QED BY <1>1, <2>1, <2>4, ContinuesHalted
  <1> QED BY <1>2, <1>3

\* fix_about_exit of every task, when the client is gone.
LEMMA FixAboutExitHalted ==
  ASSUME IInv, Halted, FixAboutExit
  PROVE  Halted'
  <1> DEFINE F == {p \in Known : task[p].about_exit}
  <1>1. pc = "stop" /\ task \in [Pids -> TaskRec] /\ KernelFacts(kern)
    BY DEF FixAboutExit, StopDone, IInv, TaskFacts
  <1>2. CASE Fail
    BY <1>1, <1>2, FailsHalted
  <1>3. CASE ~Fail
    <2>1. /\ task' = [p \in Pids |-> IF p \in F
                        THEN [task[p] EXCEPT !.about_exit = FALSE, !.stopped = FALSE,
                                             !.event = "NONE"]
                        ELSE task[p]]
          /\ kern' = [p \in Pids |-> IF p \in F THEN Resume(kern, p, "running")[p] ELSE kern[p]]
          /\ pc' = "main" /\ opt' = opt
      BY <1>3 DEF FixAboutExit
    <2>2. ASSUME NEW q \in Pids
          PROVE  IF q \in F THEN /\ task[q].known /\ task'[q].known /\ ~task'[q].stopped
                                 /\ RunsOn(kern[q], kern'[q], "running")
                 ELSE /\ kern'[q] = kern[q]
                      /\ task'[q].known = task[q].known /\ task'[q].stopped = task[q].stopped
      <3>1. CASE q \in F
        <4>1. task'[q] = [task[q] EXCEPT !.about_exit = FALSE, !.stopped = FALSE, !.event = "NONE"]
              /\ kern'[q] = Resume(kern, q, "running")[q]
          BY <2>1, <3>1
        <4>2. task[q] \in TaskRec /\ task[q].known
          BY <1>1, <3>1 DEF Known
        <4>3. task'[q].known = task[q].known /\ task'[q].stopped = FALSE
          BY <4>1, <4>2 DEF TaskRec
        <4>4. RunsOn(kern[q], kern'[q], "running")
          BY <1>1, <4>1, ResumeAt
        <4> QED BY <3>1, <4>2, <4>3, <4>4
      <3>2. CASE q \notin F
        BY <2>1, <3>2
      <3> QED BY <3>1, <3>2
    <2> HIDE DEF F
    <2> QED BY <1>1, <2>1, <2>2, ContinuesHalted
  <1> QED BY <1>2, <1>3

-----------------------------------------------------------------------------
(* The single step, and the tracees.                                       *)

\* A step that makes no task known or unknown.
LEMMA FamiliesMoved ==
  ASSUME IInv, Halted, opt' = opt, \A p \in Pids : task'[p].known = task[p].known,
         \A p \in Pids : /\ kern'[p].tgid = kern[p].tgid
                         /\ kern'[p].st = "absent" <=> kern[p].st = "absent"
                         /\ kern'[p].status \in Births => kern[p].status \in Births /\ kern'[p].child = kern[p].child
                         /\ ~task[p].known /\ Uncollected(kern[p]) => Uncollected(kern'[p])
  PROVE  Families'
  <1>1. Kin(kern')
    BY KinKept DEF IInv, Halted, Families
  <1>2. Follow' = Follow
    BY DEF Follow
  <1>3. ASSUME Follow
        PROVE  Led(task', kern')
    <2> SUFFICES ASSUME NEW p \in Pids, task'[p].known
                 PROVE  task'[kern'[p].tgid].known
      BY DEF Led
    <2>1. task[p].known /\ kern[p].tgid \in Pids
      BY DEF IInv, TaskFacts, GoodTask, KernelFacts
    <2>2. task[kern[p].tgid].known
      BY <1>3, <2>1 DEF Halted, Families, Led
    <2> QED BY <2>1, <2>2
  <1>4. ASSUME Follow
        PROVE  Fresh(task', kern')
    <2> SUFFICES ASSUME NEW q \in Pids, task'[q].known, kern'[q].status \in Births,
                        ~task'[kern'[q].child].known
                 PROVE  Uncollected(kern'[kern'[q].child])
      BY DEF Fresh
    <2>1. task[q].known /\ kern[q].status \in Births /\ kern'[q].child = kern[q].child
      OBVIOUS
    <2>2. kern[q].child \in Pids
      BY <2>1 DEF IInv, KernelFacts, Births
    <2>3. ~task[kern[q].child].known
      BY <2>1, <2>2
    <2>4. Uncollected(kern[kern[q].child])
      BY <1>4, <2>1, <2>3 DEF Halted, Families, Fresh
    <2> QED BY <2>1, <2>2, <2>3, <2>4
  <1> QED BY <1>1, <1>2, <1>3, <1>4 DEF Families

\* When the counters of a group agree, all of its tasks are stopped.
LEMMA AllStopped ==
  ASSUME IInv, NEW l \in Pids, threads[l] = threads_stopped[l], NEW q \in Members(l)
  PROVE  task[q].stopped
  <1>1. q \in MembersIn(task, l)
    BY DEF Members, Known, MembersIn
  <1>2. IsFiniteSet(MembersIn(task, l)) /\ StoppedIn(task, l) \subseteq MembersIn(task, l)
    BY FiniteGroups DEF MembersIn, StoppedIn
  <1>3. Cardinality(StoppedIn(task, l)) = Cardinality(MembersIn(task, l))
    BY DEF IInv, Exact
  <1>4. StoppedIn(task, l) = MembersIn(task, l)
    BY <1>2, <1>3, FS_Subset
  <1> QED BY <1>1, <1>4 DEF StoppedIn

\* handle_singlestep: the one task runs, while the counters say that all others are stopped.
LEMMA SingleStepHalted ==
  ASSUME IInv, Halted, SingleStep
  PROVE  Halted'
  <1> DEFINE p == frame.task
  <1>1. pc = "stop" /\ frame.cont = "disable" /\ threads[frame.leader] = threads_stopped[frame.leader]
    BY DEF SingleStep, StopDone
  <1>2. p \in Pids /\ frame.leader \in Pids
    BY <1>1 DEF IInv, FrameFacts
  <1>3. CASE Fail
    BY <1>1, <1>3, FailsHalted
  <1>4. CASE ~Fail
    <2>1. /\ task[p].stopped /\ task' = [task EXCEPT ![p].event = "NONE"]
          /\ kern' = Resume(kern, p, "stepping") /\ opt' = opt
          /\ IF kern[p].st = "stopped" THEN pc' = "step" /\ frame' = frame
             ELSE pc' = pc
      BY <1>4 DEF SingleStep
    <2>2. task \in [Pids -> TaskRec] /\ task[p] \in TaskRec /\ task[p].known
      BY <1>2, <2>1 DEF IInv, TaskFacts, GoodTask
    <2>3. \A q \in Pids : /\ task'[q].known = task[q].known /\ task'[q].stopped = task[q].stopped
                          /\ task'[q].leader = task[q].leader
      BY <1>2, <2>1, <2>2 DEF TaskRec
    <2>4. RunsOn(kern[p], kern'[p], "stepping") /\ \A q \in Pids \ {p} : kern'[q] = kern[q]
      BY <1>2, <2>1, ResumeAt DEF IInv
    <2>5. CASE kern[p].st # "stopped"
      <3>1. SameStop(kern[p], kern'[p]) /\ pc' = "stop"
        BY <1>1, <2>1, <2>4, <2>5 DEF RunsOn, SameStop
      <3>2. \A q \in Pids : TaskStep(task, kern, task', kern', Follow, q)
        <4>1. TaskStep(task, kern, task', kern', Follow, p)
          BY <1>2, <2>3, <3>1 DEF TaskStep
        <4>2. \A q \in Pids \ {p} : TaskStep(task, kern, task', kern', Follow, q)
          BY <2>3, <2>4, Untouched
        <4> QED BY <4>1, <4>2
      <3>3. Balance' /\ StepHeld' /\ Families'
        BY <1>1, <2>1, <3>1, <3>2, StepsKeep
      <3> QED BY <3>1, <3>3 DEF Halted, TodoHeld
    <2>6. CASE kern[p].st = "stopped"
      <3>1. pc' = "step" /\ frame' = frame
        BY <2>1, <2>6
      <3>2. \A q \in Pids : Regular(kern[q]) /\ Agree(task[q], kern[q], Follow)
        BY <1>1 DEF Halted, Balance, Stepping
      <3>3. Regular(kern'[p])
        BY <1>2, <2>4, <3>2 DEF Regular, RunsOn, Alike
      <3>4. ASSUME NEW q \in Pids \ {p}
            PROVE  Regular(kern'[q]) /\ Agree(task'[q], kern'[q], Follow')
        BY <2>1, <2>3, <2>4, <3>2 DEF Agree, Follow
      <3>5. Balance'
        BY <3>1, <3>3, <3>4 DEF Balance, Stepping
      <3>6. StepHeld'
        <4>1. \A q \in Members(frame.leader) : task[q].stopped
          BY <1>1, <1>2, AllStopped
        <4>2. Members(frame.leader)' = Members(frame.leader)
          BY <2>3, <3>1 DEF Members, Known
        <4>3. \A q \in Members(frame.leader) : q \in Pids
          BY DEF Members, Known
        <4> QED BY <1>2, <2>1, <2>3, <3>1, <4>1, <4>2, <4>3 DEF StepHeld
      <3>7. Families'
        <4>1. /\ kern'[p].tgid = kern[p].tgid /\ kern'[p].st # "absent"
              /\ kern'[p].status \notin Births
          BY <2>4, <2>6 DEF RunsOn, Alike, Births
        <4>2. \A q \in Pids :
                         /\ kern'[q].tgid = kern[q].tgid
                         /\ kern'[q].st = "absent" <=> kern[q].st = "absent"
                         /\ kern'[q].status \in Births => kern[q].status \in Births /\ kern'[q].child = kern[q].child
                         /\ ~task[q].known /\ Uncollected(kern[q]) => Uncollected(kern'[q])
          BY <2>2, <2>4, <2>6, <4>1
        <4> QED BY <2>1, <2>3, <4>2, FamiliesMoved
      <3> QED BY <3>1, <3>5, <3>6, <3>7 DEF Halted, TodoHeld
    <2> QED BY <2>5, <2>6
  <1> QED BY <1>3, <1>4

\* The end of the single step.
LEMMA StepDoneHalted ==
  ASSUME IInv, Halted, StepDone
  PROVE  Halted'
  <1> DEFINE p == frame.task
  <1>1. /\ pc = "step" /\ pc' = "stop" /\ kern' = Reap(kern, p) /\ opt' = opt
        /\ kern[p].status # "none"
    BY DEF StepDone, WaitReady
  <1>2. p \in Pids /\ task \in [Pids -> TaskRec] /\ task[p] \in TaskRec /\ task[p].stopped /\ task[p].known
    BY <1>1 DEF IInv, FrameFacts, TaskFacts, GoodTask, Halted, StepHeld
  <1>3. \A q \in Pids : /\ task'[q].known = task[q].known /\ task'[q].stopped = task[q].stopped
    BY <1>2 DEF StepDone, TaskRec
  <1>4. Collected(kern[p], kern'[p]) /\ \A q \in Pids \ {p} : kern'[q] = kern[q]
    BY <1>1, <1>2, ReapAt DEF IInv
  <1>5. Follow' = Follow
    BY <1>1 DEF Follow
  <1>6. Agree(task'[p], kern'[p], Follow)
    <2>1. Regular(kern[p])
      BY <1>2 DEF Halted, Balance
    <2> QED BY <1>2, <1>3, <1>4, <2>1 DEF Agree, Regular, Collected, Alike, Quiet, Last
  <1>7. \A q \in Pids \ {p} : Agree(task'[q], kern'[q], Follow)
    <2>1. \A q \in Pids \ {p} : Agree(task[q], kern[q], Follow)
      BY DEF Halted, Balance, Stepping
    <2> QED BY <1>3, <1>4, <2>1 DEF Agree
  <1>8. Balance'
    BY <1>5, <1>6, <1>7 DEF Balance, Agree
  <1>9. Families'
    <2>1. /\ kern'[p].tgid = kern[p].tgid /\ kern'[p].status \notin Births
          /\ kern'[p].st = "absent" <=> kern[p].st = "absent"
      BY <1>4 DEF Collected, Alike, Births
    <2>2. \A q \in Pids :
                     /\ kern'[q].tgid = kern[q].tgid
                     /\ kern'[q].st = "absent" <=> kern[q].st = "absent"
                     /\ kern'[q].status \in Births => kern[q].status \in Births /\ kern'[q].child = kern[q].child
                     /\ ~task[q].known /\ Uncollected(kern[q]) => Uncollected(kern'[q])
      BY <1>2, <1>4, <2>1
    <2> QED BY <1>1, <1>3, <2>2, FamiliesMoved
  <1> QED BY <1>1, <1>8, <1>9 DEF Halted, StepHeld, TodoHeld

\* What an Advance keeps.
LEMMA AdvanceKin ==
  ASSUME NEW k, NEW k2, Advance(k, k2)
  PROVE  /\ k2.tgid = k.tgid /\ k2.child = k.child
         /\ k2.st = "absent" <=> k.st = "absent"
         /\ k2.status \in Births => k.status \in Births
         /\ Uncollected(k) => Uncollected(k2)
  BY DEF Advance, SameStop, Alike, Live, Births, Uncollected

\* Tracees that go on by themselves.
LEMMA AdvanceHalted ==
  ASSUME IInv, Halted, UNCHANGED Tracer, \A q \in Pids : Advance(kern[q], kern'[q])
  PROVE  Halted'
  <1>1. /\ task' = task /\ pc' = pc /\ frame' = frame /\ opt' = opt
    BY DEF Tracer
  <1>2. Follow' = Follow
    BY <1>1 DEF Follow
  <1>3. Balance'
    <2>1. \A q \in Pids : Regular(kern[q]) /\ (~Stepping(q) => Agree(task[q], kern[q], Follow))
      BY DEF Halted, Balance
    <2>2. \A q \in Pids : Regular(kern'[q]) /\ (~Stepping(q) => Agree(task[q], kern'[q], Follow))
      BY <2>1, AgreeAdvance
    <2> QED BY <1>1, <1>2, <2>2 DEF Balance, Stepping
  <1>4. StepHeld' /\ TodoHeld'
    BY <1>1 DEF Halted, StepHeld, TodoHeld, Members, Known
  <1>5. Families'
    <2>1. \A p \in Pids :
                     /\ kern'[p].tgid = kern[p].tgid
                     /\ kern'[p].st = "absent" <=> kern[p].st = "absent"
                     /\ kern'[p].status \in Births => kern[p].status \in Births /\ kern'[p].child = kern[p].child
                     /\ ~task[p].known /\ Uncollected(kern[p]) => Uncollected(kern'[p])
      BY AdvanceKin
    <2> QED BY <1>1, <2>1, FamiliesMoved
  <1> QED BY <1>3, <1>4, <1>5 DEF Halted

\* SIGKILL, task by task.
LEMMA KillAt ==
  ASSUME NEW K, KernelFacts(K), NEW P, NEW q \in Pids
  PROVE  /\ q \notin P => KillAll(K, P)[q] = K[q]
         /\ Advance(K[q], KillAll(K, P)[q])
  <1>1. K[q] \in KTask
    BY DEF KernelFacts
  <1>2. CASE q \notin P
    BY <1>2 DEF KillAll, Advance, SameStop, Alike
  <1>3. CASE q \in P
    <2>1. KillAll(K, P)[q] = KillOne(K[q])
      BY <1>3 DEF KillAll
    <2> DEFINE k == K[q]
               k2 == KillAll(K, P)[q]
    <2>2. CASE ~Live(k)
      <3>1. k2 = k
        BY <2>1, <2>2 DEF KillOne, Live
      <3>2. SameStop(k, k2)
        BY <3>1 DEF SameStop, Alike
      <3> QED BY <1>3, <3>2 DEF Advance
    <2>3. CASE Live(k) /\ k.st = "stopped" /\ k.exiting
      <3>1. k2 = [k EXCEPT !.st = "zombie", !.status = "exited"]
        BY <2>1, <2>3 DEF KillOne
      <3>2. k2.st = "zombie" /\ k2.status = "exited" /\ Alike(k, k2)
        BY <1>1, <3>1 DEF Alike, KTask
      <3> QED BY <1>3, <2>3, <3>2 DEF Advance
    <2>4. CASE Live(k) /\ ~(k.st = "stopped" /\ k.exiting)
      <3>1. k2 = [k EXCEPT !.st = "running", !.status = "none", !.dying = TRUE]
        BY <2>1, <2>4 DEF KillOne
      <3>2. /\ k2.st = "running" /\ k2.status = "none" /\ k2.dying = TRUE
            /\ k2.tgid = k.tgid /\ k2.child = k.child
        BY <1>1, <3>1 DEF KTask
      <3> QED BY <1>3, <2>4, <3>2 DEF Advance
    <2> QED BY <1>3, <2>2, <2>3, <2>4
  <1> QED BY <1>2, <1>3

\* Signals, breakpoints, exec, exits and kills are advances of the tracees.
LEMMA TraceeAdvances ==
  ASSUME IInv, Halted, NEW p \in Pids,
         \/ TraceeSigstop(p) \/ TraceeTrap(p) \/ TraceeSignal(p) \/ TraceeExec(p)
         \/ TraceeExecStop(p) \/ TraceeExit(p) \/ TraceeExitGroup(p) \/ TraceeDie(p)
  PROVE  \A q \in Pids : Advance(kern[q], kern'[q])
  <1>1. kern \in [Pids -> KTask] /\ kern[p] \in KTask /\ KernelFacts(kern)
    BY DEF IInv, KernelFacts
  <1>2. Regular(kern[p])
    BY DEF Halted, Balance
  <1>3. ASSUME NEW k2, NEW s, kern' = [kern EXCEPT ![p] = k2], Advance(kern[p], k2)
        PROVE  \A q \in Pids : Advance(kern[q], kern'[q])
    <2>1. \A q \in Pids : kern'[q] = IF q = p THEN k2 ELSE kern[q]
      BY <1>1, <1>3
    <2> QED BY <1>3, <2>1 DEF Advance, SameStop, Alike
  <1>4. CASE TraceeSigstop(p)
    <2>1. kern' = [kern EXCEPT ![p] = [kern[p] EXCEPT !.st = "stopped", !.status = "sigstop", !.sigstop = FALSE]]
      BY <1>1, <1>4 DEF TraceeSigstop, EnterStop
    <2>2. Advance(kern[p], [kern[p] EXCEPT !.st = "stopped", !.status = "sigstop", !.sigstop = FALSE])
      BY <1>1, <1>4 DEF TraceeSigstop, Advance, Alike, KTask
    <2> QED BY <1>3, <2>1, <2>2
  <1>5. CASE TraceeTrap(p) \/ TraceeSignal(p) \/ TraceeExecStop(p)
    <2>1. PICK s \in {"trap", "signal", "exec"} : kern' = EnterStop(kern, p, s)
      BY <1>5 DEF TraceeTrap, TraceeSignal, TraceeExecStop
    <2>2. ~kern[p].dying /\ kern[p].st \in {"running", "stepping", "execing"}
      BY <1>2, <1>5 DEF TraceeTrap, TraceeSignal, TraceeExecStop, Running, Regular
    <2>3. kern' = [kern EXCEPT ![p] = [kern[p] EXCEPT !.st = "stopped", !.status = s]]
      BY <1>1, <2>1 DEF EnterStop
    <2>4. Advance(kern[p], [kern[p] EXCEPT !.st = "stopped", !.status = s])
      BY <1>1, <2>2 DEF Advance, Alike, KTask
    <2> QED BY <1>3, <2>3, <2>4
  <1>6. CASE TraceeExit(p) \/ TraceeDie(p)
    <2> DEFINE k2 == [kern[p] EXCEPT !.st = "stopped", !.status = "event_exit", !.exiting = TRUE]
    <2>1. kern' = [kern EXCEPT ![p] = k2]
      BY <1>1, <1>6 DEF TraceeExit, TraceeDie, EnterExit
    <2>2. kern[p].st = "running"
      BY <1>6 DEF TraceeExit, TraceeDie, Running
    <2>3. k2.st = "stopped" /\ k2.status = "event_exit" /\ k2.exiting = TRUE /\ Alike(kern[p], k2)
      BY <1>1 DEF Alike, KTask
    <2> HIDE DEF k2
    <2>4. Advance(kern[p], k2)
      BY <2>2, <2>3 DEF Advance
    <2> QED BY <1>3, <2>1, <2>4
  <1>7. CASE TraceeExec(p)
    <2> DEFINE P == Group(kern, p) \ {p}
    <2>1. kern' = [KillAll(kern, P) EXCEPT ![p].st = "execing"]
      BY <1>7 DEF TraceeExec
    <2>2. \A q \in Pids : Advance(kern[q], KillAll(kern, P)[q])
      BY <1>1, KillAt
    <2>3. KillAll(kern, P)[p] = kern[p]
      BY <1>1, KillAt
    <2>4. \A q \in Pids \ {p} : kern'[q] = KillAll(kern, P)[q]
      BY <2>1 DEF KillAll
    <2>5. kern'[p] = [kern[p] EXCEPT !.st = "execing"]
      BY <2>1, <2>3 DEF KillAll
    <2>6. Advance(kern[p], kern'[p])
      <3>1. kern[p].st = "running" /\ ~kern[p].dying
        BY <1>7 DEF TraceeExec, Running
      <3>2. kern'[p].st = "execing" /\ kern'[p].status = kern[p].status /\ Alike(kern[p], kern'[p])
        BY <1>1, <2>5 DEF Alike, KTask
      <3> QED BY <3>1, <3>2 DEF Advance
    <2> QED BY <2>2, <2>4, <2>6
  <1>8. CASE TraceeExitGroup(p)
    <2> DEFINE P == Group(kern, p) \ {p}
               k2 == [kern[p] EXCEPT !.st = "stopped", !.status = "event_exit", !.exiting = TRUE]
    <2>1. kern' = EnterExit(KillAll(kern, P), p)
      BY <1>8 DEF TraceeExitGroup
    <2>2. \A q \in Pids : Advance(kern[q], KillAll(kern, P)[q])
      BY <1>1, KillAt
    <2>3. KillAll(kern, P)[p] = kern[p]
      BY <1>1, KillAt
    <2>4. \A q \in Pids \ {p} : kern'[q] = KillAll(kern, P)[q]
      BY <2>1 DEF KillAll, EnterExit
    <2>5. kern'[p] = k2
      BY <2>1, <2>3 DEF KillAll, EnterExit
    <2>6. kern[p].st = "running" /\ ~kern[p].dying
      BY <1>8 DEF TraceeExitGroup, Running
    <2>7. k2.st = "stopped" /\ k2.status = "event_exit" /\ Alike(kern[p], k2)
      BY <1>1 DEF Alike, KTask
    <2> HIDE DEF k2
    <2>8. Advance(kern[p], k2)
      BY <2>6, <2>7 DEF Advance
    <2> QED BY <2>2, <2>4, <2>5, <2>8
  <1> QED BY <1>4, <1>5, <1>6, <1>7, <1>8

\* clone and fork: only a task that the tracer lets run creates one, unknown as yet.
LEMMA SpawnHalted ==
  ASSUME IInv, Halted, NEW p \in Pids, NEW c \in Pids, NEW how \in Births, TraceeSpawn(p, c, how)
  PROVE  Halted'
  <1>1. /\ task' = task /\ pc' = pc /\ frame' = frame /\ opt' = opt
        /\ kern[p].st = "running" /\ ~kern[p].dying /\ kern[c].st = "absent" /\ p # c
        /\ kern' = Spawn(kern, p, c, how)
    BY DEF TraceeSpawn, Tracer, Running
  <1>2. kern \in [Pids -> KTask] /\ kern[p] \in KTask /\ kern[p].tgid \in Pids
    BY <1>1 DEF IInv, KernelFacts
  <1>3. ~task[c].known
    BY <1>1 DEF IInv, TaskFacts, GoodTask
  <1>4. ~Stepping(c)
    BY <1>3 DEF Halted, StepHeld, Stepping, IInv, TaskFacts, GoodTask
  <1>5. task[p].known /\ (~Stepping(p) => ~task[p].stopped)
    <2>1. CASE Stepping(p)
      BY <2>1 DEF Halted, StepHeld, Stepping, IInv, TaskFacts, GoodTask
    <2>2. CASE ~Stepping(p)
      BY <1>1, <2>2 DEF Halted, Balance, Agree, Quiet, Waits
    <2> QED BY <2>1, <2>2
  <1>6. /\ kern'[p].st = "stopped" /\ kern'[p].status = how /\ kern'[p].child = c
        /\ kern'[p].tgid = kern[p].tgid /\ kern'[p].dying = kern[p].dying
    BY <1>1, <1>2 DEF Spawn, KTask
  <1>7. /\ kern'[c].st = "newborn" /\ kern'[c].status = "none" /\ kern'[c].dying = FALSE
        /\ kern'[c].tgid \in {kern[p].tgid, c}
    <2>1. kern'[c] = [NoKTask EXCEPT !.st = "newborn", !.sigstop = TRUE,
                                     !.tgid = IF how = "clone" THEN kern[p].tgid ELSE c]
      BY <1>1, <1>2 DEF Spawn
    <2> QED BY <2>1 DEF NoKTask
  <1>8. \A q \in Pids \ {p, c} : kern'[q] = kern[q]
    BY <1>1, <1>2 DEF Spawn
  <1>9. Follow' = Follow
    BY <1>1 DEF Follow
  <1>10. Balance'
    <2>1. Regular(kern'[p]) /\ (~Stepping(p) => Agree(task[p], kern'[p], Follow))
      BY <1>1, <1>5, <1>6 DEF Agree, Regular, Uncollected, Births
    <2>2. Regular(kern'[c]) /\ Agree(task[c], kern'[c], Follow)
      BY <1>3, <1>7 DEF Agree, Regular, Waits, Births
    <2>3. \A q \in Pids \ {p, c} : Regular(kern'[q]) /\ (~Stepping(q) => Agree(task[q], kern'[q], Follow))
      BY <1>8 DEF Halted, Balance
    <2> QED BY <1>1, <1>9, <2>1, <2>2, <2>3 DEF Balance, Stepping
  <1>11. StepHeld' /\ TodoHeld'
    BY <1>1 DEF Halted, StepHeld, TodoHeld, Members, Known
  <1>12. \A m \in Pids : kern[m].st # "absent" => kern'[m].st # "absent" /\ kern'[m].tgid = kern[m].tgid
    BY <1>1, <1>6, <1>8
  <1>13. Kin(kern')
    <2> SUFFICES ASSUME NEW q \in Pids
                 PROVE  /\ kern'[q].st # "absent" => /\ kern'[kern'[q].tgid].st # "absent"
                                                     /\ kern'[kern'[q].tgid].tgid = kern'[q].tgid
                        /\ kern'[q].status \in Births =>
                             kern'[kern'[q].child].tgid \in {kern'[q].tgid, kern'[q].child}
      BY DEF Kin
    <2>1. \A r \in Pids : kern[r].st # "absent" =>
                            /\ kern[r].tgid \in Pids /\ kern'[kern[r].tgid].st # "absent"
                            /\ kern'[kern[r].tgid].tgid = kern[r].tgid
      <3> SUFFICES ASSUME NEW r \in Pids, kern[r].st # "absent"
                   PROVE  /\ kern[r].tgid \in Pids /\ kern'[kern[r].tgid].st # "absent"
                          /\ kern'[kern[r].tgid].tgid = kern[r].tgid
        OBVIOUS
      <3>1. kern[r].tgid \in Pids
        BY DEF IInv, KernelFacts
      <3>2. kern[kern[r].tgid].st # "absent" /\ kern[kern[r].tgid].tgid = kern[r].tgid
        BY DEF Halted, Families, Kin
      <3> QED BY <1>12, <3>1, <3>2
    <2>2. CASE q = c
      BY <1>1, <1>7, <2>1, <2>2 DEF Births
    <2>3. CASE q = p
      BY <1>1, <1>6, <1>7, <2>1, <2>3
    <2>4. CASE q \notin {p, c}
      <3>1. kern'[q] = kern[q]
        BY <1>8, <2>4
      <3>2. ASSUME kern[q].status \in Births
            PROVE  kern'[kern[q].child].tgid \in {kern[q].tgid, kern[q].child}
        <4>1. kern[q].child \in Pids /\ kern[kern[q].child].st # "absent"
          BY <3>2 DEF IInv, KernelFacts, Births
        <4>2. kern[kern[q].child].tgid \in {kern[q].tgid, kern[q].child}
          BY <3>2 DEF Halted, Families, Kin
        <4> QED BY <1>12, <4>1, <4>2
      <3> QED BY <2>1, <3>1, <3>2
    <2> QED BY <2>2, <2>3, <2>4
  <1>14. ASSUME Follow
         PROVE  Led(task, kern')
    <2> SUFFICES ASSUME NEW q \in Pids, task[q].known PROVE task[kern'[q].tgid].known
      BY DEF Led
    <2>1. kern[q].st # "absent"
      BY DEF IInv, TaskFacts, GoodTask
    <2> QED BY <1>12, <1>14, <2>1 DEF Halted, Families, Led
  <1>15. ASSUME Follow
         PROVE  Fresh(task, kern')
    <2> SUFFICES ASSUME NEW q \in Pids, task[q].known, kern'[q].status \in Births,
                        ~task[kern'[q].child].known
                 PROVE  Uncollected(kern'[kern'[q].child])
      BY DEF Fresh
    <2>1. CASE q = p
      BY <1>6, <1>7, <2>1 DEF Uncollected
    <2>2. CASE q # p
      <3>1. kern'[q] = kern[q]
        BY <1>3, <1>8, <2>2
      <3>2. kern[q].child \in Pids /\ kern[kern[q].child].st # "absent"
        BY <3>1 DEF IInv, KernelFacts, Births
      <3>3. kern[q].child \notin {p, c}
        BY <1>1, <1>5, <3>1, <3>2
      <3> QED BY <1>8, <1>15, <3>1, <3>2, <3>3 DEF Halted, Families, Fresh
    <2> QED BY <2>1, <2>2
  <1> QED BY <1>1, <1>9, <1>10, <1>11, <1>13, <1>14, <1>15 DEF Halted, Families

\* Every step of the tracees.
LEMMA TraceesHalted ==
  ASSUME IInv, Halted, Tracees
  PROVE  Halted'
  <1>1. PICK p \in Pids :
          \/ TraceeSigstop(p) \/ TraceeTrap(p) \/ TraceeSignal(p) \/ TraceeExec(p)
          \/ TraceeExecStop(p) \/ TraceeExit(p) \/ TraceeExitGroup(p) \/ TraceeDie(p)
          \/ \E c \in Pids : TraceeSpawn(p, c, "clone") \/ TraceeSpawn(p, c, "fork")
    BY DEF Tracees
  <1>2. CASE \E c \in Pids : TraceeSpawn(p, c, "clone") \/ TraceeSpawn(p, c, "fork")
    <2>1. PICK c \in Pids, how \in Births : TraceeSpawn(p, c, how)
      BY <1>2 DEF Births
    <2> QED BY <2>1, SpawnHalted
  <1>3. CASE \/ TraceeSigstop(p) \/ TraceeTrap(p) \/ TraceeSignal(p) \/ TraceeExec(p)
             \/ TraceeExecStop(p) \/ TraceeExit(p) \/ TraceeExitGroup(p) \/ TraceeDie(p)
    <2>1. \A q \in Pids : Advance(kern[q], kern'[q])
      BY <1>3, TraceeAdvances
    <2>2. UNCHANGED Tracer
      BY <1>3 DEF TraceeSigstop, TraceeTrap, TraceeSignal, TraceeExec, TraceeExecStop, TraceeExit,
                  TraceeExitGroup, TraceeDie
    <2> QED BY <2>1, <2>2, AdvanceHalted
  <1> QED BY <1>1, <1>2, <1>3

-----------------------------------------------------------------------------
(* The invariant.                                                          *)

\* After open_pid every attached task is stopped, with its leader.
LEMMA InitHalted ==
  ASSUME Init
  PROVE  Halted
  <1>0. Attached \in Seq(Pids) /\ Tgid \in [Pids -> Pids]
    BY ScenariosAssumption DEF Init, Attached, Tgid, Scenario
  <1>1. AttachedSet \subseteq Pids
    BY <1>0 DEF AttachedSet
  <1>2. \A p \in AttachedSet : Tgid[p] \in AttachedSet /\ Tgid[Tgid[p]] = Tgid[p]
    <2> SUFFICES ASSUME NEW p \in AttachedSet
                 PROVE  Tgid[p] \in AttachedSet /\ Tgid[Tgid[p]] = Tgid[p]
      OBVIOUS
    <2>1. PICK i \in DOMAIN Attached : p = Attached[i]
      BY DEF AttachedSet
    <2>2. PICK j \in DOMAIN Attached : Tgid[Attached[i]] = Attached[j] /\ Tgid[Attached[j]] = Attached[j]
      BY ScenariosAssumption DEF Init, Attached, Tgid
    <2> QED BY <2>1, <2>2 DEF AttachedSet
  <1>3. ASSUME NEW p \in AttachedSet
        PROVE  /\ task[p].known = TRUE /\ task[p].stopped = TRUE
               /\ kern[p].st = "stopped" /\ kern[p].status = "none" /\ kern[p].dying = FALSE
               /\ kern[p].tgid = Tgid[p]
    <2>1. /\ task[p] = [NoTask EXCEPT !.known = TRUE, !.leader = Tgid[p], !.stopped = TRUE,
                                     !.is_new = TRUE, !.event = "NEW"]
          /\ kern[p] = [NoKTask EXCEPT !.st = "stopped", !.tgid = Tgid[p]]
      BY <1>1, <1>3 DEF Init
    <2> QED BY <2>1 DEF NoTask, NoKTask
  <1>4. ASSUME NEW p \in Pids \ AttachedSet
        PROVE  /\ task[p].known = FALSE /\ task[p].stopped = FALSE
               /\ kern[p].st = "absent" /\ kern[p].status = "none" /\ kern[p].dying = FALSE
    <2>1. task[p] = NoTask /\ kern[p] = NoKTask
      BY <1>4 DEF Init
    <2> QED BY <2>1 DEF NoTask, NoKTask
  <1>5. \A p \in Pids : Agree(task[p], kern[p], Follow)
    BY <1>3, <1>4 DEF Agree, Regular, Quiet, Waits, Last, Births
  <1>6. Balance
    BY <1>5 DEF Balance, Agree
  <1>7. StepHeld /\ TodoHeld
    BY DEF StepHeld, TodoHeld, Init
  <1>8. Kin(kern)
    <2> SUFFICES ASSUME NEW p \in Pids
                 PROVE  /\ kern[p].st # "absent" => /\ kern[kern[p].tgid].st # "absent"
                                                    /\ kern[kern[p].tgid].tgid = kern[p].tgid
                        /\ kern[p].status \notin Births
      BY DEF Kin
    <2>1. kern[p].status = "none"
      BY <1>3, <1>4
    <2>2. ASSUME kern[p].st # "absent"
          PROVE  kern[kern[p].tgid].st # "absent" /\ kern[kern[p].tgid].tgid = kern[p].tgid
      <3>1. p \in AttachedSet
        BY <1>4, <2>2
      <3>2. kern[p].tgid = Tgid[p] /\ Tgid[p] \in AttachedSet
        BY <1>2, <1>3, <3>1
      <3>3. kern[Tgid[p]].st = "stopped" /\ kern[Tgid[p]].tgid = Tgid[Tgid[p]]
        BY <1>3, <3>2
      <3> QED BY <1>2, <3>1, <3>2, <3>3
    <2> QED BY <2>1, <2>2 DEF Births
  <1>9. Led(task, kern) /\ Fresh(task, kern)
    BY <1>1, <1>2, <1>3, <1>4 DEF Led, Fresh, Births
  <1> QED BY <1>6, <1>7, <1>8, <1>9 DEF Halted, Families

\* Every step of the tracer, the server and the tracees preserves Halted.
LEMMA NextHalted ==
  ASSUME IInv, Halted, [Next]_vars
  PROVE  Halted'
  <1>1. CASE NextEvent \/ MainDone
    BY <1>1, QuietSteps
  <1>2. CASE Wait
    BY <1>2, WaitUnknownHalted, WaitStoppedHalted, WaitProcessHalted DEF Wait
  <1>3. CASE HandleEvent
    <2>1. PICK p \in Pids :
            \/ HandleSignal(p) \/ HandleNew(p) \/ HandleChild(p) \/ HandleDeferred(p)
            \/ HandleAboutExit(p) \/ HandleExitThread(p) \/ HandleExitLeader(p)
            \/ HandleExec(p) \/ HandleExecNoFollow(p)
            \/ HandleBreakpointHw(p) \/ HandleBreakpointSw(p)
      BY <1>3 DEF HandleEvent
    <2> QED BY <2>1, HandleContinueHalted, HandleNewHalted, HandleChildHalted, StopStepsHalted,
               ListHalted, DestroyTaskHalted
  <1>4. CASE Finish
    <2>1. ASSUME StopNext PROVE Halted'
      <3>1. frame.leader \in Pids
        BY <2>1 DEF StopNext, StopDone, IInv, FrameFacts
      <3> QED BY <2>1, <3>1, StopStepsHalted
    <2> QED BY <1>4, <2>1, SingleStepHalted, StepDoneHalted, FinishHalted, QuietSteps, ListHalted,
               DestroyTaskHalted, DestroyLeaderHalted, FixAboutExitHalted DEF Finish
  <1>5. CASE \E l \in Pids : QuitRemove(l)
    BY <1>5, StopStepsHalted
  <1>6. CASE Server
    <2>1. ASSUME Disconnect \/ Quit PROVE Halted'
      <3>1. PICK l \in Leaders : TRUE
        BY <2>1 DEF Disconnect, Quit
      <3>2. l \in Pids
        BY <3>1 DEF Leaders, Known
      <3> QED BY <2>1, <3>2, StopStepsHalted
    <2> QED BY <1>6, <2>1, StopStepsHalted, ServerAboutExitHalted DEF Server
  <1>7. CASE Tracees
    BY <1>7, TraceesHalted
  <1>8. CASE UNCHANGED vars
    <2>1. task' = task /\ kern' = kern /\ pc' = pc /\ frame' = frame /\ opt' = opt
      BY <1>8 DEF vars
    <2> QED BY <2>1 DEF Halted, Balance, StepHeld, TodoHeld, Families, Stepping, Members, Known,
                        Follow
  <1> QED BY <1>1, <1>2, <1>3, <1>4, <1>5, <1>6, <1>7, <1>8
          DEF Next, TracerNext, Terminated

\* Halted is an invariant of the tracer.
THEOREM StopsInductive == Spec => []Halted
  <1>1. Init => Halted
    BY InitHalted
  <1>2. IInv /\ Halted /\ [Next]_vars => Halted'
    BY NextHalted
  <1> QED BY <1>1, <1>2, Inductive, PTL DEF Spec

\* While the tracer steps a task over a breakpoint whose instruction is back in
\* the text (trace.c:66-68), no other thread of the process runs, whatever
\* tracees and client do: for every set of pids and every scenario.
THEOREM StepAlone == Spec => []StepExclusive
  <1>1. IInv /\ Halted => StepExclusive
    <2> SUFFICES ASSUME IInv, Halted, pc = "step", NEW q \in Members(frame.leader) \ {frame.task}
                 PROVE  kern[q].st \notin {"running", "stepping"} \/ kern[q].dying
      BY DEF StepExclusive
    <2>1. q \in Pids /\ task[q].known /\ task[q].stopped
      BY DEF Halted, StepHeld, Members, Known
    <2>2. Agree(task[q], kern[q], Follow)
      BY <2>1 DEF Halted, Balance, Stepping
    <2> QED BY <2>1, <2>2 DEF Agree, Quiet
  <1> QED BY <1>1, Inductive, StopsInductive, PTL

\* Where forks are followed (options.follow), task->stopped and the kernel
\* agree: what is held stopped does not execute, and a stop the tracer does not
\* know of is still to be reported by waitpid.
THEOREM KernelAgrees == Spec => [](Follow => AgreesWithKernel)
  <1>1. IInv /\ Halted => (Follow => AgreesWithKernel)
    <2> SUFFICES ASSUME IInv, Halted, Follow, NEW p \in Known
                 PROVE  /\ task[p].stopped /\ ~(pc = "step" /\ frame.task = p) =>
                             kern[p].st \in {"stopped", "zombie", "gone"} \/ kern[p].dying
                        /\ ~task[p].stopped /\ kern[p].st = "stopped" => kern[p].status # "none"
      BY DEF AgreesWithKernel
    <2>1. p \in Pids /\ task[p].known
      BY DEF Known
    <2>2. CASE Stepping(p)
      BY <2>2 DEF Halted, StepHeld, Stepping
    <2>3. CASE ~Stepping(p)
      <3>1. Agree(task[p], kern[p], Follow)
        BY <2>1, <2>3 DEF Halted, Balance
      <3> QED BY <2>1, <2>3, <3>1 DEF Agree, Quiet, Uncollected, Stepping
    <2> QED BY <2>2, <2>3
  <1> QED BY <1>1, Inductive, StopsInductive, PTL

\* Whether or not forks are followed, a task that the tracer holds stopped and
\* is not stepping executes nothing, or was killed: the tracer may read and
\* write its memory (breakpoint_enable, the scan, ptrace's PEEK and POKE).
HeldStopped ==
  \A p \in Known : task[p].stopped /\ ~(pc = "step" /\ frame.task = p) =>
    kern[p].st \in {"stopped", "zombie", "gone"} \/ kern[p].dying

\* HeldStopped for every set of pids and every scenario.
THEOREM StoppedIsHeld == Spec => []HeldStopped
  <1>1. Halted => HeldStopped
    BY DEF Halted, Balance, Stepping, Agree, Quiet, HeldStopped, Known
  <1> QED BY <1>1, StopsInductive, PTL
=============================================================================
