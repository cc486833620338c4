-------------------------- MODULE TaskEventsProofs --------------------------
(***************************************************************************)
(* For every set of pids and every choice of options: the structures of    *)
(* the tracer keep their types, and the counters of a thread group, by     *)
(* which stop_threads decides whether everybody is stopped, are exact.     *)
(*                                                                         *)
(* Accounting alone is not inductive.  A step of the tracer also needs to  *)
(* know that the task it continues or destroys is stopped and belongs to   *)
(* the group whose counters it changes, and that a parent is not its own   *)
(* child: KernelFacts, TaskFacts and FrameFacts below.                     *)
(***************************************************************************)
EXTENDS TaskEvents, FiniteSetTheorems, SequenceTheorems, TLAPS

\* What the tracer relies on in the kernel state K.
KernelFacts(K) ==
  /\ K \in [Pids -> KTask]
  /\ \A p \in Pids :
       /\ K[p].st = "absent" => K[p].status = "none"
       /\ K[p].st # "absent" => K[p].tgid \in Pids
       /\ K[p].child # p
       /\ K[p].status \in {"clone", "fork"} =>
            K[p].child \in Pids /\ K[K[p].child].st # "absent"

\* K2 comes after K: a task keeps its thread group and is never unborn.
Later(K, K2) ==
  \A p \in Pids : K[p].st # "absent" => K2[p].st # "absent" /\ K2[p].tgid = K[p].tgid

\* What is true of every struct task t of pid p, k being its kernel task.
GoodTask(t, k, p) ==
  /\ t.stopped => t.known
  /\ t.known => k.st # "absent" /\ t.leader = k.tgid
  /\ t.newpid # p /\ t.defer # p
  /\ t.event = "CHILD" => t.newpid \in Pids

TaskFacts(T, K) ==
  /\ T \in [Pids -> TaskRec]
  /\ \A p \in Pids : GoodTask(T[p], K[p], p)

FrameFacts ==
  /\ pc = "handle" => frame.task \in Pids /\ task[frame.task].stopped
  /\ pc \in {"stop", "step", "destroy"} => frame.leader \in Pids
  /\ pc \in {"stop", "step"} /\ frame.cont \in {"disable", "enable"} => frame.task \in Pids
  /\ pc = "step" => frame.task \in Pids
  /\ \A p \in replies : kern[p].tgid = p /\ kern[p].st # "absent"

\* Accounting as a relation between the tasks and the counters.
MembersIn(T, l) == {p \in Pids : T[p].known /\ T[p].leader = l}
StoppedIn(T, l) == {p \in Pids : T[p].known /\ T[p].leader = l /\ T[p].stopped}

Exact(T, th, ts) ==
  /\ th \in [Pids -> Nat] /\ ts \in [Pids -> Nat]
  /\ \A l \in Pids : /\ th[l] = Cardinality(MembersIn(T, l))
                     /\ ts[l] = Cardinality(StoppedIn(T, l))

Rest ==
  /\ event_head \in Seq(Pids) /\ pc \in PC /\ frame \in Frame
  /\ connected \in BOOLEAN /\ replies \subseteq Pids /\ do_exit \in BOOLEAN

IInv ==
  /\ KernelFacts(kern)
  /\ TaskFacts(task, kern)
  /\ Exact(task, threads, threads_stopped)
  /\ FrameFacts
  /\ Rest

-----------------------------------------------------------------------------
(* The counters.                                                           *)

\* The tasks of a group are finitely many (pid_hash), so they can be counted.
LEMMA FiniteGroups ==
  ASSUME NEW T, NEW l
  PROVE  /\ IsFiniteSet(MembersIn(T, l)) /\ Cardinality(MembersIn(T, l)) \in Nat
         /\ IsFiniteSet(StoppedIn(T, l)) /\ Cardinality(StoppedIn(T, l)) \in Nat
  <1>1. MembersIn(T, l) \in SUBSET Pids /\ StoppedIn(T, l) \in SUBSET Pids
    BY DEF MembersIn, StoppedIn
  <1>2. IsFiniteSet(MembersIn(T, l)) /\ IsFiniteSet(StoppedIn(T, l))
    BY <1>1, FS_Subset, PidsAssumption
  <1> QED BY <1>2, FS_CardinalityType

\* The counters do not depend on the other fields of a task.
LEMMA ExactSame ==
  ASSUME NEW T, NEW T2, NEW th, NEW ts, Exact(T, th, ts),
         \A q \in Pids : /\ T2[q].known = T[q].known /\ T2[q].leader = T[q].leader
                         /\ T2[q].stopped = T[q].stopped
  PROVE  Exact(T2, th, ts)
  <1>1. \A l : MembersIn(T2, l) = MembersIn(T, l) /\ StoppedIn(T2, l) = StoppedIn(T, l)
    BY DEF MembersIn, StoppedIn
  <1> QED BY <1>1 DEF Exact

\* T2 differs from T at p only, as far as the counters are concerned.
OnlyAt(T, T2, p) ==
  \A q \in Pids \ {p} : /\ T2[q].known = T[q].known /\ T2[q].leader = T[q].leader
                        /\ T2[q].stopped = T[q].stopped

\* continue_task: one stopped task less.
LEMMA ExactContinue ==
  ASSUME NEW T, NEW T2, NEW th, NEW ts, Exact(T, th, ts), NEW p \in Pids,
         T[p].known, T[p].stopped, T[p].leader \in Pids, OnlyAt(T, T2, p),
         T2[p].known, ~T2[p].stopped, T2[p].leader = T[p].leader
  PROVE  Exact(T2, th, Dec(ts, T[p].leader))
  <1> DEFINE m == T[p].leader
  <1>1. \A l \in Pids : MembersIn(T2, l) = MembersIn(T, l)
    BY DEF MembersIn, OnlyAt
  <1>2. StoppedIn(T2, m) = StoppedIn(T, m) \ {p} /\ p \in StoppedIn(T, m)
    BY DEF StoppedIn, OnlyAt
  <1>3. \A l \in Pids \ {m} : StoppedIn(T2, l) = StoppedIn(T, l)
    BY DEF StoppedIn, OnlyAt
  <1>4. Cardinality(StoppedIn(T2, m)) = Cardinality(StoppedIn(T, m)) - 1
    BY <1>2, FS_RemoveElement, FiniteGroups
  <1>5. \A l \in Pids : Cardinality(StoppedIn(T2, l)) \in Nat
    BY FiniteGroups
  <1> QED BY <1>1, <1>3, <1>4, <1>5 DEF Exact, Dec

\* process_event, trace_setup: one stopped task more.
LEMMA ExactStop ==
  ASSUME NEW T, NEW T2, NEW th, NEW ts, Exact(T, th, ts), NEW p \in Pids,
         T[p].known, ~T[p].stopped, T[p].leader \in Pids, OnlyAt(T, T2, p),
         T2[p].known, T2[p].stopped, T2[p].leader = T[p].leader
  PROVE  Exact(T2, th, Inc(ts, T[p].leader))
  <1> DEFINE m == T[p].leader
  <1>1. \A l \in Pids : MembersIn(T2, l) = MembersIn(T, l)
    BY DEF MembersIn, OnlyAt
  <1>2. StoppedIn(T2, m) = StoppedIn(T, m) \cup {p} /\ p \notin StoppedIn(T, m)
    BY DEF StoppedIn, OnlyAt
  <1>3. \A l \in Pids \ {m} : StoppedIn(T2, l) = StoppedIn(T, l)
    BY DEF StoppedIn, OnlyAt
  <1>4. Cardinality(StoppedIn(T2, m)) = Cardinality(StoppedIn(T, m)) + 1
    BY <1>2, FS_AddElement, FiniteGroups
  <1>5. \A l \in Pids : Cardinality(StoppedIn(T2, l)) \in Nat
    BY FiniteGroups
  <1> QED BY <1>1, <1>3, <1>4, <1>5 DEF Exact, Inc

\* task_new: one running task more.
LEMMA ExactNew ==
  ASSUME NEW T, NEW T2, NEW th, NEW ts, Exact(T, th, ts), NEW p \in Pids,
         NEW m \in Pids, ~T[p].known, OnlyAt(T, T2, p),
         T2[p].known, ~T2[p].stopped, T2[p].leader = m
  PROVE  Exact(T2, Inc(th, m), ts)
  <1>1. \A l \in Pids : StoppedIn(T2, l) = StoppedIn(T, l)
    BY DEF StoppedIn, OnlyAt
  <1>2. MembersIn(T2, m) = MembersIn(T, m) \cup {p} /\ p \notin MembersIn(T, m)
    BY DEF MembersIn, OnlyAt
  <1>3. \A l \in Pids \ {m} : MembersIn(T2, l) = MembersIn(T, l)
    BY DEF MembersIn, OnlyAt
  <1>4. Cardinality(MembersIn(T2, m)) = Cardinality(MembersIn(T, m)) + 1
    BY <1>2, FS_AddElement, FiniteGroups
  <1>5. \A l \in Pids : Cardinality(MembersIn(T2, l)) \in Nat
    BY FiniteGroups
  <1> QED BY <1>1, <1>3, <1>4, <1>5 DEF Exact, Inc

\* task_destroy of a stopped task: one task and one stopped task less.
LEMMA ExactDestroy ==
  ASSUME NEW T, NEW T2, NEW th, NEW ts, Exact(T, th, ts), NEW p \in Pids,
         T[p].known, T[p].stopped, T[p].leader \in Pids, OnlyAt(T, T2, p), ~T2[p].known
  PROVE  Exact(T2, Dec(th, T[p].leader), Dec(ts, T[p].leader))
  <1> DEFINE m == T[p].leader
  <1>1. MembersIn(T2, m) = MembersIn(T, m) \ {p} /\ p \in MembersIn(T, m)
    BY DEF MembersIn, OnlyAt
  <1>2. StoppedIn(T2, m) = StoppedIn(T, m) \ {p} /\ p \in StoppedIn(T, m)
    BY DEF StoppedIn, OnlyAt
  <1>3. \A l \in Pids \ {m} : /\ MembersIn(T2, l) = MembersIn(T, l)
                              /\ StoppedIn(T2, l) = StoppedIn(T, l)
    BY DEF MembersIn, StoppedIn, OnlyAt
  <1>4. Cardinality(MembersIn(T2, m)) = Cardinality(MembersIn(T, m)) - 1
    BY <1>1, FS_RemoveElement, FiniteGroups
  <1>5. Cardinality(StoppedIn(T2, m)) = Cardinality(StoppedIn(T, m)) - 1
    <2>1. IsFiniteSet(StoppedIn(T, m))
      BY FiniteGroups
    <2> HIDE DEF m
    <2> QED BY <1>2, <2>1, FS_RemoveElement
  <1>6. \A l \in Pids : /\ Cardinality(MembersIn(T2, l)) \in Nat
                        /\ Cardinality(StoppedIn(T2, l)) \in Nat
    BY FiniteGroups
  <1> QED BY <1>3, <1>4, <1>5, <1>6 DEF Exact, Dec

-----------------------------------------------------------------------------
(* The kernel.                                                             *)

\* A kernel task moved on: it is the same task and reports no new child.
SameTask(k, k2) ==
  /\ k2.tgid = k.tgid /\ k2.child = k.child
  /\ k.st = "absent" <=> k2.st = "absent"
  /\ k2.st = "absent" => k2.status = k.status
  /\ k2.status \in {"clone", "fork"} => k2.status = k.status

\* A kernel state in which every task only moved on keeps KernelFacts.
LEMMA KernelStep ==
  ASSUME NEW K, NEW K2, KernelFacts(K), K2 \in [Pids -> KTask],
         \A q \in Pids : SameTask(K[q], K2[q])
  PROVE  KernelFacts(K2) /\ Later(K, K2)
  BY DEF KernelFacts, Later, SameTask

\* waitpid collects a status.
LEMMA ReapFacts ==
  ASSUME NEW K, KernelFacts(K), NEW p \in Pids
  PROVE  KernelFacts(Reap(K, p)) /\ Later(K, Reap(K, p))
  <1>1. K \in [Pids -> KTask] /\ \A q \in Pids : K[q] \in KTask
    BY DEF KernelFacts
  <1>2. Reap(K, p) \in [Pids -> KTask]
    <2>1. [K[p] EXCEPT !.status = "none",
                           !.st = IF @ = "zombie" THEN "gone" ELSE @] \in KTask
      BY <1>1 DEF KTask, KState, Status
    <2>2. Reap(K, p) = [K EXCEPT ![p] = [K[p] EXCEPT !.status = "none",
                           !.st = IF @ = "zombie" THEN "gone" ELSE @]]
      BY <1>1 DEF Reap
    <2> QED BY <1>1, <2>1, <2>2
  <1>3. \A q \in Pids : SameTask(K[q], Reap(K, p)[q])
    BY <1>1 DEF Reap, SameTask, KTask, KernelFacts
  <1> QED BY <1>2, <1>3, KernelStep

\* PTRACE_CONT and PTRACE_SINGLESTEP.
LEMMA ResumeFacts ==
  ASSUME NEW K, KernelFacts(K), NEW p \in Pids, NEW how \in {"running", "stepping"}
  PROVE  KernelFacts(Resume(K, p, how)) /\ Later(K, Resume(K, p, how))
  <1>1. K \in [Pids -> KTask] /\ \A q \in Pids : K[q] \in KTask
    BY DEF KernelFacts
  <1>2. Resume(K, p, how) \in [Pids -> KTask]
    <2>1. [K[p] EXCEPT !.st = "zombie", !.status = "exited"] \in KTask
      BY <1>1 DEF KTask, KState, Status
    <2>2. [K[p] EXCEPT !.st = how, !.status = "none"] \in KTask
      BY <1>1 DEF KTask, KState, Status
    <2>3. \/ Resume(K, p, how) = K
          \/ Resume(K, p, how) =
               [K EXCEPT ![p] = [K[p] EXCEPT !.st = "zombie", !.status = "exited"]]
          \/ Resume(K, p, how) = [K EXCEPT ![p] = [K[p] EXCEPT !.st = how, !.status = "none"]]
      BY <1>1 DEF Resume
    <2> QED BY <1>1, <2>1, <2>2, <2>3
  <1>3. \A q \in Pids : SameTask(K[q], Resume(K, p, how)[q])
    BY <1>1 DEF Resume, SameTask, KTask, KernelFacts
  <1> QED BY <1>2, <1>3, KernelStep

\* tgkill(SIGSTOP), as stop_threads sends it.
LEMMA SendStopFacts ==
  ASSUME NEW K, KernelFacts(K), NEW P
  PROVE  KernelFacts(SendStop(K, P)) /\ Later(K, SendStop(K, P))
  <1>1. K \in [Pids -> KTask] /\ \A q \in Pids : K[q] \in KTask
    BY DEF KernelFacts
  <1>2. SendStop(K, P) \in [Pids -> KTask]
    <2>1. \A q \in Pids : [K[q] EXCEPT !.sigstop = TRUE] \in KTask
      BY <1>1 DEF KTask
    <2> QED BY <1>1, <2>1 DEF SendStop
  <1>3. \A q \in Pids : SameTask(K[q], SendStop(K, P)[q])
    BY <1>1 DEF SendStop, Live, SameTask, KTask, KernelFacts
  <1> QED BY <1>2, <1>3, KernelStep

\* PTRACE_DETACH, as untrace_task does it.
LEMMA DetachFacts ==
  ASSUME NEW K, KernelFacts(K), NEW p \in Pids
  PROVE  KernelFacts(Detach(K, p)) /\ Later(K, Detach(K, p))
  <1>1. K \in [Pids -> KTask] /\ \A q \in Pids : K[q] \in KTask
    BY DEF KernelFacts
  <1>2. Detach(K, p) \in [Pids -> KTask]
    <2>1. [K[p] EXCEPT !.st = "gone", !.status = "none"] \in KTask
      BY <1>1 DEF KTask, KState, Status
    <2>2. \/ Detach(K, p) = K
          \/ Detach(K, p) = [K EXCEPT ![p] = [K[p] EXCEPT !.st = "gone", !.status = "none"]]
      BY <1>1 DEF Detach
    <2> QED BY <1>1, <2>1, <2>2
  <1>3. \A q \in Pids : SameTask(K[q], Detach(K, p)[q])
    BY <1>1 DEF Detach, SameTask, KTask, KernelFacts
  <1> QED BY <1>2, <1>3, KernelStep

\* A tracee stops.
LEMMA EnterStopFacts ==
  ASSUME NEW K, KernelFacts(K), NEW p \in Pids, K[p].st # "absent",
         NEW s \in {"sigstop", "signal", "trap", "exec"}
  PROVE  KernelFacts(EnterStop(K, p, s)) /\ Later(K, EnterStop(K, p, s))
  <1>1. K \in [Pids -> KTask] /\ \A q \in Pids : K[q] \in KTask
    BY DEF KernelFacts
  <1>2. EnterStop(K, p, s) \in [Pids -> KTask]
    <2>1. [K[p] EXCEPT !.st = "stopped", !.status = s] \in KTask
      BY <1>1 DEF KTask, KState, Status
    <2>2. EnterStop(K, p, s) = [K EXCEPT ![p] = [K[p] EXCEPT !.st = "stopped", !.status = s]]
      BY <1>1 DEF EnterStop
    <2> QED BY <1>1, <2>1, <2>2
  <1>3. \A q \in Pids : SameTask(K[q], EnterStop(K, p, s)[q])
    BY <1>1 DEF EnterStop, SameTask, KTask, KernelFacts
  <1> QED BY <1>2, <1>3, KernelStep

\* A tracee reaches its PTRACE_EVENT_EXIT stop.
LEMMA EnterExitFacts ==
  ASSUME NEW K, KernelFacts(K), NEW p \in Pids, K[p].st # "absent"
  PROVE  KernelFacts(EnterExit(K, p)) /\ Later(K, EnterExit(K, p))
  <1>1. K \in [Pids -> KTask] /\ \A q \in Pids : K[q] \in KTask
    BY DEF KernelFacts
  <1>2. EnterExit(K, p) \in [Pids -> KTask]
    <2>1. [K[p] EXCEPT !.st = "stopped", !.status = "event_exit", !.exiting = TRUE] \in KTask
      BY <1>1 DEF KTask, KState, Status
    <2>2. EnterExit(K, p) = [K EXCEPT ![p] = [K[p] EXCEPT !.st = "stopped", !.status = "event_exit", !.exiting = TRUE]]
      BY <1>1 DEF EnterExit
    <2> QED BY <1>1, <2>1, <2>2
  <1>3. \A q \in Pids : SameTask(K[q], EnterExit(K, p)[q])
    BY <1>1 DEF EnterExit, SameTask, KTask, KernelFacts
  <1> QED BY <1>2, <1>3, KernelStep

\* exit_group and exec kill the other threads.
LEMMA KillAllFacts ==
  ASSUME NEW K, KernelFacts(K), NEW P
  PROVE  KernelFacts(KillAll(K, P)) /\ Later(K, KillAll(K, P))
  <1>1. K \in [Pids -> KTask] /\ \A q \in Pids : K[q] \in KTask
    BY DEF KernelFacts
  <1>2. KillAll(K, P) \in [Pids -> KTask]
    <2>1. ASSUME NEW q \in Pids PROVE KillOne(K[q]) \in KTask
      <3>1. [K[q] EXCEPT !.st = "zombie", !.status = "exited"] \in KTask
        BY <1>1 DEF KTask, KState, Status
      <3>2. [K[q] EXCEPT !.st = "running", !.status = "none", !.dying = TRUE] \in KTask
        BY <1>1 DEF KTask, KState, Status
      <3> QED BY <1>1, <3>1, <3>2 DEF KillOne
    <2> QED BY <1>1, <2>1 DEF KillAll
  <1>3. \A q \in Pids : SameTask(K[q], KillAll(K, P)[q])
    BY <1>1 DEF KillAll, KillOne, Live, SameTask, KTask, KernelFacts
  <1> QED BY <1>2, <1>3, KernelStep

\* Kernel states follow each other transitively.
LEMMA TransFacts ==
  ASSUME NEW K, NEW K1, NEW K2, Later(K, K1), Later(K1, K2)
  PROVE  Later(K, K2)
  BY DEF Later

\* clone and fork: the child is born, its parent stops.
LEMMA SpawnFacts ==
  ASSUME NEW K, KernelFacts(K), NEW p \in Pids, NEW c \in Pids, NEW how \in {"clone", "fork"},
         K[p].st = "running", K[c].st = "absent"
  PROVE  KernelFacts(Spawn(K, p, c, how)) /\ Later(K, Spawn(K, p, c, how))
  <1> DEFINE K2 == Spawn(K, p, c, how)
  <1>1. K \in [Pids -> KTask] /\ \A q \in Pids : K[q] \in KTask
    BY DEF KernelFacts
  <1>2. p # c /\ K[p].tgid \in Pids
    BY DEF KernelFacts
  <1>3. K2[p] = [K[p] EXCEPT !.st = "stopped", !.status = how, !.child = c]
    BY <1>1, <1>2 DEF Spawn
  <1>4. K2[c] = [NoKTask EXCEPT !.st = "newborn", !.sigstop = TRUE,
                                !.tgid = IF how = "clone" THEN K[p].tgid ELSE c]
    BY <1>1, <1>2 DEF Spawn
  <1>5. \A q \in Pids \ {p, c} : K2[q] = K[q]
    BY <1>1, <1>2 DEF Spawn
  <1>6. K2[p] \in KTask
    BY <1>1, <1>3 DEF KTask, KState, Status
  <1>7. K2[c] \in KTask
    BY <1>2, <1>4 DEF KTask, KState, Status, NoKTask
  <1>8. K2 \in [Pids -> KTask]
    BY <1>1, <1>5, <1>6, <1>7 DEF Spawn
  <1>9. /\ K2[p].st = "stopped" /\ K2[p].status = how /\ K2[p].child = c /\ K2[p].tgid = K[p].tgid
        /\ K2[c].st = "newborn" /\ K2[c].status = "none" /\ K2[c].child = NoPid
        /\ K2[c].tgid \in Pids
    BY <1>1, <1>2, <1>3, <1>4 DEF KTask, NoKTask
  <1>10. Later(K, K2)
    BY <1>2, <1>5, <1>9 DEF Later
  <1> HIDE DEF K2
  <1>11. ASSUME NEW q \in Pids
         PROVE  /\ K2[q].st = "absent" => K2[q].status = "none"
                /\ K2[q].st # "absent" => K2[q].tgid \in Pids
                /\ K2[q].child # q
    <2>1. CASE q = p
      BY <1>2, <1>9, <2>1
    <2>2. CASE q = c
      BY <1>9, <2>2, PidsAssumption
    <2>3. CASE q \notin {p, c}
      BY <1>5, <2>3 DEF KernelFacts
    <2> QED BY <2>1, <2>2, <2>3
  <1>12. ASSUME NEW q \in Pids, K2[q].status \in {"clone", "fork"}
         PROVE  K2[q].child \in Pids /\ K2[K2[q].child].st # "absent"
    <2>1. CASE q = p
      BY <1>9, <2>1
    <2>2. CASE q = c
      BY <1>9, <1>12, <2>2
    <2>3. CASE q \notin {p, c}
      <3>1. K2[q] = K[q] /\ K[q].status \in {"clone", "fork"}
        BY <1>5, <1>12, <2>3
      <3>2. K[q].child \in Pids /\ K[K[q].child].st # "absent"
        BY <3>1 DEF KernelFacts
      <3> QED BY <1>10, <3>1, <3>2 DEF Later
    <2> QED BY <2>1, <2>2, <2>3
  <1> QED BY <1>8, <1>10, <1>11, <1>12 DEF KernelFacts, K2

\* The tasks stay consistent with a kernel that moves on.
LEMMA TaskFactsLater ==
  ASSUME NEW T, NEW K, NEW K2, TaskFacts(T, K), Later(K, K2)
  PROVE  TaskFacts(T, K2)
  BY DEF TaskFacts, GoodTask, Later

-----------------------------------------------------------------------------
(* The tasks.                                                              *)

\* One struct task is replaced by one that is good.
LEMMA TaskUpdate ==
  ASSUME NEW T, NEW K, TaskFacts(T, K), NEW p \in Pids, NEW t \in TaskRec,
         GoodTask(t, K[p], p)
  PROVE  TaskFacts([T EXCEPT ![p] = t], K) /\ OnlyAt(T, [T EXCEPT ![p] = t], p)
  BY DEF TaskFacts, OnlyAt

\* A freed struct task claims nothing.
LEMMA NoTaskGood ==
  ASSUME NEW k, NEW p \in Pids
  PROVE  NoTask \in TaskRec /\ GoodTask(NoTask, k, p) /\ ~NoTask.known
  BY PidsAssumption DEF NoTask, TaskRec, EventType, GoodTask

\* The leader of a known task is a pid.
LEMMA LeaderIsPid ==
  ASSUME NEW T, NEW K, TaskFacts(T, K), KernelFacts(K), NEW p \in Pids, T[p].known
  PROVE  T[p].leader \in Pids
  BY DEF TaskFacts, GoodTask, KernelFacts

\* task_destroy on the task.
LEMMA DestroyTaskFacts ==
  ASSUME NEW T, NEW K, NEW th, NEW ts, KernelFacts(K), TaskFacts(T, K), Exact(T, th, ts),
         NEW p \in Pids, T[p].stopped
  PROVE  /\ TaskFacts([T EXCEPT ![p] = NoTask], K)
         /\ Exact([T EXCEPT ![p] = NoTask], Dec(th, T[p].leader), Dec(ts, T[p].leader))
  <1>1. T[p].known /\ T[p].leader \in Pids
    BY LeaderIsPid DEF TaskFacts, GoodTask
  <1>2. TaskFacts([T EXCEPT ![p] = NoTask], K) /\ OnlyAt(T, [T EXCEPT ![p] = NoTask], p)
    BY TaskUpdate, NoTaskGood
  <1>3. ~[T EXCEPT ![p] = NoTask][p].known
    BY NoTaskGood DEF TaskFacts
  <1> QED BY <1>1, <1>2, <1>3, ExactDestroy

\* continue_task on the task, with or without clearing is_new and defer.
LEMMA ContinueTaskFacts ==
  ASSUME NEW T, NEW K, NEW th, NEW ts, KernelFacts(K), TaskFacts(T, K), Exact(T, th, ts),
         NEW p \in Pids, T[p].stopped, NEW t,
         t \in {[T[p] EXCEPT !.stopped = FALSE, !.event = "NONE"],
                [T[p] EXCEPT !.stopped = FALSE, !.event = "NONE", !.is_new = FALSE],
                [T[p] EXCEPT !.stopped = FALSE, !.event = "NONE", !.about_exit = FALSE],
                [T[p] EXCEPT !.stopped = FALSE, !.event = "NONE", !.is_new = FALSE,
                             !.defer = NoPid]}
  PROVE  /\ TaskFacts([T EXCEPT ![p] = t], K)
         /\ Exact([T EXCEPT ![p] = t], th, Dec(ts, T[p].leader))
  <1>1. T[p].known /\ T[p].leader \in Pids /\ T[p] \in TaskRec /\ GoodTask(T[p], K[p], p)
    BY LeaderIsPid DEF TaskFacts, GoodTask
  <1>2. t \in TaskRec
    BY <1>1 DEF TaskRec, EventType
  <1>3. /\ t.known = T[p].known /\ t.leader = T[p].leader /\ ~t.stopped
        /\ t.newpid = T[p].newpid /\ t.defer \in {T[p].defer, NoPid} /\ t.event = "NONE"
    BY <1>1 DEF TaskRec
  <1>4. GoodTask(t, K[p], p)
    BY <1>1, <1>3, PidsAssumption DEF GoodTask
  <1>5. TaskFacts([T EXCEPT ![p] = t], K) /\ OnlyAt(T, [T EXCEPT ![p] = t], p)
    BY <1>2, <1>4, TaskUpdate
  <1>6. [T EXCEPT ![p] = t][p] = t
    BY DEF TaskFacts
  <1> QED BY <1>1, <1>3, <1>5, <1>6, ExactContinue

-----------------------------------------------------------------------------
(* The steps.                                                              *)

\* A step of a tracee.
LEMMA KernelMoves ==
  ASSUME IInv, KernelFacts(kern'), Later(kern, kern'), UNCHANGED Tracer
  PROVE  IInv'
  <1>1. TaskFacts(task, kern')
    BY TaskFactsLater DEF IInv
  <1>2. \A p \in replies : kern'[p].tgid = p /\ kern'[p].st # "absent"
    BY DEF IInv, FrameFacts, Later, Rest
  <1> QED BY <1>1, <1>2 DEF IInv, FrameFacts, Rest, Tracer

\* A failing assert changes nothing but where the tracer is.
LEMMA Fails ==
  ASSUME IInv, Fail
  PROVE  IInv'
  BY DEF IInv, Fail, FrameFacts, Rest, PC

\* What is left to show when the tracer is back in its main loop.
LEMMA BackInMain ==
  ASSUME IInv, KernelFacts(kern'), TaskFacts(task', kern'), Later(kern, kern'),
         Exact(task', threads', threads_stopped'), event_head' \in Seq(Pids),
         pc' = "main", frame' = NoFrame, connected' \in BOOLEAN, do_exit' \in BOOLEAN,
         replies' \subseteq replies
  PROVE  IInv'
  <1>1. \A p \in replies' : kern'[p].tgid = p /\ kern'[p].st # "absent"
    BY DEF IInv, FrameFacts, Later, Rest
  <1>2. NoFrame \in Frame
    BY DEF NoFrame, Frame, Cont
  <1> QED BY <1>1, <1>2 DEF IInv, FrameFacts, Rest, PC

\* continue_task at the end of a handler.
LEMMA Continues ==
  ASSUME IInv, NEW p \in Pids, task[p].stopped, ContinueAndReturn(p)
  PROVE  IInv'
  <1>1. KernelFacts(kern') /\ Later(kern, kern')
    BY ResumeFacts DEF IInv, ContinueAndReturn
  <1>2. task' = [task EXCEPT ![p] = [task[p] EXCEPT !.stopped = FALSE, !.event = "NONE"]]
    BY DEF IInv, TaskFacts, ContinueAndReturn, continue_task
  <1>3. TaskFacts(task', kern) /\ Exact(task', threads, Dec(threads_stopped, task[p].leader))
    BY <1>2, ContinueTaskFacts DEF IInv
  <1>4. TaskFacts(task', kern')
    BY <1>1, <1>3, TaskFactsLater
  <1> QED BY <1>1, <1>3, <1>4, BackInMain DEF ContinueAndReturn, IInv, Rest

\* stop_threads.
LEMMA StopsThreads ==
  ASSUME IInv, NEW l \in Pids, NEW p \in Pids \cup {NoPid}, NEW cont \in Cont,
         NEW todo \in SUBSET Pids, cont \in {"disable", "enable"} => p \in Pids,
         stop_threads(l, p, cont, todo),
         UNCHANGED <<task, threads, threads_stopped, event_head>>,
         replies' \subseteq replies, connected' \in BOOLEAN, do_exit' \in BOOLEAN
  PROVE  IInv'
  <1>1. KernelFacts(kern') /\ Later(kern, kern')
    <2>1. CASE kern' = kern
      BY <2>1 DEF IInv, Later
    <2>2. CASE kern' = SendStop(kern, Members(l) \ StoppedOf(l))
      BY <2>2, SendStopFacts DEF IInv
    <2> QED BY <2>1, <2>2 DEF stop_threads
  <1>2. TaskFacts(task', kern')
    BY <1>1, TaskFactsLater DEF IInv
  <1>3. \A q \in replies' : kern'[q].tgid = q /\ kern'[q].st # "absent"
    BY <1>1 DEF IInv, FrameFacts, Later, Rest
  <1>4. frame' \in Frame /\ frame'.leader = l /\ frame'.task = p /\ frame'.cont = cont
    BY DEF stop_threads, Frame
  <1>5. pc' = "stop"
    BY DEF stop_threads
  <1> QED BY <1>1, <1>2, <1>3, <1>4, <1>5 DEF IInv, FrameFacts, Rest, PC

\* remove_event returns a queue of pids.
LEMMA RemoveEventType ==
  ASSUME NEW q \in Seq(Pids), NEW p
  PROVE  remove_event(q, p) \in Seq(Pids)
  <1>1. CASE \E i \in DOMAIN q : q[i] = p
    <2> DEFINE i == CHOOSE i \in DOMAIN q : q[i] = p
    <2>1. i \in DOMAIN q
      BY <1>1
    <2>2. i \in Nat /\ 1 <= i /\ i <= Len(q) /\ Len(q) \in Nat
      BY <2>1
    <2> HIDE DEF i
    <2>3. SubSeq(q, 1, i - 1) \in Seq(Pids) /\ SubSeq(q, i + 1, Len(q)) \in Seq(Pids)
      BY <2>2
    <2>4. SubSeq(q, 1, i - 1) \o SubSeq(q, i + 1, Len(q)) \in Seq(Pids)
      BY <2>3
    <2> QED BY <1>1, <2>4 DEF remove_event, i
  <1> QED BY <1>1 DEF remove_event

\* task_destroy, whatever its caller does next.
LEMMA Destroys ==
  ASSUME IInv, NEW p \in Pids, task[p].stopped, task_destroy(p)
  PROVE  /\ KernelFacts(kern') /\ Later(kern, kern') /\ TaskFacts(task', kern')
         /\ Exact(task', threads', threads_stopped')
         /\ event_head' \in Seq(Pids) /\ replies' \subseteq replies
  <1>1. KernelFacts(kern') /\ Later(kern, kern')
    BY DetachFacts DEF IInv, task_destroy
  <1>2. TaskFacts(task', kern) /\ Exact(task', threads', threads_stopped')
    BY DestroyTaskFacts DEF IInv, task_destroy
  <1>3. TaskFacts(task', kern')
    BY <1>1, <1>2, TaskFactsLater
  <1>4. event_head' \in Seq(Pids) /\ replies' \subseteq replies
    BY RemoveEventType DEF IInv, Rest, task_destroy
  <1> QED BY <1>1, <1>2, <1>3, <1>4

\* A leaf common to the handlers: a task whose event and newpid are set.
LEMMA EventSet ==
  ASSUME NEW T, NEW K, NEW th, NEW ts, TaskFacts(T, K), Exact(T, th, ts), NEW p \in Pids,
         NEW t \in TaskRec, t.known = T[p].known, t.leader = T[p].leader,
         t.stopped = T[p].stopped, t.newpid # p, t.defer = T[p].defer,
         t.event = "CHILD" => t.newpid \in Pids
  PROVE  TaskFacts([T EXCEPT ![p] = t], K) /\ Exact([T EXCEPT ![p] = t], th, ts)
  <1>1. GoodTask(t, K[p], p)
    BY DEF TaskFacts, GoodTask
  <1>2. TaskFacts([T EXCEPT ![p] = t], K) /\ OnlyAt(T, [T EXCEPT ![p] = t], p)
    BY <1>1, TaskUpdate
  <1>3. [T EXCEPT ![p] = t][p] = t
    BY DEF TaskFacts
  <1>4. \A q \in Pids : /\ [T EXCEPT ![p] = t][q].known = T[q].known
                        /\ [T EXCEPT ![p] = t][q].leader = T[q].leader
                        /\ [T EXCEPT ![p] = t][q].stopped = T[q].stopped
    <2> DEFINE T2 == [T EXCEPT ![p] = t]
    <2> HIDE DEF T2
    <2>1. T2[p] = t /\ OnlyAt(T, T2, p)
      BY <1>2, <1>3 DEF T2
    <2>2. \A q \in Pids : /\ T2[q].known = T[q].known /\ T2[q].leader = T[q].leader
                          /\ T2[q].stopped = T[q].stopped
      BY <2>1 DEF OnlyAt
    <2> QED BY <2>2 DEF T2
  <1>5. Exact([T EXCEPT ![p] = t], th, ts)
    BY <1>4, ExactSame
  <1> QED BY <1>2, <1>5

\* next_event takes the head of the queue.
LEMMA NextEventStep ==
  ASSUME IInv, NextEvent
  PROVE  IInv'
  <1>1. Head(event_head) \in Pids /\ Tail(event_head) \in Seq(Pids)
    BY DEF IInv, Rest, NextEvent
  <1>2. frame' \in Frame /\ frame'.task = Head(event_head)
    BY <1>1 DEF NextEvent, NoFrame, Frame, Cont
  <1>3. pc' = "failed" \/ (pc' = "handle" /\ task[Head(event_head)].stopped)
    BY DEF NextEvent
  <1> QED BY <1>1, <1>2, <1>3 DEF IInv, NextEvent, FrameFacts, Rest, PC

\* wait_event leaves the tracer in stop_threads, or hands p to its handler.
LEMMA Returned ==
  ASSUME IInv, NEW p \in Pids, Waiting, Return(p),
         KernelFacts(kern'), Later(kern, kern'), TaskFacts(task', kern'),
         Exact(task', threads', threads_stopped'), task'[p].stopped,
         UNCHANGED <<connected, replies, do_exit>>
  PROVE  IInv'
  <1>1. \A q \in replies : kern'[q].tgid = q /\ kern'[q].st # "absent"
    BY DEF IInv, FrameFacts, Later, Rest
  <1>2. CASE pc = "stop"
    BY <1>1, <1>2 DEF IInv, FrameFacts, Rest, Return
  <1>3. CASE pc # "stop"
    <2>1. pc' = "handle" /\ frame' = [NoFrame EXCEPT !.task = p] /\ event_head' = event_head
      BY <1>3 DEF Return
    <2>2. frame' \in Frame /\ frame'.task = p
      BY <2>1 DEF NoFrame, Frame, Cont
    <2> QED BY <1>1, <2>1, <2>2 DEF IInv, FrameFacts, Rest, PC
  <1> QED BY <1>2, <1>3

\* task_new: the task t of a pid that was unknown, in the group m.
LEMMA NewTaskFacts ==
  ASSUME NEW T, NEW K, NEW th, NEW ts, TaskFacts(T, K), KernelFacts(K), Exact(T, th, ts),
         NEW p \in Pids, ~T[p].known, K[p].st # "absent"
  PROVE  /\ TaskFacts(task_new(T, p, K[p].tgid), K)
         /\ Exact(task_new(T, p, K[p].tgid), Inc(th, K[p].tgid), ts)
  <1> DEFINE m == K[p].tgid
             t == [NoTask EXCEPT !.known = TRUE, !.leader = m, !.is_new = TRUE]
  <1>1. m \in Pids
    BY DEF KernelFacts
  <1>2. t \in TaskRec
    BY <1>1 DEF NoTask, TaskRec, EventType
  <1>3. t.known /\ ~t.stopped /\ t.leader = m /\ t.newpid = NoPid /\ t.defer = NoPid
        /\ t.event = "NONE"
    BY DEF NoTask
  <1>4. GoodTask(t, K[p], p)
    BY <1>1, <1>3, PidsAssumption DEF GoodTask
  <1>5. task_new(T, p, m) = [T EXCEPT ![p] = t]
    BY DEF task_new
  <1> HIDE DEF t
  <1>6. TaskFacts([T EXCEPT ![p] = t], K) /\ OnlyAt(T, [T EXCEPT ![p] = t], p)
    BY <1>2, <1>4, TaskUpdate
  <1>7. [T EXCEPT ![p] = t][p] = t
    BY DEF TaskFacts
  <1>8. Exact([T EXCEPT ![p] = t], Inc(th, m), ts)
    BY <1>1, <1>3, <1>6, <1>7, ExactNew
  <1> QED BY <1>5, <1>6, <1>8

\* A task that stops, with its event.
LEMMA StopTaskFacts ==
  ASSUME NEW T, NEW K, NEW th, NEW ts, TaskFacts(T, K), KernelFacts(K), Exact(T, th, ts),
         NEW p \in Pids, T[p].known, ~T[p].stopped,
         NEW t \in TaskRec, t.known, t.stopped, t.leader = T[p].leader, t.newpid # p,
         t.defer = T[p].defer, t.event = "CHILD" => t.newpid \in Pids
  PROVE  /\ TaskFacts([T EXCEPT ![p] = t], K)
         /\ Exact([T EXCEPT ![p] = t], th, Inc(ts, T[p].leader))
  <1>1. T[p].leader \in Pids
    BY LeaderIsPid
  <1>2. GoodTask(t, K[p], p)
    BY DEF TaskFacts, GoodTask
  <1>3. TaskFacts([T EXCEPT ![p] = t], K) /\ OnlyAt(T, [T EXCEPT ![p] = t], p)
    BY <1>2, TaskUpdate
  <1>4. [T EXCEPT ![p] = t][p] = t
    BY DEF TaskFacts
  <1>5. Exact([T EXCEPT ![p] = t], th, Inc(ts, T[p].leader))
    BY <1>1, <1>3, <1>4, ExactStop
  <1> QED BY <1>3, <1>5

\* A step that leaves the tracer where it is, with the same frame.
LEMMA StaysPut ==
  ASSUME IInv, KernelFacts(kern'), Later(kern, kern'), TaskFacts(task', kern'),
         Exact(task', threads', threads_stopped'), pc # "handle",
         UNCHANGED <<event_head, pc, frame, connected, replies, do_exit>>
  PROVE  IInv'
  <1>1. \A q \in replies : kern'[q].tgid = q /\ kern'[q].st # "absent"
    BY DEF IInv, FrameFacts, Later, Rest
  <1> QED BY <1>1 DEF IInv, FrameFacts, Rest

\* wait_event, status of an unknown pid: task_new, trace_setup.
LEMMA WaitUnknownStep ==
  ASSUME IInv, NEW p \in Pids, WaitUnknown(p)
  PROVE  IInv'
  <1> DEFINE l == LeaderOf(p)
             new == task_new(task, p, l)
  <1>1. KernelFacts(kern') /\ Later(kern, kern')
    BY ReapFacts DEF IInv, WaitUnknown
  <1>2. pc # "handle"
    BY DEF WaitUnknown, Waiting, MainLoop
  <1>3. CASE ~CanInit(p)
    <2>1. TaskFacts(task', kern') /\ Exact(task', threads', threads_stopped')
      BY <1>1, <1>3, TaskFactsLater DEF IInv, WaitUnknown
    <2> QED BY <1>1, <1>2, <2>1, StaysPut DEF WaitUnknown
  <1>4. CASE CanInit(p)
    <2>1. kern[p].st # "absent" /\ ~task[p].known
      BY DEF WaitUnknown, WaitReady, IInv, KernelFacts
    <2>2. TaskFacts(new, kern) /\ Exact(new, Inc(threads, l), threads_stopped)
      BY <2>1, NewTaskFacts DEF IInv, LeaderOf
    <2>3. new[p] = [NoTask EXCEPT !.known = TRUE, !.leader = l, !.is_new = TRUE]
      BY DEF task_new, IInv, TaskFacts
    <2>4. /\ threads' = Inc(threads, l)
          /\ \/ task' = new /\ threads_stopped' = threads_stopped
             \/ /\ task' = [new EXCEPT ![p].stopped = TRUE, ![p].event = "NEW"]
                /\ threads_stopped' = Inc(threads_stopped, l)
      BY <1>4 DEF WaitUnknown
    <2>5. CASE task' = new /\ threads_stopped' = threads_stopped
      <3>1. TaskFacts(task', kern') /\ Exact(task', threads', threads_stopped')
        BY <1>1, <2>2, <2>4, <2>5, TaskFactsLater
      <3> QED BY <1>1, <1>2, <3>1, StaysPut DEF WaitUnknown
    <2>6. CASE /\ task' = [new EXCEPT ![p].stopped = TRUE, ![p].event = "NEW"]
               /\ threads_stopped' = Inc(threads_stopped, l)
      <3> DEFINE t == [new[p] EXCEPT !.stopped = TRUE, !.event = "NEW"]
      <3>1. l \in Pids
        BY <2>1 DEF IInv, KernelFacts, LeaderOf
      <3>2. t \in TaskRec
        BY <2>3, <3>1 DEF TaskRec, NoTask, EventType
      <3>3. /\ new[p].known /\ ~new[p].stopped /\ new[p].leader = l
            /\ t.known /\ t.stopped /\ t.leader = new[p].leader /\ t.newpid = NoPid
            /\ t.defer = new[p].defer /\ t.event = "NEW"
        BY <2>3 DEF NoTask
      <3>4. task' = [new EXCEPT ![p] = t]
        BY <2>2, <2>6 DEF TaskFacts
      <3> HIDE DEF t, new, l
      <3>5. TaskFacts([new EXCEPT ![p] = t], kern)
            /\ Exact([new EXCEPT ![p] = t], Inc(threads, l), Inc(threads_stopped, new[p].leader))
        <4>1. KernelFacts(kern) /\ NoPid # p
          BY PidsAssumption DEF IInv
        <4> QED BY <2>2, <3>2, <3>3, <4>1, StopTaskFacts
      <3>6. TaskFacts(task', kern') /\ Exact(task', threads', threads_stopped')
        BY <1>1, <2>4, <2>6, <3>3, <3>4, <3>5, TaskFactsLater
      <3> QED BY <1>1, <1>2, <3>6, StaysPut DEF WaitUnknown
    <2> QED BY <2>4, <2>5, <2>6
  <1> QED BY <1>3, <1>4

\* wait_event, status of a task that is already stopped.
LEMMA WaitStoppedStep ==
  ASSUME IInv, NEW p \in Pids, WaitStopped(p)
  PROVE  IInv'
  <1>1. CASE Fail
    BY <1>1, Fails
  <1>2. CASE ~Fail
    <2> DEFINE t == [task[p] EXCEPT !.event =
                        IF kern[p].status = "exited" THEN "EXIT" ELSE "ABOUT_EXIT"]
    <2>1. /\ kern' = Reap(kern, p)
          /\ task' = [task EXCEPT ![p].event =
                        IF kern[p].status = "exited" THEN "EXIT" ELSE "ABOUT_EXIT"]
          /\ UNCHANGED <<threads, threads_stopped, event_head, pc, frame, connected, replies,
                         do_exit>>
      BY <1>2 DEF WaitStopped
    <2>2. task' = [task EXCEPT ![p] = t]
      BY <2>1 DEF IInv, TaskFacts
    <2>3. KernelFacts(kern') /\ Later(kern, kern')
      BY <2>1, ReapFacts DEF IInv
    <2>4. task[p] \in TaskRec /\ GoodTask(task[p], kern[p], p)
      BY DEF IInv, TaskFacts
    <2>5. t \in TaskRec
      BY <2>4 DEF TaskRec, EventType
    <2>6. /\ t.known = task[p].known /\ t.leader = task[p].leader /\ t.defer = task[p].defer
          /\ t.stopped = task[p].stopped /\ t.newpid # p /\ t.event # "CHILD"
      BY <2>4 DEF TaskRec, GoodTask
    <2> HIDE DEF t
    <2>7. TaskFacts(task', kern) /\ Exact(task', threads, threads_stopped)
      BY <2>2, <2>5, <2>6, EventSet DEF IInv
    <2>8. TaskFacts(task', kern') /\ pc # "handle"
      BY <2>3, <2>7, TaskFactsLater DEF WaitStopped, Waiting, MainLoop
    <2> QED BY <2>1, <2>3, <2>7, <2>8, StaysPut
  <1> QED BY <1>1, <1>2

\* _process_event returns an event type, a child event for clone and fork only.
LEMMA EventOfType ==
  ASSUME NEW p, NEW s
  PROVE  /\ EventOf(p, s) \in EventType
         /\ EventOf(p, s) = "CHILD" => s \in {"clone", "fork"}
  BY DEF EventOf, EventType

\* wait_event, status of a running task: process_event, child_event.
LEMMA WaitProcessStep ==
  ASSUME IInv, NEW p \in Pids, WaitProcess(p)
  PROVE  IInv'
  <1>1. CASE Fail
    BY <1>1, Fails
  <1>2. CASE ~Fail
    <2> DEFINE s == kern[p].status
               c == kern[p].child
               l == task[p].leader
               T == [task EXCEPT ![p].stopped = TRUE, ![p].event = EventOf(p, s),
                                 ![p].newpid = IF s \in {"clone", "fork"} THEN c ELSE NoPid]
               new == s \in {"clone", "fork"} /\ ~task[c].known
               t == [task[p] EXCEPT !.stopped = TRUE, !.event = EventOf(p, s),
                                    !.newpid = IF s \in {"clone", "fork"} THEN c ELSE NoPid]
    <2>1. /\ Waiting /\ task[p].known /\ ~task[p].stopped
          /\ kern' = Reap(kern, p)
          /\ task' = IF new THEN task_new(T, c, LeaderOf(c)) ELSE T
          /\ threads' = IF new THEN Inc(threads, LeaderOf(c)) ELSE threads
          /\ threads_stopped' = Inc(threads_stopped, l)
          /\ Return(p)
          /\ UNCHANGED <<connected, replies, do_exit>>
      BY <1>2 DEF WaitProcess
    <2>2. task[p] \in TaskRec /\ GoodTask(task[p], kern[p], p) /\ kern[p] \in KTask
      BY DEF IInv, TaskFacts, KernelFacts
    <2>3. c \in Pids \cup {NoPid} /\ c # p /\ NoPid # p
          /\ (s \in {"clone", "fork"} => c \in Pids /\ kern[c].st # "absent")
      BY <2>2, PidsAssumption DEF IInv, KernelFacts, KTask
    <2>4. t \in TaskRec
      BY <2>2, <2>3, EventOfType DEF TaskRec
    <2>5. /\ t.known = task[p].known /\ t.stopped /\ t.leader = l /\ t.newpid # p
          /\ t.defer = task[p].defer /\ t.event = EventOf(p, s)
          /\ (s \in {"clone", "fork"} => t.newpid \in Pids)
      BY <2>2, <2>3 DEF TaskRec
    <2>6. T = [task EXCEPT ![p] = t]
      BY DEF IInv, TaskFacts
    <2>7. KernelFacts(kern') /\ Later(kern, kern')
      BY <2>1, ReapFacts DEF IInv
    <2> HIDE DEF t, T
    <2>8. TaskFacts(T, kern) /\ Exact(T, threads, Inc(threads_stopped, l))
      BY <2>1, <2>4, <2>5, <2>6, EventOfType, StopTaskFacts DEF IInv
    <2>9. T[p].stopped
      BY <2>5, <2>6 DEF IInv, TaskFacts
    <2>10. CASE ~new
      <3>1. TaskFacts(task', kern') /\ Exact(task', threads', threads_stopped')
            /\ task'[p].stopped
        BY <2>1, <2>7, <2>8, <2>9, <2>10, TaskFactsLater
      <3> QED BY <2>1, <2>7, <3>1, Returned
    <2>11. CASE new
      <3>1. c \in Pids /\ kern[c].st # "absent" /\ ~T[c].known
        BY <2>3, <2>6, <2>11 DEF IInv, TaskFacts
      <3>2. /\ TaskFacts(task_new(T, c, kern[c].tgid), kern)
            /\ Exact(task_new(T, c, kern[c].tgid), Inc(threads, kern[c].tgid),
                     Inc(threads_stopped, l))
        BY <2>8, <3>1, NewTaskFacts DEF IInv
      <3>3. /\ task' = task_new(T, c, kern[c].tgid)
            /\ threads' = Inc(threads, kern[c].tgid)
            /\ threads_stopped' = Inc(threads_stopped, l)
        BY <2>1, <2>11 DEF LeaderOf
      <3>4. TaskFacts(task', kern') /\ Exact(task', threads', threads_stopped')
        BY <2>7, <3>2, <3>3, TaskFactsLater
      <3>5. task'[p].stopped
        BY <2>3, <2>8, <2>9, <3>3 DEF task_new, TaskFacts
      <3> QED BY <2>1, <2>7, <3>4, <3>5, Returned
    <2> QED BY <2>10, <2>11
  <1> QED BY <1>1, <1>2

\* handle_event runs for a stopped task.
LEMMA HandledStopped ==
  ASSUME IInv, NEW p \in Pids, pc = "handle", frame.task = p
  PROVE  task[p].stopped /\ task[p].known /\ task[p].leader \in Pids
  BY LeaderIsPid DEF IInv, FrameFacts, TaskFacts, GoodTask

\* The handlers that only continue the task.
LEMMA HandleSignalStep ==
  ASSUME IInv, NEW p \in Pids, HandleSignal(p) \/ HandleBreakpointHw(p)
  PROVE  IInv'
  <1>1. task[p].stopped
    BY HandledStopped DEF HandleSignal, HandleBreakpointHw, Handle
  <1>2. Fail \/ ContinueAndReturn(p)
    BY DEF HandleSignal, HandleBreakpointHw
  <1> QED BY <1>1, <1>2, Fails, Continues

\* handle_new.
LEMMA HandleNewStep ==
  ASSUME IInv, NEW p \in Pids, HandleNew(p)
  PROVE  IInv'
  <1>1. CASE Fail
    BY <1>1, Fails
  <1>2. CASE ~Fail
    <2>1. task[p].stopped
      BY HandledStopped DEF HandleNew, Handle
    <2>2. /\ task' = [continue_task(task, p) EXCEPT ![p].is_new = FALSE]
          /\ threads_stopped' = Dec(threads_stopped, task[p].leader)
          /\ kern' = Resume(kern, p, "running")
          /\ pc' = "main" /\ frame' = NoFrame
          /\ UNCHANGED <<threads, event_head, connected, replies, do_exit>>
      BY <1>2 DEF HandleNew
    <2>3. task' = [task EXCEPT ![p] =
                     [task[p] EXCEPT !.stopped = FALSE, !.event = "NONE", !.is_new = FALSE]]
      BY <2>2 DEF continue_task, IInv, TaskFacts
    <2>4. KernelFacts(kern') /\ Later(kern, kern')
      BY <2>2, ResumeFacts DEF IInv
    <2>5. TaskFacts(task', kern) /\ Exact(task', threads, Dec(threads_stopped, task[p].leader))
      BY <2>1, <2>3, ContinueTaskFacts DEF IInv
    <2>6. TaskFacts(task', kern')
      BY <2>4, <2>5, TaskFactsLater
    <2> QED BY <2>2, <2>4, <2>5, <2>6, BackInMain DEF IInv, Rest
  <1> QED BY <1>1, <1>2

\* do_clone: the child is destroyed or continued, its parent continued.
LEMMA Clones ==
  ASSUME IInv, NEW p \in Pids, NEW c \in Pids, p # c, task[p].stopped, task[c].stopped,
         CloneAndContinue(p, c)
  PROVE  IInv'
  <1> DEFINE l == task[c].leader
             drop == l = c /\ ~Follow
             tc == [task[c] EXCEPT !.stopped = FALSE, !.event = "NONE", !.is_new = FALSE,
                                   !.defer = NoPid]
             T == [task EXCEPT ![c] = IF drop THEN NoTask ELSE tc]
             K == IF drop THEN Detach(kern, c) ELSE Resume(kern, c, "running")
             th == IF drop THEN Dec(threads, c) ELSE threads
             tp == [T[p] EXCEPT !.stopped = FALSE, !.event = "NONE"]
  <1>1. task' = continue_task(T, p)
    <2>1. CASE drop
      BY <2>1 DEF CloneAndContinue, IInv, TaskFacts
    <2>2. CASE ~drop
      <3>1. [continue_task(task, c) EXCEPT ![c].is_new = FALSE, ![c].defer = NoPid]
              = [task EXCEPT ![c] = tc]
        BY DEF continue_task, IInv, TaskFacts
      <3> QED BY <2>2, <3>1 DEF CloneAndContinue
    <2> QED BY <2>1, <2>2
  <1>2. KernelFacts(K) /\ Later(kern, K)
    <2>1. CASE drop
      BY <2>1, DetachFacts DEF IInv
    <2>2. CASE ~drop
      BY <2>2, ResumeFacts DEF IInv
    <2> QED BY <2>1, <2>2
  <1>3. kern' = Resume(K, p, "running")
    BY DEF CloneAndContinue
  <1>4. KernelFacts(kern') /\ Later(kern, kern')
    <2> HIDE DEF K
    <2>1. KernelFacts(kern') /\ Later(K, kern')
      BY <1>2, <1>3, ResumeFacts
    <2> QED BY <1>2, <2>1, TransFacts
  <1>5. TaskFacts(T, kern) /\ Exact(T, th, Dec(threads_stopped, l))
    <2>1. CASE drop
      BY <2>1, DestroyTaskFacts DEF IInv
    <2>2. CASE ~drop
      BY <2>2, ContinueTaskFacts DEF IInv
    <2> QED BY <2>1, <2>2
  <1>6. T[p] = task[p]
    BY DEF IInv, TaskFacts
  <1>7. /\ threads' = th /\ threads_stopped' = Dec(Dec(threads_stopped, l), T[p].leader)
        /\ pc' = "main" /\ frame' = NoFrame
        /\ UNCHANGED <<connected, replies, do_exit>>
        /\ event_head' \in {event_head, remove_event(event_head, c)}
    BY <1>6 DEF CloneAndContinue
  <1>8. T[p].stopped /\ KernelFacts(kern)
    BY <1>6 DEF IInv
  <1> HIDE DEF T, K, th, drop
  <1>9. task' = [T EXCEPT ![p] = tp]
    BY <1>1, <1>5 DEF continue_task, TaskFacts
  <1>10. TaskFacts(task', kern) /\ Exact(task', threads', threads_stopped')
    BY <1>5, <1>7, <1>8, <1>9, ContinueTaskFacts
  <1>11. TaskFacts(task', kern')
    BY <1>4, <1>10, TaskFactsLater
  <1>12. event_head' \in Seq(Pids)
    BY <1>7, RemoveEventType DEF IInv, Rest
  <1> QED BY <1>4, <1>7, <1>10, <1>11, <1>12, BackInMain DEF IInv, Rest

\* handle_child: the child is cloned at once, or its parent deferred.
LEMMA HandleChildStep ==
  ASSUME IInv, NEW p \in Pids, HandleChild(p)
  PROVE  IInv'
  <1> DEFINE c == task[p].newpid
  <1>1. task[p].stopped /\ task[p].event = "CHILD"
    BY HandledStopped DEF HandleChild, Handle
  <1>2. c \in Pids /\ c # p /\ task[c] \in TaskRec /\ GoodTask(task[c], kern[c], c)
    BY <1>1 DEF IInv, TaskFacts, GoodTask
  <1>3. CASE Fail
    BY <1>3, Fails
  <1>4. CASE task[c].stopped /\ CloneAndContinue(p, c)
    BY <1>1, <1>2, <1>4, Clones
  <1>5. CASE /\ task' = [task EXCEPT ![c].defer = p]
             /\ pc' = "main" /\ frame' = NoFrame
             /\ UNCHANGED <<threads, threads_stopped, event_head, kern, connected, replies,
                            do_exit>>
    <2> DEFINE t == [task[c] EXCEPT !.defer = p]
    <2>1. task' = [task EXCEPT ![c] = t]
      BY <1>5 DEF IInv, TaskFacts
    <2>2. t \in TaskRec
      BY <1>2 DEF TaskRec
    <2>3. /\ t.known = task[c].known /\ t.leader = task[c].leader /\ t.defer = p
          /\ t.stopped = task[c].stopped /\ t.newpid = task[c].newpid /\ t.event = task[c].event
      BY <1>2 DEF TaskRec
    <2>4. GoodTask(t, kern[c], c)
      BY <1>2, <2>3 DEF GoodTask
    <2> HIDE DEF t
    <2>5. TaskFacts(task', kern) /\ OnlyAt(task, task', c)
      BY <1>2, <2>1, <2>2, <2>4, TaskUpdate DEF IInv
    <2>6. task'[c] = t
      BY <1>2, <2>1 DEF IInv, TaskFacts
    <2>7. \A q \in Pids : /\ task'[q].known = task[q].known /\ task'[q].leader = task[q].leader
                          /\ task'[q].stopped = task[q].stopped
      BY <2>3, <2>5, <2>6 DEF OnlyAt
    <2>8. Exact(task', threads', threads_stopped')
      BY <1>5, <2>7, ExactSame DEF IInv
    <2>9. KernelFacts(kern') /\ Later(kern, kern')
      BY <1>5 DEF IInv, Later
    <2> QED BY <1>5, <2>5, <2>8, <2>9, BackInMain DEF IInv, Rest
  <1> QED BY <1>2, <1>3, <1>4, <1>5 DEF HandleChild

\* do_clone_cb for a deferred parent.
LEMMA HandleDeferredStep ==
  ASSUME IInv, NEW c \in Pids, HandleDeferred(c)
  PROVE  IInv'
  <1> DEFINE p == task[c].defer
  <1>1. task[c].stopped
    BY HandledStopped DEF HandleDeferred
  <1>2. p \in Pids /\ p # c
    BY DEF HandleDeferred, IInv, TaskFacts, GoodTask, TaskRec
  <1>3. Fail \/ (task[p].stopped /\ CloneAndContinue(p, c))
    BY DEF HandleDeferred
  <1> QED BY <1>1, <1>2, <1>3, Fails, Clones

\* handle_about_exit: a leader waits for the client.
LEMMA HandleAboutExitStep ==
  ASSUME IInv, NEW p \in Pids, HandleAboutExit(p)
  PROVE  IInv'
  <1>1. task[p].stopped /\ task[p].known
    BY HandledStopped DEF HandleAboutExit, Handle
  <1>2. CASE ContinueAndReturn(p)
    BY <1>1, <1>2, Continues
  <1>3. CASE ~ContinueAndReturn(p)
    <2> DEFINE t == [task[p] EXCEPT !.about_exit = TRUE]
    <2>1. /\ task[p].leader = p
          /\ task' = [task EXCEPT ![p].about_exit = TRUE]
          /\ replies' = replies \cup {p}
          /\ pc' = "main" /\ frame' = NoFrame
          /\ UNCHANGED <<threads, threads_stopped, event_head, kern, connected, do_exit>>
      BY <1>3 DEF HandleAboutExit
    <2>2. task[p] \in TaskRec /\ GoodTask(task[p], kern[p], p)
      BY DEF IInv, TaskFacts
    <2>3. t \in TaskRec
      BY <2>2 DEF TaskRec
    <2>4. /\ t.known = task[p].known /\ t.leader = task[p].leader /\ t.defer = task[p].defer
          /\ t.stopped = task[p].stopped /\ t.newpid = task[p].newpid /\ t.event = task[p].event
      BY <2>2 DEF TaskRec
    <2>5. task' = [task EXCEPT ![p] = t]
      BY <2>1 DEF IInv, TaskFacts
    <2>6. t.newpid # p /\ (t.event = "CHILD" => t.newpid \in Pids)
      BY <2>2, <2>4 DEF GoodTask
    <2> HIDE DEF t
    <2>7. TaskFacts(task', kern) /\ Exact(task', threads, threads_stopped)
      BY <2>3, <2>4, <2>5, <2>6, EventSet DEF IInv
    <2>8. kern[p].tgid = p /\ kern[p].st # "absent"
      BY <1>1, <2>1, <2>2 DEF GoodTask
    <2>9. NoFrame \in Frame
      BY DEF NoFrame, Frame, Cont
    <2> QED BY <2>1, <2>7, <2>8, <2>9 DEF IInv, FrameFacts, Rest, PC
  <1> QED BY <1>2, <1>3

\* handle_exit of a thread: remove_task.
LEMMA HandleExitThreadStep ==
  ASSUME IInv, NEW p \in Pids, HandleExitThread(p)
  PROVE  IInv'
  <1>1. task[p].stopped /\ task_destroy(p)
    BY HandledStopped DEF HandleExitThread, Handle
  <1> QED BY <1>1, Destroys, BackInMain DEF HandleExitThread, IInv, Rest

\* The handlers that begin with stop_threads.
LEMMA HandleStopStep ==
  ASSUME IInv, NEW p \in Pids,
         HandleExitLeader(p) \/ HandleExecNoFollow(p) \/ HandleBreakpointSw(p)
  PROVE  IInv'
  <1>1. task[p].leader \in Pids
    BY HandledStopped DEF HandleExitLeader, HandleExecNoFollow, HandleBreakpointSw, Handle
  <1>2. UNCHANGED <<task, threads, threads_stopped, event_head, connected, replies, do_exit>>
    BY DEF HandleExitLeader, HandleExecNoFollow, HandleBreakpointSw
  <1>3. connected' \in BOOLEAN /\ do_exit' \in BOOLEAN /\ replies' \subseteq replies
    BY <1>2 DEF IInv, Rest
  <1>4. CASE stop_threads(p, p, "remove", {})
    BY <1>2, <1>3, <1>4, StopsThreads DEF Cont
  <1>5. CASE stop_threads(task[p].leader, p, "disable", {})
    BY <1>1, <1>2, <1>3, <1>5, StopsThreads DEF Cont
  <1> QED BY <1>4, <1>5 DEF HandleExitLeader, HandleExecNoFollow, HandleBreakpointSw

\* handle_exec, process_exec: the threads to destroy are chosen.
LEMMA HandleExecStep ==
  ASSUME IInv, NEW p \in Pids, HandleExec(p)
  PROVE  IInv'
  <1>1. frame' \in Frame /\ frame'.leader = p /\ pc' = "destroy"
    BY DEF HandleExec, Frame, Cont, Members, Known
  <1> QED BY <1>1 DEF HandleExec, IInv, FrameFacts, Rest, PC

\* breakpoint_disable is done, handle_singlestep steps the task.
LEMMA SingleStepStep ==
  ASSUME IInv, SingleStep
  PROVE  IInv'
  <1> DEFINE p == frame.task
             t == [task[p] EXCEPT !.event = "NONE"]
  <1>1. CASE Fail
    BY <1>1, Fails
  <1>2. CASE ~Fail
    <2>1. /\ task[p].stopped /\ task' = [task EXCEPT ![p].event = "NONE"]
          /\ kern' = Resume(kern, p, "stepping")
          /\ \/ pc' = "step" /\ frame' = frame
             \/ frame' = [frame EXCEPT !.cont = "requeue"] /\ pc' = pc
          /\ UNCHANGED <<threads, threads_stopped, event_head, connected, replies, do_exit>>
      BY <1>2 DEF SingleStep
    <2>2. pc = "stop" /\ frame.cont = "disable" /\ p \in Pids /\ frame.leader \in Pids
      BY DEF SingleStep, StopDone, IInv, FrameFacts
    <2>3. KernelFacts(kern') /\ Later(kern, kern')
      BY <2>1, <2>2, ResumeFacts DEF IInv
    <2>4. task[p] \in TaskRec /\ GoodTask(task[p], kern[p], p)
      BY <2>2 DEF IInv, TaskFacts
    <2>5. t \in TaskRec
      BY <2>4 DEF TaskRec, EventType
    <2>6. /\ t.known = task[p].known /\ t.leader = task[p].leader /\ t.defer = task[p].defer
          /\ t.stopped = task[p].stopped /\ t.newpid = task[p].newpid /\ t.event = "NONE"
          /\ t.newpid # p
      BY <2>4 DEF TaskRec, GoodTask
    <2>7. task' = [task EXCEPT ![p] = t]
      BY <2>1, <2>2 DEF IInv, TaskFacts
    <2>8. frame' \in Frame /\ frame'.leader = frame.leader /\ frame'.task = p
      BY <2>1, <2>2 DEF IInv, Rest, Frame, Cont
    <2> HIDE DEF t
    <2>9. TaskFacts(task', kern) /\ Exact(task', threads, threads_stopped)
      BY <2>2, <2>5, <2>6, <2>7, EventSet DEF IInv
    <2>10. TaskFacts(task', kern')
      BY <2>3, <2>9, TaskFactsLater
    <2>11. \A q \in replies : kern'[q].tgid = q /\ kern'[q].st # "absent"
      BY <2>3 DEF IInv, FrameFacts, Later, Rest
    <2>12. pc' \in {"stop", "step"}
      BY <2>1, <2>2
    <2> QED BY <2>1, <2>2, <2>3, <2>8, <2>9, <2>10, <2>11, <2>12 DEF IInv, FrameFacts, Rest, PC
  <1> QED BY <1>1, <1>2

\* handle_singlestep collects the status of the step.
LEMMA StepDoneStep ==
  ASSUME IInv, StepDone
  PROVE  IInv'
  <1> DEFINE p == frame.task
             s == kern[p].status
             n == IF s \in {"clone", "fork"} THEN kern[p].child ELSE NoPid
             t == [task[p] EXCEPT !.event = EventOf(p, s), !.newpid = n]
  <1>1. pc = "step" /\ p \in Pids /\ frame.leader \in Pids
    BY DEF StepDone, IInv, FrameFacts
  <1>2. KernelFacts(kern') /\ Later(kern, kern')
    BY <1>1, ReapFacts DEF IInv, StepDone
  <1>3. task[p] \in TaskRec /\ GoodTask(task[p], kern[p], p) /\ kern[p] \in KTask
    BY <1>1 DEF IInv, TaskFacts, KernelFacts
  <1>4. n \in Pids \cup {NoPid} /\ n # p /\ (s \in {"clone", "fork"} => n \in Pids)
    BY <1>1, <1>3, PidsAssumption DEF IInv, KernelFacts, KTask
  <1>5. t \in TaskRec
    BY <1>3, <1>4, EventOfType DEF TaskRec
  <1>6. /\ t.known = task[p].known /\ t.leader = task[p].leader /\ t.defer = task[p].defer
        /\ t.stopped = task[p].stopped /\ t.newpid = n /\ t.event = EventOf(p, s)
    BY <1>3 DEF TaskRec
  <1>7. t.event = "CHILD" => t.newpid \in Pids
    BY <1>4, <1>6, EventOfType
  <1>8. task' = [task EXCEPT ![p] = t]
    BY <1>1 DEF StepDone, IInv, TaskFacts
  <1>9. frame' \in Frame /\ frame'.leader = frame.leader /\ frame'.task = p /\ pc' = "stop"
    BY <1>1 DEF StepDone, IInv, Rest, Frame, Cont
  <1>10. event_head' \in Seq(Pids)
    BY <1>1 DEF StepDone, IInv, Rest
  <1> HIDE DEF t
  <1>11. TaskFacts(task', kern) /\ Exact(task', threads, threads_stopped)
    BY <1>1, <1>4, <1>5, <1>6, <1>7, <1>8, EventSet DEF IInv
  <1>12. TaskFacts(task', kern')
    BY <1>2, <1>11, TaskFactsLater
  <1>13. \A q \in replies : kern'[q].tgid = q /\ kern'[q].st # "absent"
    BY <1>2 DEF IInv, FrameFacts, Later, Rest
  <1>14. UNCHANGED <<threads, threads_stopped, connected, replies, do_exit>>
    BY DEF StepDone
  <1> QED BY <1>1, <1>2, <1>9, <1>10, <1>11, <1>12, <1>13, <1>14
          DEF IInv, FrameFacts, Rest, PC

\* skip_breakpoint continues the task after the step.
LEMMA SkipContinueStep ==
  ASSUME IInv, SkipContinue
  PROVE  IInv'
  <1>1. frame.task \in Pids
    BY DEF SkipContinue, StopDone, IInv, FrameFacts
  <1>2. Fail \/ (task[frame.task].stopped /\ ContinueAndReturn(frame.task))
    BY DEF SkipContinue
  <1> QED BY <1>1, <1>2, Fails, Continues

\* The steps that only go back to the main loop.
LEMMA ReturnStep ==
  ASSUME IInv, SkipReturn \/ QuitStopped
  PROVE  IInv'
  <1>1. /\ pc' = "main" /\ frame' = NoFrame
        /\ UNCHANGED <<task, threads, threads_stopped, event_head, kern, connected, replies,
                       do_exit>>
    BY DEF SkipReturn, QuitStopped
  <1>2. Later(kern, kern')
    BY <1>1 DEF Later
  <1> QED BY <1>1, <1>2, BackInMain DEF IInv, Rest

\* remove_proc chooses the tasks to destroy.
LEMMA RemoveProcStep ==
  ASSUME IInv, RemoveProc
  PROVE  IInv'
  <1>1. frame' \in Frame /\ frame'.leader = frame.leader /\ pc' = "destroy"
    BY DEF RemoveProc, IInv, Rest, Frame, Members, Known
  <1>2. frame.leader \in Pids
    BY DEF RemoveProc, StopDone, IInv, FrameFacts
  <1> QED BY <1>1, <1>2 DEF RemoveProc, IInv, FrameFacts, Rest, PC

\* remove_task_cb.
LEMMA DestroyTaskStep ==
  ASSUME IInv, NEW p \in Pids, DestroyTask(p)
  PROVE  IInv'
  <1>1. CASE Fail
    BY <1>1, Fails
  <1>2. CASE ~Fail
    <2>1. /\ task[p].stopped /\ task_destroy(p) /\ pc = "destroy"
          /\ frame' = [frame EXCEPT !.todo = @ \ {p}] /\ UNCHANGED <<pc, connected, do_exit>>
      BY <1>2 DEF DestroyTask
    <2>2. /\ KernelFacts(kern') /\ Later(kern, kern') /\ TaskFacts(task', kern')
          /\ Exact(task', threads', threads_stopped')
          /\ event_head' \in Seq(Pids) /\ replies' \subseteq replies
      BY <2>1, Destroys
    <2>3. frame' \in Frame /\ frame'.leader = frame.leader
      BY <2>1 DEF IInv, Rest, Frame
    <2>4. \A q \in replies' : kern'[q].tgid = q /\ kern'[q].st # "absent"
      BY <2>2 DEF IInv, FrameFacts, Later, Rest
    <2> QED BY <2>1, <2>2, <2>3, <2>4 DEF IInv, FrameFacts, Rest, PC
  <1> QED BY <1>1, <1>2

\* remove_proc destroys the leader.
LEMMA DestroyLeaderStep ==
  ASSUME IInv, DestroyLeader
  PROVE  IInv'
  <1>1. CASE Fail
    BY <1>1, Fails
  <1>2. CASE ~Fail
    <2>1. /\ task[frame.leader].stopped /\ task_destroy(frame.leader)
          /\ pc' = "main" /\ frame' = NoFrame /\ UNCHANGED <<connected, do_exit>>
      BY <1>2 DEF DestroyLeader
    <2>2. frame.leader \in Pids
      BY DEF DestroyLeader, IInv, FrameFacts
    <2> QED BY <2>1, <2>2, Destroys, BackInMain DEF IInv, Rest
  <1> QED BY <1>1, <1>2

\* handle_exec continues the leader.
LEMMA ExecDoneStep ==
  ASSUME IInv, ExecDone
  PROVE  IInv'
  <1>1. frame.leader \in Pids
    BY DEF ExecDone, IInv, FrameFacts
  <1>2. Fail \/ (task[frame.leader].stopped /\ ContinueAndReturn(frame.leader))
    BY DEF ExecDone
  <1> QED BY <1>1, <1>2, Fails, Continues

\* The client answers MT_ABOUT_EXIT.
LEMMA ServerAboutExitStep ==
  ASSUME IInv, NEW l \in Pids, ServerAboutExit(l)
  PROVE  IInv'
  <1>1. CASE Fail
    BY <1>1, Fails
  <1>2. CASE ~Fail
    <2>1. /\ pc = "main" /\ task[l].known /\ task[l].stopped /\ l \in replies
          /\ task' = continue_task(task, l)
          /\ threads_stopped' = Dec(threads_stopped, l)
          /\ kern' = Resume(kern, l, "running")
          /\ replies' = replies \ {l}
          /\ UNCHANGED <<threads, event_head, pc, frame, connected, do_exit>>
      BY <1>2 DEF ServerAboutExit
    <2>2. task[l].leader = l
      BY <2>1 DEF IInv, FrameFacts, TaskFacts, GoodTask
    <2>3. KernelFacts(kern') /\ Later(kern, kern')
      BY <2>1, ResumeFacts DEF IInv
    <2>4. task' = [task EXCEPT ![l] = [task[l] EXCEPT !.stopped = FALSE, !.event = "NONE"]]
      BY <2>1 DEF IInv, TaskFacts, continue_task
    <2>5. TaskFacts(task', kern) /\ Exact(task', threads, threads_stopped')
      <3>1. TaskFacts(task', kern) /\ Exact(task', threads, Dec(threads_stopped, task[l].leader))
        <4>1. task[l].stopped
          BY <2>1
        <4> QED BY <2>4, <4>1, ContinueTaskFacts DEF IInv
      <3> QED BY <2>1, <2>2, <3>1
    <2>6. TaskFacts(task', kern')
      BY <2>3, <2>5, TaskFactsLater
    <2>7. \A q \in replies' : kern'[q].tgid = q /\ kern'[q].st # "absent"
      BY <2>1, <2>3 DEF IInv, FrameFacts, Later, Rest
    <2> QED BY <2>1, <2>3, <2>5, <2>6, <2>7 DEF IInv, FrameFacts, Rest
  <1> QED BY <1>1, <1>2

\* The steps outside the handlers that call stop_threads.
LEMMA ServerStopStep ==
  ASSUME IInv, Disconnect \/ Quit \/ StopNext
               \/ \E l \in Pids : ServerCommand(l) \/ QuitRemove(l)
  PROVE  IInv'
  <1>1. /\ UNCHANGED <<task, threads, threads_stopped, event_head>>
        /\ connected' \in BOOLEAN /\ do_exit' \in BOOLEAN /\ replies' \subseteq replies
    BY DEF IInv, Rest, Disconnect, Quit, StopNext, ServerCommand, QuitRemove
  <1>2. Leaders \subseteq Pids /\ frame.todo \subseteq Pids
    BY DEF Leaders, Known, IInv, Rest, Frame
  <1>3. ASSUME NEW l \in Pids, NEW p \in {l, NoPid}, NEW cont \in {"close", "quit", "command", "remove"},
               NEW todo \in SUBSET Pids, stop_threads(l, p, cont, todo)
        PROVE  IInv'
    BY <1>1, <1>3, StopsThreads DEF Cont
  <1>4. CASE Disconnect
    <2>1. PICK l \in Leaders : stop_threads(l, NoPid, "close", Leaders \ {l})
      BY <1>4 DEF Disconnect
    <2> QED BY <1>2, <1>3, <2>1
  <1>5. CASE Quit
    <2>1. PICK l \in Leaders : stop_threads(l, NoPid, "quit", Leaders \ {l})
      BY <1>5 DEF Quit
    <2> QED BY <1>2, <1>3, <2>1
  <1>6. CASE StopNext
    <2>1. PICK l \in frame.todo : stop_threads(l, NoPid, frame.cont, frame.todo \ {l})
      BY <1>6 DEF StopNext
    <2>2. frame.cont \in {"close", "quit"}
      BY <1>6 DEF StopNext, StopDone
    <2> QED BY <1>2, <1>3, <2>1, <2>2
  <1>7. ASSUME NEW l \in Pids, ServerCommand(l) \/ QuitRemove(l)
        PROVE  IInv'
    BY <1>3, <1>7 DEF ServerCommand, QuitRemove
  <1> QED BY <1>4, <1>5, <1>6, <1>7

\* fix_about_exit for every task at once: the counter of each group loses
\* as many tasks as were continued in it.
LEMMA FixAboutExitStep ==
  ASSUME IInv, FixAboutExit
  PROVE  IInv'
  <1> DEFINE F == {p \in Known : task[p].about_exit}
             G(l) == {p \in F : task[p].leader = l}
             T == [p \in Pids |-> IF p \in F
                     THEN [task[p] EXCEPT !.about_exit = FALSE, !.stopped = FALSE,
                                          !.event = "NONE"]
                     ELSE task[p]]
             K == [p \in Pids |-> IF p \in F THEN Resume(kern, p, "running")[p] ELSE kern[p]]
  <1>1. CASE Fail
    BY <1>1, Fails
  <1>2. CASE ~Fail
    <2>1. /\ \A p \in F : task[p].stopped
          /\ task' = T /\ kern' = K
          /\ threads_stopped' = [l \in Pids |-> threads_stopped[l] - Cardinality(G(l))]
          /\ pc' = "main" /\ frame' = NoFrame
          /\ UNCHANGED <<threads, event_head, connected, replies, do_exit>>
      BY <1>2 DEF FixAboutExit
    <2>2. \A p \in Pids : task[p] \in TaskRec /\ GoodTask(task[p], kern[p], p)
      BY DEF IInv, TaskFacts
    <2>3. F \subseteq Pids /\ \A p \in F : task[p].known /\ task[p].stopped
      BY <2>1 DEF Known
    <2>4. KernelFacts(K) /\ Later(kern, K)
      <3>1. kern \in [Pids -> KTask] /\ \A q \in Pids : kern[q] \in KTask
        BY DEF IInv, KernelFacts
      <3>2. ASSUME NEW q \in Pids
            PROVE  /\ Resume(kern, q, "running")[q] \in KTask
                   /\ SameTask(kern[q], Resume(kern, q, "running")[q])
        <4>1. Resume(kern, q, "running") \in [Pids -> KTask]
          BY ResumeFacts DEF IInv, KernelFacts
        <4>2. SameTask(kern[q], Resume(kern, q, "running")[q])
          BY <3>1 DEF Resume, SameTask, KTask, IInv, KernelFacts
        <4> QED BY <4>1, <4>2
      <3>3. K \in [Pids -> KTask]
        BY <3>1, <3>2
      <3>4. \A q \in Pids : SameTask(kern[q], K[q])
        <4>1. \A q \in Pids : SameTask(kern[q], kern[q])
          BY DEF SameTask
        <4> QED BY <3>2, <4>1
      <3> QED BY <3>3, <3>4, KernelStep DEF IInv
    <2>5. ASSUME NEW p \in Pids
          PROVE  /\ T[p] \in TaskRec /\ GoodTask(T[p], kern[p], p)
                 /\ T[p].known = task[p].known /\ T[p].leader = task[p].leader
                 /\ T[p].stopped = (task[p].stopped /\ p \notin F)
      <3>1. CASE p \notin F
        BY <2>2, <3>1 DEF TaskRec
      <3>2. CASE p \in F
        <4> DEFINE t == [task[p] EXCEPT !.about_exit = FALSE, !.stopped = FALSE, !.event = "NONE"]
        <4>1. T[p] = t
          BY <3>2
        <4>2. t \in TaskRec
          BY <2>2 DEF TaskRec, EventType
        <4>3. /\ t.known = task[p].known /\ t.leader = task[p].leader /\ t.stopped = FALSE
              /\ t.newpid = task[p].newpid /\ t.defer = task[p].defer /\ t.event = "NONE"
          BY <2>2 DEF TaskRec
        <4>4. GoodTask(t, kern[p], p)
          BY <2>2, <4>3 DEF GoodTask
        <4> HIDE DEF t, T, F
        <4>5. T[p] \in TaskRec /\ GoodTask(T[p], kern[p], p)
          BY <4>1, <4>2, <4>4
        <4>6. /\ T[p].known = task[p].known /\ T[p].leader = task[p].leader
              /\ T[p].stopped = FALSE
          BY <4>1, <4>3
        <4>7. T[p].stopped = (task[p].stopped /\ p \notin F)
          BY <3>2, <4>6
        <4> QED BY <4>5, <4>6, <4>7
      <3> QED BY <3>1, <3>2
    <2>6. TaskFacts(T, kern)
      BY <2>5 DEF TaskFacts
    <2>7. TaskFacts(T, K)
      BY <2>4, <2>6, TaskFactsLater
    <2>8. ASSUME NEW l \in Pids
          PROVE  /\ threads[l] = Cardinality(MembersIn(T, l))
                 /\ threads_stopped[l] - Cardinality(G(l)) = Cardinality(StoppedIn(T, l))
                 /\ threads_stopped[l] - Cardinality(G(l)) \in Nat
      <3>1. MembersIn(T, l) = MembersIn(task, l)
        BY <2>5 DEF MembersIn
      <3>2. StoppedIn(T, l) = StoppedIn(task, l) \ G(l)
        BY <2>5 DEF StoppedIn
      <3>3. G(l) = StoppedIn(task, l) \cap G(l)
        BY <2>3 DEF StoppedIn
      <3>4. IsFiniteSet(StoppedIn(task, l)) /\ Cardinality(StoppedIn(T, l)) \in Nat
        BY FiniteGroups
      <3> HIDE DEF G, T
      <3>5. Cardinality(StoppedIn(T, l)) =
              Cardinality(StoppedIn(task, l)) - Cardinality(G(l))
        BY <3>2, <3>3, <3>4, FS_Difference
      <3> QED BY <3>1, <3>4, <3>5 DEF IInv, Exact
    <2>9. Exact(task', threads', threads_stopped')
      <3> HIDE DEF G, T
      <3>1. threads_stopped' \in [Pids -> Nat] /\ threads' \in [Pids -> Nat]
        BY <2>1, <2>8 DEF IInv, Exact
      <3> QED BY <2>1, <2>8, <3>1 DEF Exact
    <2> HIDE DEF T, K
    <2> QED BY <2>1, <2>4, <2>7, <2>9, BackInMain DEF IInv, Rest
  <1> QED BY <1>1, <1>2

\* mtrace_main leaves its loop.
LEMMA MainDoneStep ==
  ASSUME IInv, MainDone
  PROVE  IInv'
  BY DEF MainDone, IInv, FrameFacts, Rest, PC

\* Whatever a tracee does by itself.
LEMMA TraceesStep ==
  ASSUME IInv, Tracees
  PROVE  IInv'
  <1>1. PICK p \in Pids :
          \/ TraceeSigstop(p) \/ TraceeTrap(p) \/ TraceeSignal(p) \/ TraceeExec(p)
          \/ TraceeExecStop(p) \/ TraceeExit(p) \/ TraceeExitGroup(p) \/ TraceeDie(p)
          \/ \E c \in Pids : TraceeSpawn(p, c, "clone") \/ TraceeSpawn(p, c, "fork")
    BY DEF Tracees
  <1>2. KernelFacts(kern) /\ kern \in [Pids -> KTask] /\ \A q \in Pids : kern[q] \in KTask
    BY DEF IInv, KernelFacts
  <1>3. CASE TraceeSigstop(p)
    <2> DEFINE E == EnterStop(kern, p, "sigstop")
               K == [E EXCEPT ![p].sigstop = FALSE]
    <2>1. KernelFacts(E) /\ Later(kern, E)
      BY <1>2, <1>3, EnterStopFacts DEF TraceeSigstop
    <2> HIDE DEF E
    <2>2. E \in [Pids -> KTask] /\ \A q \in Pids : E[q] \in KTask
      BY <2>1 DEF KernelFacts
    <2>3. K = [E EXCEPT ![p] = [E[p] EXCEPT !.sigstop = FALSE]]
      BY <2>2
    <2>4. [E[p] EXCEPT !.sigstop = FALSE] \in KTask
      BY <2>2 DEF KTask
    <2>5. K \in [Pids -> KTask]
      BY <2>2, <2>3, <2>4
    <2>6. \A q \in Pids : SameTask(E[q], K[q])
      BY <2>2 DEF SameTask, KTask
    <2>7. KernelFacts(K) /\ Later(E, K)
      BY <2>1, <2>5, <2>6, KernelStep
    <2>8. kern' = K /\ UNCHANGED Tracer
      BY <1>3 DEF TraceeSigstop, E
    <2> HIDE DEF K
    <2>9. Later(kern, K)
      BY <2>1, <2>7, TransFacts
    <2> QED BY <2>7, <2>8, <2>9, KernelMoves
  <1>4. CASE TraceeTrap(p) \/ TraceeSignal(p) \/ TraceeExecStop(p)
    <2>1. PICK s \in {"trap", "signal", "exec"} : kern' = EnterStop(kern, p, s)
      BY <1>4 DEF TraceeTrap, TraceeSignal, TraceeExecStop
    <2>2. kern[p].st # "absent" /\ UNCHANGED Tracer
      BY <1>4 DEF TraceeTrap, TraceeSignal, TraceeExecStop, Running
    <2>3. KernelFacts(kern') /\ Later(kern, kern')
      BY <1>2, <2>1, <2>2, EnterStopFacts
    <2> QED BY <2>2, <2>3, KernelMoves
  <1>5. CASE TraceeExec(p)
    <2> DEFINE E == KillAll(kern, Group(kern, p) \ {p})
               K == [E EXCEPT ![p].st = "execing"]
    <2>1. KernelFacts(E) /\ Later(kern, E)
      BY <1>2, KillAllFacts
    <2>2. kern' = K /\ UNCHANGED Tracer /\ kern[p].st # "absent"
      BY <1>5 DEF TraceeExec, Running
    <2> HIDE DEF E
    <2>3. E \in [Pids -> KTask] /\ (\A q \in Pids : E[q] \in KTask) /\ E[p].st # "absent"
      BY <2>1, <2>2 DEF KernelFacts, Later
    <2>4. K = [E EXCEPT ![p] = [E[p] EXCEPT !.st = "execing"]]
      BY <2>3
    <2>5. [E[p] EXCEPT !.st = "execing"] \in KTask
      BY <2>3 DEF KTask, KState
    <2>6. K \in [Pids -> KTask]
      BY <2>3, <2>4, <2>5
    <2>7. \A q \in Pids : SameTask(E[q], K[q])
      BY <2>3 DEF SameTask, KTask
    <2>8. KernelFacts(K) /\ Later(E, K)
      BY <2>1, <2>6, <2>7, KernelStep
    <2> HIDE DEF K
    <2>9. Later(kern, K)
      BY <2>1, <2>8, TransFacts
    <2> QED BY <2>2, <2>8, <2>9, KernelMoves
  <1>6. CASE TraceeExit(p) \/ TraceeDie(p)
    <2>1. kern' = EnterExit(kern, p) /\ UNCHANGED Tracer /\ kern[p].st # "absent"
      BY <1>6 DEF TraceeExit, TraceeDie, Running
    <2> QED BY <1>2, <2>1, EnterExitFacts, KernelMoves
  <1>7. CASE TraceeExitGroup(p)
    <2> DEFINE E == KillAll(kern, Group(kern, p) \ {p})
    <2>1. KernelFacts(E) /\ Later(kern, E)
      BY <1>2, KillAllFacts
    <2>2. kern' = EnterExit(E, p) /\ UNCHANGED Tracer /\ kern[p].st # "absent"
      BY <1>7 DEF TraceeExitGroup, Running
    <2> HIDE DEF E
    <2>3. KernelFacts(kern') /\ Later(E, kern')
      BY <2>1, <2>2, EnterExitFacts DEF Later
    <2>4. Later(kern, kern')
      BY <2>1, <2>3, TransFacts
    <2> QED BY <2>2, <2>3, <2>4, KernelMoves
  <1>8. ASSUME NEW c \in Pids, NEW how \in {"clone", "fork"}, TraceeSpawn(p, c, how)
        PROVE  IInv'
    <2>1. kern' = Spawn(kern, p, c, how) /\ UNCHANGED Tracer
          /\ kern[p].st = "running" /\ kern[c].st = "absent"
      BY <1>8 DEF TraceeSpawn, Running
    <2> QED BY <1>2, <2>1, SpawnFacts, KernelMoves
  <1> QED BY <1>1, <1>3, <1>4, <1>5, <1>6, <1>7, <1>8

-----------------------------------------------------------------------------
(* The theorems.                                                           *)

\* The attached tasks: every thread has an attached leader.
LEMMA InitIInv ==
  ASSUME Init
  PROVE  IInv
  <1>0. Attached \in Seq(Pids) /\ Tgid \in [Pids -> Pids]
    BY ScenariosAssumption DEF Init, Attached, Tgid, Scenario
  <1>1. AttachedSet \subseteq Pids
    BY <1>0 DEF AttachedSet
  <1>2. \A p \in AttachedSet : Tgid[p] \in Pids
    BY <1>0, <1>1
  <1>3. KernelFacts(kern)
    <2>1. ASSUME NEW p \in Pids
          PROVE  /\ kern[p] \in KTask /\ kern[p].status = "none" /\ kern[p].child # p
                 /\ kern[p].st # "absent" => kern[p].tgid \in Pids
      <3>1. CASE p \in AttachedSet
        <4>1. kern[p] = [NoKTask EXCEPT !.st = "stopped", !.tgid = Tgid[p]]
          BY <3>1 DEF Init
        <4>2. kern[p] \in KTask
          BY <1>2, <3>1, <4>1 DEF NoKTask, KTask, KState, Status
        <4>3. kern[p].status = "none" /\ kern[p].child = NoPid /\ kern[p].tgid = Tgid[p]
          BY <4>1 DEF NoKTask
        <4> QED BY <1>2, <3>1, <4>2, <4>3, PidsAssumption
      <3>2. CASE p \notin AttachedSet
        <4>1. kern[p] = NoKTask
          BY <3>2 DEF Init
        <4> QED BY <4>1, PidsAssumption DEF NoKTask, KTask, KState, Status
      <3> QED BY <3>1, <3>2
    <2>2. kern \in [Pids -> KTask]
      BY <2>1 DEF Init
    <2> QED BY <2>1, <2>2 DEF KernelFacts
  <1>4. ASSUME NEW p \in Pids
        PROVE  /\ task[p] \in TaskRec /\ GoodTask(task[p], kern[p], p)
               /\ task[p].known <=> p \in AttachedSet
               /\ task[p].stopped <=> p \in AttachedSet
               /\ p \in AttachedSet => task[p].leader = Tgid[p]
    <2>1. CASE p \in AttachedSet
      <3>1. task[p] = [NoTask EXCEPT !.known = TRUE, !.leader = Tgid[p], !.stopped = TRUE,
                                     !.is_new = TRUE, !.event = "NEW"]
        BY <2>1 DEF Init
      <3>2. kern[p] = [NoKTask EXCEPT !.st = "stopped", !.tgid = Tgid[p]]
        BY <2>1 DEF Init
      <3>3. kern[p].st = "stopped" /\ kern[p].tgid = Tgid[p]
        BY <3>2 DEF NoKTask
      <3>4. /\ task[p].known = TRUE /\ task[p].stopped = TRUE /\ task[p].leader = Tgid[p]
            /\ task[p].newpid = NoPid /\ task[p].defer = NoPid /\ task[p].event = "NEW"
        BY <3>1 DEF NoTask
      <3>5. task[p] \in TaskRec
        BY <1>2, <2>1, <3>1 DEF NoTask, TaskRec, EventType
      <3>6. GoodTask(task[p], kern[p], p)
        BY <3>3, <3>4, PidsAssumption DEF GoodTask
      <3> QED BY <2>1, <3>4, <3>5, <3>6
    <2>2. CASE p \notin AttachedSet
      <3>1. task[p] = NoTask
        BY <2>2 DEF Init
      <3>2. NoTask.known = FALSE /\ NoTask.stopped = FALSE
        BY DEF NoTask
      <3>3. NoTask \in TaskRec /\ GoodTask(NoTask, kern[p], p)
        BY NoTaskGood
      <3>4. task[p].known = FALSE /\ task[p].stopped = FALSE
        BY <3>1, <3>2
      <3>5. task[p] \in TaskRec /\ GoodTask(task[p], kern[p], p)
        BY <3>1, <3>3
      <3> QED BY <2>2, <3>4, <3>5
    <2> QED BY <2>1, <2>2
  <1>5. TaskFacts(task, kern)
    BY <1>4 DEF TaskFacts, Init
  <1>6. Exact(task, threads, threads_stopped)
    <2>1. \A l \in Pids : {p \in AttachedSet : Tgid[p] = l} = MembersIn(task, l)
      BY <1>1, <1>4 DEF MembersIn
    <2>2. \A l \in Pids : {p \in AttachedSet : Tgid[p] = l} = StoppedIn(task, l)
      BY <1>1, <1>4 DEF StoppedIn
    <2>3. \A l \in Pids : Cardinality(MembersIn(task, l)) \in Nat
      BY FiniteGroups
    <2>4. \A l \in Pids : threads[l] = Cardinality(MembersIn(task, l))
      BY <2>1 DEF Init
    <2>5. \A l \in Pids : threads_stopped[l] = Cardinality(StoppedIn(task, l))
      BY <2>2 DEF Init
    <2>6. threads \in [Pids -> Nat] /\ threads_stopped \in [Pids -> Nat]
      BY <2>3, <2>4 DEF Init
    <2> QED BY <2>4, <2>5, <2>6 DEF Exact
  <1>7. NoFrame \in Frame
    BY DEF NoFrame, Frame, Cont
  <1> QED BY <1>3, <1>5, <1>6, <1>7, <1>0 DEF IInv, FrameFacts, Rest, PC, Init

\* Every step of the tracer, the server and the tracees preserves IInv.
LEMMA NextIInv ==
  ASSUME IInv, [Next]_vars
  PROVE  IInv'
  <1>1. CASE NextEvent
    BY <1>1, NextEventStep
  <1>2. CASE Wait
    BY <1>2, WaitUnknownStep, WaitStoppedStep, WaitProcessStep DEF Wait
  <1>3. CASE HandleEvent
    BY <1>3, HandleSignalStep, HandleNewStep, HandleChildStep, HandleDeferredStep,
       HandleAboutExitStep, HandleExitThreadStep, HandleStopStep, HandleExecStep DEF HandleEvent
  <1>4. CASE Finish
    BY <1>4, SingleStepStep, StepDoneStep, SkipContinueStep, ReturnStep, RemoveProcStep,
       DestroyTaskStep, DestroyLeaderStep, ExecDoneStep, ServerStopStep, FixAboutExitStep
       DEF Finish
  <1>5. CASE \E l \in Pids : QuitRemove(l)
    BY <1>5, ServerStopStep
  <1>6. CASE MainDone
    BY <1>6, MainDoneStep
  <1>7. CASE Server
    BY <1>7, ServerStopStep, ServerAboutExitStep DEF Server
  <1>8. CASE Tracees
    BY <1>8, TraceesStep
  <1>9. CASE UNCHANGED vars
    BY <1>9 DEF vars, IInv, FrameFacts, Rest
  <1> QED BY <1>1, <1>2, <1>3, <1>4, <1>5, <1>6, <1>7, <1>8, <1>9
          DEF Next, TracerNext, Terminated

\* IInv is an invariant of the tracer.
THEOREM Inductive == Spec => []IInv
  <1>1. Init => IInv
    BY InitIInv
  <1>2. IInv /\ [Next]_vars => IInv'
    BY NextIInv
  <1> QED BY <1>1, <1>2, PTL DEF Spec

\* Type correctness: for every set of pids, every attached process and every
\* option, the structures of task.c and event.c keep their types, so the
\* unsigned counters of a leader never wrap.
THEOREM TypeCorrect == Spec => []TypeOK
  <1>1. IInv => TypeOK
    <2> SUFFICES ASSUME IInv PROVE TypeOK
      OBVIOUS
    <2>1. \A p \in Pids : task[p].known => task[p].leader \in Pids
      BY LeaderIsPid DEF IInv
    <2> QED BY <2>1 DEF IInv, TypeOK, TaskFacts, KernelFacts, Exact, Rest
  <1> QED BY <1>1, Inductive, PTL

\* The counters by which stop_threads decides are exact, whatever the tracees
\* and the client do, for every set of pids.
THEOREM CountersExact == Spec => []Accounting
  <1>1. IInv => Accounting
    <2> SUFFICES ASSUME IInv, NEW l \in Pids
                 PROVE  /\ threads[l] = Cardinality(Members(l))
                        /\ threads_stopped[l] = Cardinality(StoppedOf(l))
      BY DEF Accounting
    <2>1. Members(l) = MembersIn(task, l)
      BY DEF Members, Known, MembersIn
    <2>2. StoppedOf(l) = StoppedIn(task, l)
      BY DEF StoppedOf, Members, Known, StoppedIn
    <2> QED BY <2>1, <2>2 DEF IInv, Exact
  <1> QED BY <1>1, Inductive, PTL
=============================================================================
