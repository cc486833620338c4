---------------------------- MODULE Breakpoints -----------------------------
(***************************************************************************)
(* Breakpoints at work: threads run into them, the tracer handles what     *)
(* they raise (process_event, handle_breakpoint, skip_breakpoint), the     *)
(* loader adds and removes libraries, the client starts and stops tracing, *)
(* processes clone, fork, exec, exit and are detached.                     *)
(*                                                                         *)
(* The tracer changes a breakpoint only when the whole process is stopped, *)
(* so each of its actions is one step here; how a process is stopped, and  *)
(* in which order events are handled, is the subject of TaskEvents.        *)
(*                                                                         *)
(* A task of the program is idle, at an instruction with an address in     *)
(* Addrs (it stays there until it executes it), or in the loader.  A call  *)
(* of a function f executes f and then Ret.  req is the event of a stopped *)
(* task other than a breakpoint; n counts the reports of the current call  *)
(* (2 stands for more), cut says that it need not be reported: tracing was *)
(* stopped in it, or a call that never returned is still waited for.       *)
(***************************************************************************)
EXTENDS BreakpointTable

CONSTANTS Procs,      \* leaders
          Threads,    \* other tasks
          Attached,   \* the tasks of the process that was attached at first
          First,      \* its leader
          NoReturn,   \* functions without report_out, with options.nocpp
          Scenarios   \* options, and what the program, the kernel and the client do

ASSUME OpsAssumption ==
  /\ First \in Attached /\ Attached \subseteq {First} \cup Threads
  /\ Procs \cap Threads = {} /\ First \in Procs /\ NoReturn \subseteq Funcs
  /\ \A s \in Scenarios :
       /\ {s.nohwbp, s.follow, s.follow_exec, s.alone} \subseteq BOOLEAN
       /\ s.ops \subseteq {"call", "throw", "signal", "dl", "dl_thread", "client", "commands", "detach",
                          "clone", "fork", "vfork", "sigfork", "junk", "exec", "exec_thread",
                          "exit", "late"}

VARIABLES opt,        \* the scenario
          proc,       \* the processes that are traced
          connected,  \* server_connected()
          let_go      \* of a process the tracer let go: its text and debug registers

vars == <<opt, proc, connected, let_go>>

Libs == {LibOf[f] : f \in Funcs} \cup {MainLib}

\* task_new: memset, task_init.
NewTask(mode, req) ==
  [at |-> "idle", mode |-> mode, req |-> req, child |-> NULL, ev |-> NULL, rf |-> FALSE,
   n |-> 0, cut |-> FALSE, breakpoint |-> NULL, skip_bp |-> NULL, hw_bp |-> [i \in Slots |-> NULL],
   arch |-> [hw_bp |-> [i \in Slots |-> NULL], dr7 |-> {}],
   dr |-> [i \in Slots |-> NULL], dr7 |-> {}]

\* A process nothing is known of yet.
NewGroup(l, T, text, maps, nohwbp) ==
  [leader |-> l, task |-> T, mem |-> <<>>, dict |-> [a \in Addrs |-> NULL],
   hw_bp_list |-> <<>>, text |-> text, libs |-> {}, debug_addr |-> FALSE,
   debug_state |-> "add", r_state |-> "consistent", maps |-> maps, nohwbp |-> nohwbp,
   failed |-> FALSE]

Mapped(maps, a) == a \in Funcs => LibOf[a] \in maps
Text(maps) == [a \in Addrs |-> IF Mapped(maps, a) THEN ORIG ELSE NOTEXT]

-----------------------------------------------------------------------------
(* The dynamic loader (proc.c, mtelf.c).                                   *)

\* linkmap_add: the libraries that are not known yet.
linkmap_add(G, t, conn) ==
  FoldSet(LAMBDA lib, H : library_add(H, t, lib, conn), G, G.maps \ G.libs)

\* linkmap_del: the libraries that are gone, never the first one.  A thread
\* has an empty list of its own, and its head would be moved.
linkmap_del(G, t) ==
  FoldSet(LAMBDA lib, H : library_delete(H, lib), Check(G, t = G.leader),
          G.libs \ (G.maps \cup {MainLib}))

\* rdebug_bp_on_hit
rdebug_bp_on_hit(G, t, conn) ==
  LET H == IF G.r_state # "consistent" THEN G
           ELSE IF G.debug_state = "add" THEN linkmap_add(G, t, conn)
           ELSE IF G.debug_state = "delete" THEN linkmap_del(G, t)
           ELSE G
  IN [H EXCEPT !.debug_state = G.r_state]

\* A locked breakpoint: linkmap_init and elf_read_main_binary.
LockedBreakpoint(G, a, on_hit) ==
  LET b == Fresh(G, a)
      H == breakpoint_new(G, b, FALSE, BP_SW)
  IN breakpoint_enable([H EXCEPT !.mem[b].on_hit = on_hit, !.mem[b].locked = TRUE], b)

\* linkmap_init once the loader has filled in DT_DEBUG.
linkmap_init(G, t, conn) ==
  LET add(H) == IF G.r_state = "consistent" THEN linkmap_add(H, t, conn) ELSE H
  IN IF G.debug_addr THEN G
     ELSE add([LockedBreakpoint(G, Brk, "rdebug") EXCEPT !.debug_addr = TRUE])

\* elf_read_main_binary: attached to a running program, or before it runs.
elf_read_main_binary(G, running, conn) ==
  LET init(H) == IF running THEN linkmap_init(H, G.leader, conn)
                 ELSE LockedBreakpoint(H, Entry, "entry")
  IN init(library_add(G, G.leader, MainLib, conn))

-----------------------------------------------------------------------------
(* A task hits a breakpoint.                                               *)

\* Where a task is after the instruction at a.
After(G, a) == CASE a \in Funcs -> Ret
                 [] a = Brk /\ G.r_state # "consistent" -> "loader"
                 [] OTHER -> "idle"

\* The task executes the instruction it is at.
Pass(G, t) ==
  LET a == After(G, G.task[t].at)
      k == [G.task[t] EXCEPT !.at = a, !.rf = FALSE]
  IN [G EXCEPT !.task[t] = IF G.task[t].at = Ret THEN [k EXCEPT !.n = 0, !.cut = FALSE] ELSE k]

continue_task(G, t) ==
  [Check(G, G.task[t].mode = "stop") EXCEPT !.task[t].mode = "run", !.task[t].ev = NULL,
                                            !.task[t].req = "none"]

\* skip_breakpoint with do_singlestep; done says that the step was not
\* interrupted by a signal.  A program's own int3 (break_insn) queues the event
\* of a task that is then continued.
skip_breakpoint(G, t, b, done) ==
  LET H == Check(G, G.task[t].ev # NULL /\ G.task[t].skip_bp = NULL)
      step(D) == breakpoint_enable(IF ~done THEN Check(D, ~D.mem[b].enabled)
                   ELSE Pass(Check(D, ~D.mem[b].enabled /\ ~D.mem[b].break_insn), t), b)
      after(S) == IF done THEN continue_task(S, t)
                  ELSE breakpoint_get([S EXCEPT !.task[t].skip_bp = b], b)
  IN IF ~(G.mem[b].sw /\ G.mem[b].enabled) THEN continue_task(H, t)
     ELSE after(step([breakpoint_disable(H, b) EXCEPT !.task[t].ev = NULL]))

\* handle_call_after: the function returned.
handle_call_after(G, t, b) ==
  IF G.task[t].breakpoint = NULL THEN G
  ELSE [disable_scratch_hw_bp(G, t, b) EXCEPT !.task[t].breakpoint = NULL]

\* The task waits at the breakpoint of its return.
AtReturn(G, t) ==
  LET r == G.dict[Ret]
  IN enable_scratch_hw_bp([G EXCEPT !.task[t].breakpoint = r, !.mem[r].on_hit = "after"], t, r)

\* Mutant: a call in progress is not noticed.
EntryAlways(G, t, b) ==
  IF ~G.mem[b].libsym THEN G
  ELSE [AtReturn(breakpoint_insert(G, Ret, FALSE, BP_HW_SCRATCH), t)
          EXCEPT !.task[t].n = Min({@ + 1, 2})]

\* The part of handle_breakpoint for the entry of a function: the breakpoint at
\* its return, and the report.
EntryHit(G, t, b) ==
  LET H == IF b[1] \in NoReturn THEN G
           ELSE AtReturn(breakpoint_insert(G, Ret, FALSE, BP_HW_SCRATCH), t)
  IN IF G.mem[b].libsym /\ G.task[t].breakpoint = NULL
     THEN [H EXCEPT !.task[t].n = Min({@ + 1, 2})] ELSE G

\* The count of hits, which may reorder the slots.  A breakpoint that is hit when
\* it is disabled is not set back; past MaxHits more hits change nothing.
MaxHits == 2 * Threshold
Counting(G, b) ==
  IF G.mem[b].type < BP_HW THEN G ELSE [G EXCEPT !.mem[b].hwcnt = Min({@ + 1, MaxHits})]
CountHit(G, b, s) ==
  LET H == Counting(G, b)
  IN IF H.mem[b].hwcnt >= Threshold * (IF G.mem[b].hw THEN 2 ELSE 1)
     THEN reorder_hw_bp(H, s) ELSE H

\* on_hit, for those that return 0.
OnHit(G, t, b, conn) ==
  CASE G.mem[b].on_hit = "after" -> handle_call_after(G, t, b)
    [] G.mem[b].on_hit = "rdebug" -> rdebug_bp_on_hit(G, t, conn)
    [] OTHER -> G

\* handle_breakpoint, whose event is at b.  skip_bp is compared after its
\* reference was given back.
handle_breakpoint(G, t, s, done, conn) ==
  LET b == G.task[t].ev
      skip == G.task[t].skip_bp
      hit(C) == IF C.mem[b].on_hit = "entry"
                THEN continue_task(linkmap_init(breakpoint_delete(C, b), t, conn), t)
                ELSE skip_breakpoint(EntryHit(OnHit(C, t, b, conn), t, b), t, b, done)
      handle(K) == CASE skip = b -> skip_breakpoint(K, t, b, done)
                     [] skip # b /\ K.mem[b].deleted -> continue_task(K, t)
                     [] OTHER -> hit(CountHit(K, b, s))
  IN breakpoint_put(handle(IF skip = NULL THEN G
                           ELSE [breakpoint_put(G, skip) EXCEPT !.task[t].skip_bp = NULL]), b)

-----------------------------------------------------------------------------
(* Tasks come and go (task.c).                                             *)

task_reset_bp(G, t) ==
  LET k == G.task[t]
  IN [(IF k.skip_bp = NULL THEN G ELSE breakpoint_put(G, k.skip_bp))
        EXCEPT !.task[t].skip_bp = NULL, !.task[t].breakpoint = NULL]

\* task_destroy, up to the end of the group.
task_destroy(G, t) ==
  LET S == IF G.task[t].mode = "stop" THEN G ELSE [G EXCEPT !.task[t].mode = "stop"]
      E == IF S.task[t].ev = NULL THEN S ELSE breakpoint_put(S, S.task[t].ev)
      R == task_reset_bp([E EXCEPT !.task[t].ev = NULL], t)
  IN [R EXCEPT !.task[t] = breakpoint_hw_destroy(apply_hw_bp(@, {}))]

Drop(G, T) == [G EXCEPT !.task = Restrict(@, Tasks(G) \ T)]

leader_cleanup(G) == breakpoint_clear_all(library_clear_all(G))

\* Every task is destroyed, the leader last, and with it the breakpoints.
DestroyAll(G) ==
  leader_cleanup(FoldSet(LAMBDA t, H : task_destroy(H, t), G, Tasks(G)))

remove_proc(G) == DestroyAll(breakpoint_disable_all(stop_threads(G)))
untrace_proc(G) == remove_proc(breakpoint_invalidate_all(G))

detach_proc(G) == DestroyAll(breakpoint_disable_all(G))

\* Mutant: a task in a call is forgotten.
StopTraceKeepsCalls(G) == breakpoint_disable_all_nonlocked(G)

stop_trace(G) ==
  FoldSet(LAMBDA t, H : task_reset_bp(H, t), breakpoint_disable_all_nonlocked(G), Tasks(G))
start_trace(G) == breakpoint_enable_all_nonlocked(G)

\* Mutant: what is known of the debug registers survives the exec.
ExecKeepsRegisters(G, conn) ==
  LET setup(H) ==
        LET k == [H.task[G.leader] EXCEPT !.hw_bp = [i \in Slots |-> NULL], !.at = Entry]
            N == NewGroup(G.leader, G.leader :> k, G.text, G.maps, G.nohwbp)
        IN [elf_read_main_binary(N, FALSE, conn) EXCEPT !.failed = @ \/ H.failed]
  IN setup(leader_cleanup(breakpoint_invalidate_all(G)))

\* process_exec, and leader_setup of the new program.
process_exec(G, conn) ==
  LET T == Tasks(G) \ {G.leader}
      D == Drop(FoldSet(LAMBDA t, H : task_destroy(H, t), breakpoint_invalidate_all(G), T), T)
      setup(H) ==
        LET k == [breakpoint_hw_destroy(arch_task_init(H.task[G.leader])) EXCEPT !.at = Entry]
            N == [NewGroup(G.leader, G.leader :> k, G.text, G.maps, G.nohwbp) EXCEPT !.mem = H.mem]
        IN [elf_read_main_binary(N, FALSE, conn) EXCEPT !.failed = @ \/ H.failed]
  IN setup(leader_cleanup([D EXCEPT !.task[G.leader] = apply_hw_bp(@, {})]))

\* task_fork: child N of task t.  newtask->breakpoint and newtask->skip_bp are
\* NULL when they are followed.
task_fork(G, t, N, junk) ==
  LET k == G.task[t]
  IN [Check(breakpoint_clone_all(G, N, junk), k.breakpoint = NULL /\ (k.skip_bp # NULL => G.mem[k.skip_bp].deleted))
        EXCEPT !.libs = G.libs, !.debug_addr = G.debug_addr, !.debug_state = G.debug_state]

-----------------------------------------------------------------------------
(* The actions of the program.  What is in opt.ops may happen.             *)

Does(o) == o \in opt.ops
Live == {l \in Procs : proc[l] # NULL}
Idle(l, t) == proc[l].task[t].mode = "run" /\ proc[l].task[t].at = "idle"
Set(l, G) == proc' = [proc EXCEPT ![l] = G]

\* No fork, clone or exec waits to be handled: without "late" the tracer deals
\* with it first.
Calm == Does("late") \/ \A l \in Live : \A t \in Tasks(proc[l]) :
          proc[l].task[t].req \notin {"fork", "vfork", "clone", "exec"}

Call(l, t, f) ==
  /\ Does("call") /\ Idle(l, t) /\ proc[l].text[f] # NOTEXT
  /\ Set(l, [proc[l] EXCEPT !.task[t].at = f])
  /\ UNCHANGED <<opt, connected, let_go>>

\* The call is left by an exception or longjmp, not through its return: if the
\* tracer waits for that (task->breakpoint), it takes the next call for a part of
\* this one.
Throw(l, t) ==
  LET k == proc[l].task[t]
  IN /\ Does("throw") /\ k.mode = "run" /\ k.at = Ret
     /\ Set(l, [proc[l] EXCEPT !.task[t] = [k EXCEPT !.at = "idle", !.n = 0, !.rf = FALSE,
                                                    !.cut = (k.breakpoint # NULL)]])
     /\ UNCHANGED <<opt, connected, let_go>>

\* The instruction at k.at: a debug register, an int3, or what the program has.
Execute(l, t) ==
  LET G == proc[l]
      k == G.task[t]
      mode == IF ~k.rf /\ \E i \in k.dr7 : k.dr[i] = k.at THEN "hw"
              ELSE IF G.text[k.at] = INT3 THEN "sw" ELSE "run"
  IN /\ k.mode = "run" /\ k.at \in Addrs /\ G.text[k.at] # NOTEXT
     /\ Set(l, IF mode = "run" THEN Pass(G, t) ELSE [G EXCEPT !.task[t].mode = mode])
     /\ UNCHANGED <<opt, connected, let_go>>

\* dlopen or dlclose: the loader calls r_brk, maps or unmaps a library, and
\* calls r_brk again.  Whether another thread is still in a library that is
\* unmapped is the program's concern: it goes no further here.
LoaderBegin(l, t, what) ==
  /\ Does("dl") /\ Idle(l, t) /\ (t = l \/ Does("dl_thread"))
  /\ proc[l].r_state = "consistent"
  /\ \A u \in Tasks(proc[l]) : proc[l].task[u].at # Brk
  /\ (what = "add") = (proc[l].maps # Libs)
  /\ Set(l, [proc[l] EXCEPT !.task[t].at = Brk, !.r_state = what])
  /\ UNCHANGED <<opt, connected, let_go>>

LoaderEnd(l, t, lib) ==
  LET G == proc[l]
      maps == IF G.r_state = "add" THEN G.maps \cup {lib} ELSE G.maps \ {lib}
  IN /\ G.task[t].mode = "run" /\ G.task[t].at = "loader"
     /\ (G.r_state = "add") = (lib \notin G.maps) /\ lib # MainLib
     /\ Set(l, [G EXCEPT !.r_state = "consistent", !.maps = maps,
                         !.task = [u \in Tasks(G) |-> LET k == @[u] IN
                           IF u = t THEN [k EXCEPT !.at = Brk]
                           ELSE IF k.at \in Symbols(lib) THEN [k EXCEPT !.cut = TRUE] ELSE k],
                         !.text = [a \in Addrs |-> IF Mapped(G.maps, a) = Mapped(maps, a)
                                                   THEN @[a] ELSE Text(maps)[a]]])
     /\ UNCHANGED <<opt, connected, let_go>>

\* A stop for an event of the kernel; the tracer collects and handles it later.
Raise(l, t, req) == [proc[l] EXCEPT !.task[t].mode = "event", !.task[t].req = req]

\* A signal for the program, which is delivered when the task is continued.
Signal(l, t) ==
  /\ Does("signal") /\ proc[l].task[t].mode = "run" /\ proc[l].task[t].at # "idle"
  /\ Set(l, Raise(l, t, "signal"))
  /\ UNCHANGED <<opt, connected, let_go>>

Unborn == Threads \ UNION {Tasks(proc[l]) : l \in Live}

\* clone: the kernel does not copy debug registers.
Clone(l, t) ==
  /\ Does("clone") /\ Idle(l, t)
  /\ \E c \in Unborn :
       Set(l, [Raise(l, t, "clone") EXCEPT !.task[t].child = c,
                                           !.task = (c :> NewTask("stop", "new")) @@ @])
  /\ UNCHANGED <<opt, connected, let_go>>

\* fork or vfork: the child has the text of its parent as it is now.
Fork(l, t, c, how) ==
  /\ Does(how) /\ proc[c] = NULL /\ let_go[c] = NULL
  /\ Idle(l, t) \/ (Does("sigfork") /\ proc[l].task[t].mode = "run")
  /\ proc' = [proc EXCEPT
       ![l] = [Raise(l, t, how) EXCEPT !.task[t].child = c],
       ![c] = [NewGroup(c, c :> NewTask("stop", "new"), proc[l].text, proc[l].maps, proc[l].nohwbp)
                 EXCEPT !.r_state = proc[l].r_state]]
  /\ UNCHANGED <<opt, connected, let_go>>

\* exec: other threads end, the text is new, the debug registers are off.
Exec(l, t) ==
  LET G == proc[l]
  IN /\ Does("exec") /\ Idle(l, t) /\ G.task[l].mode = "run" /\ (t = l \/ Does("exec_thread"))
     /\ Set(l, [G EXCEPT
          !.text = Text({MainLib}), !.maps = {MainLib}, !.r_state = "consistent",
          !.task = [u \in Tasks(G) |->
            IF u = l THEN [@[u] EXCEPT !.mode = "event", !.req = "exec", !.dr7 = {}]
            ELSE [@[u] EXCEPT !.mode = "stop", !.req = "dead"]]])
     /\ UNCHANGED <<opt, connected, let_go>>

Exit(l, t) ==
  /\ Does("exit") /\ Idle(l, t) /\ (t # l \/ Tasks(proc[l]) = {l})
  /\ Set(l, Raise(l, t, "exit"))
  /\ UNCHANGED <<opt, connected, let_go>>

-----------------------------------------------------------------------------
(* The actions of the tracer.                                              *)

\* wait_event in the main loop.
Collect(l, t) ==
  /\ proc[l].task[t].mode \in {"hw", "sw", "event"}
  /\ Set(l, process_event(proc[l], t))
  /\ UNCHANGED <<opt, connected, let_go>>

\* The single step may be interrupted: by a signal for the program, or by the
\* SIGSTOP of a stop_threads that found the task at its breakpoint already.
HandleBreakpoint(l, t) ==
  /\ Calm /\ proc[l].task[t].ev # NULL
  /\ \E s \in Orders(Counting(proc[l], proc[l].task[t].ev)),
        done \in BOOLEAN :
       Set(l, handle_breakpoint(proc[l], t, s, done, connected))
  /\ UNCHANGED <<opt, connected, let_go>>

\* handle_signal, also of a task that stop_threads stopped.
HandleSignal(l, t) ==
  LET k == proc[l].task[t]
  IN /\ Calm /\ k.mode = "stop" /\ k.ev = NULL /\ k.req \in {"none", "signal"}
     /\ Set(l, continue_task(proc[l], t))
     /\ UNCHANGED <<opt, connected, let_go>>

Stopped(l, t, req) == proc[l].task[t].mode = "stop" /\ proc[l].task[t].req = req

\* do_clone for a thread: task_clone.
HandleClone(l, t) ==
  LET c == proc[l].task[t].child
      H == [breakpoint_hw_clone(proc[l], c) EXCEPT !.task[t].child = NULL]
  IN /\ Stopped(l, t, "clone")
     /\ Set(l, continue_task(continue_task(H, c), t))
     /\ UNCHANGED <<opt, connected, let_go>>

\* What the tracer leaves behind.
LetGo(l, G) ==
  let_go' = [let_go EXCEPT ![l] = [text |-> G.text,
                                   dr7 |-> UNION {G.task[t].dr7 : t \in Tasks(G)}]]

\* The process is forgotten.
Forget(l, R) == Set(l, IF R.failed THEN R ELSE NULL)
Left(l, R) == Forget(l, R) /\ LetGo(l, R)

\* do_clone for a process.  A vfork child shares its parent's text.
HandleFork(l, t) ==
  LET G == proc[l]
      c == G.task[t].child
      P == continue_task([G EXCEPT !.task[t].child = NULL], t)
  IN \E junk \in IF Does("junk") THEN BOOLEAN ELSE {FALSE} :
       LET N == task_fork(G, t, proc[c], junk)
           forgotten(R) ==
             /\ LetGo(c, R)
             /\ proc' = [proc EXCEPT
                  ![l] = [P EXCEPT !.failed = @ \/ R.failed,
                                   !.text = IF G.task[t].req = "vfork" THEN R.text ELSE @],
                  ![c] = NULL]
       IN /\ G.task[t].mode = "stop" /\ G.task[t].req \in {"fork", "vfork"}
          /\ \/ /\ opt.follow
                /\ proc' = [proc EXCEPT ![l] = [P EXCEPT !.failed = @ \/ N.failed],
                                        ![c] = continue_task(N, c)]
                /\ UNCHANGED let_go
             \/ ~opt.follow /\ forgotten(remove_proc(N))
          /\ UNCHANGED <<opt, connected>>

\* handle_exec
HandleExec(l) ==
  /\ Stopped(l, l, "exec")
  /\ \/ /\ opt.follow_exec
        /\ Set(l, continue_task(process_exec(proc[l], connected), l)) /\ UNCHANGED let_go
     \/ ~opt.follow_exec /\ Left(l, untrace_proc(proc[l]))
  /\ UNCHANGED <<opt, connected>>

\* handle_exit of a thread, and of a leader, whose memory is gone.
HandleExit(l, t) ==
  /\ Calm /\ Stopped(l, t, "exit")
  /\ \/ t # l /\ Set(l, Drop(task_destroy(proc[l], t), {t}))
     \/ t = l /\ Forget(l, untrace_proc(proc[l]))
  /\ UNCHANGED <<opt, connected, let_go>>

\* A client connects: MODE_ACCEPTED.
Accept ==
  /\ Does("client") /\ Calm /\ ~connected
  /\ connected' = TRUE
  /\ proc' = [l \in Procs |-> IF proc[l] = NULL THEN NULL ELSE start_trace(proc[l])]
  /\ UNCHANGED <<opt, let_go>>

\* A call that is in progress when tracing stops is cut off; a return is no longer
\* waited for.
Cut(G) == [G EXCEPT !.task = [t \in Tasks(G) |-> [@[t] EXCEPT !.cut = (G.task[t].at \in Funcs \cup {Ret})]]]

\* server_close
Disconnect ==
  /\ Does("client") /\ Calm /\ connected
  /\ connected' = FALSE
  /\ proc' = [l \in Procs |-> IF proc[l] = NULL THEN NULL ELSE Cut(stop_trace(proc[l]))]
  /\ UNCHANGED <<opt, let_go>>

\* MT_START and MT_STOP
CommandStart(l) == /\ Does("commands") /\ Calm /\ connected
                   /\ Set(l, start_trace(proc[l])) /\ UNCHANGED <<opt, connected, let_go>>
CommandStop(l) == /\ Does("commands") /\ Calm /\ connected
                  /\ Set(l, Cut(stop_trace(proc[l]))) /\ UNCHANGED <<opt, connected, let_go>>

\* MT_DETACH
CommandDetach(l) ==
  /\ Does("detach") /\ Calm /\ connected
  /\ Left(l, detach_proc(proc[l]))
  /\ UNCHANGED <<opt, connected>>

-----------------------------------------------------------------------------
Init ==
  /\ opt \in Scenarios
  /\ connected \in BOOLEAN /\ (connected \/ Does("client"))
  /\ let_go = [l \in Procs |-> NULL]
  /\ LET T == IF opt.alone THEN {First} ELSE Attached
         N == NewGroup(First, [t \in T |-> NewTask("stop", "none")], Text(Libs), Libs, opt.nohwbp)
     IN proc = [l \in Procs |->
            IF l = First THEN elf_read_main_binary(N, TRUE, connected) ELSE NULL]

Step(l, t) ==
  \/ \E f \in Funcs : Call(l, t, f)
  \/ Throw(l, t)
  \/ Execute(l, t)
  \/ \E what \in {"add", "delete"} : LoaderBegin(l, t, what)
  \/ \E lib \in Libs : LoaderEnd(l, t, lib)
  \/ Signal(l, t)
  \/ Clone(l, t)
  \/ \E c \in Procs, how \in {"fork", "vfork"} : Fork(l, t, c, how)
  \/ Exec(l, t)
  \/ Exit(l, t)
  \/ Collect(l, t)
  \/ HandleBreakpoint(l, t)
  \/ HandleSignal(l, t)
  \/ HandleClone(l, t)
  \/ HandleFork(l, t)
  \/ HandleExit(l, t)

Next ==
  /\ \A l \in Live : ~proc[l].failed
  /\ \/ \E l \in Live : \E t \in Tasks(proc[l]) : Step(l, t)
     \/ \E l \in Live : HandleExec(l) \/ CommandStart(l) \/ CommandStop(l) \/ CommandDetach(l)
     \/ Accept
     \/ Disconnect

Spec == Init /\ [][Next]_vars

-----------------------------------------------------------------------------
(* Properties.                                                             *)

Bp == [type : 0..3, enabled : BOOLEAN, locked : BOOLEAN, deleted : BOOLEAN, sw : BOOLEAN,
       hw : BOOLEAN, u : Slots \cup {ORIG, INT3, NOTEXT}, refcnt : Nat \ {0}, hwcnt : Nat,
       break_insn : BOOLEAN, libsym : BOOLEAN, on_hit : {"none", "after", "rdebug", "entry"}]

\* The types of a process' breakpoints and of its text.
TypeOK ==
  \A l \in Live : LET G == proc[l] IN
    /\ \A b \in DOMAIN G.mem : G.mem[b] \in Bp
    /\ G.text \in [Addrs -> {ORIG, INT3, NOTEXT}]
    /\ G.libs \subseteq Libs

\* No assert of breakpoint.c, library.c, trace.c and event.c fails, no pointer
\* to freed memory is followed, no SIGTRAP is left unexplained.
AssertsHold == \A l \in Live : ~proc[l].failed

\* A breakpoint is freed with its last pointer: the dictionary, the events and
\* the skipped steps of tasks account for its count, and nothing else - the slots
\* of a task, the return a task waits for, the list - points to a freed one.
References ==
  \A l \in Live : LET G == proc[l] IN
    /\ InDict(G) \cup ToSet(G.hw_bp_list) \cup Pointers(G) \subseteq DOMAIN G.mem
    /\ \A b \in DOMAIN G.mem :
         G.mem[b].refcnt = (IF b \in InDict(G) THEN 1 ELSE 0)
                           + Cardinality({t \in Tasks(G) : G.task[t].ev = b})
                           + Cardinality({t \in Tasks(G) : G.task[t].skip_bp = b})

\* The tasks of a process have the same breakpoints in their slots (a task that
\* is new gets them when its creator's event is handled), a breakpoint with a
\* slot is in it, and the debug registers hold exactly the slots.
SlotsAgree ==
  \A l \in Live : LET G == proc[l] IN
    \A t \in Tasks(G) : LET k == G.task[t] IN
      k.req \notin {"new", "dead", "exec"} =>
        /\ k.dr7 = {i \in Slots : k.hw_bp[i] # NULL}
        /\ \A i \in k.dr7 : k.dr[i] = k.hw_bp[i][1]
        /\ \A i \in Slots \ {HW_BP_SCRATCH_SLOT} : k.hw_bp[i] = Leader(G).hw_bp[i]
        /\ \A i \in Slots : k.hw_bp[i] # NULL =>
             LET bp == G.mem[k.hw_bp[i]] IN bp.hw /\ bp.enabled /\ bp.u = i

\* An enabled breakpoint is armed in one way: as an int3 that the text has, or in
\* a slot of the leader; and the text has no other int3.
Armed ==
  \A l \in Live : LET G == proc[l] IN
    \A t \in Tasks(G) : G.task[t].req \in {"exec", "dead", "new"} \/
    \A a \in Addrs : LET b == G.dict[a] IN
      /\ G.text[a] = INT3 <=> b # NULL /\ G.text[a] # NOTEXT /\ G.mem[b].sw
      /\ (b # NULL /\ G.mem[b].type # BP_HW_SCRATCH) =>
           /\ G.mem[b].enabled <=> (G.mem[b].sw # G.mem[b].hw)
           /\ G.mem[b].hw => Leader(G).hw_bp[G.mem[b].u] = b

\* What the tracer lets go has neither an int3 nor a debug register left.
Released ==
  \A l \in Procs : let_go[l] # NULL =>
    let_go[l].dr7 = {} /\ \A a \in Addrs : let_go[l].text[a] # INT3

\* A call is reported once: not again when a step over the breakpoint is
\* repeated, or when the breakpoint changes between hardware and software.
ReportedOnce == \A l \in Live : \A t \in Tasks(proc[l]) : 
                  proc[l].task[t].cut \/ proc[l].task[t].n <= 1

\* No call slips through: a task that goes on behind the entry of a function
\* whose breakpoint is enabled - by itself, or in the step with which the tracer
\* takes it over an int3 - has reported the call.
NoneMissed ==
  [][\A l \in Live : \A t \in Tasks(proc[l]) :
       LET G == proc[l]
           k == G.task[t]
       IN (/\ ~k.cut /\ k.at \in Funcs /\ G.text[k.at] # NOTEXT
           /\ G.dict[k.at] # NULL /\ G.mem[G.dict[k.at]].enabled
           /\ proc'[l] # NULL /\ t \in Tasks(proc'[l]) /\ proc'[l].task[t].at = Ret)
          => proc'[l].task[t].n = 1]_vars
=============================================================================
