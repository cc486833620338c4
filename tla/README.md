# A verification project for mtrace-ng

mtrace-ng traces the dynamic memory functions of running processes.  A *tracer*
(`mtrace -l`, or the same process as the client) stops a traced program with
ptrace at breakpoints in `malloc`, `free`, `realloc`, `mmap`, ... and sends a
message for each call to a *client*, which keeps a table of the open
allocations with the call stacks they come from, and shows it.

This directory holds TLA+ modules for the two halves, for the connection between
them, for the breakpoints and for the backtraces, configurations that check
them with TLC, and proofs checked by TLAPS.  `PROJECT.json` lists the components,
the runs, the mutants of the definitions that each property must notice, the
source lines behind each definition (`map`), the hazards, the findings and the
theorems.

## 1. Inventory

| component | state | operations | meets |
|---|---|---|---|
| tasks: `task.c` | `struct task` by pid; of a leader, `threads` and `threads_stopped` | `task_new`, `task_clone`, `task_fork`, `task_destroy`, `remove_proc`, `untrace_proc`, `process_exec` | events, ptrace backend |
| events: `event.c` | `event_head`; the `event` of a task | `queue_event`, `next_event`, one handler for each event type | all of the tracer |
| ptrace backend: `sysdeps/linux-gnu/trace.c`, `trace.c` | which tasks are stopped; `about_exit` | `wait_event`, `process_event`, `stop_threads`, `handle_singlestep`, `continue_task`, `untrace_task` | the kernel |
| main loop: `main.c` | `do_exit` | `mtrace_main`, `mtrace_exit` | server, events |
| server: `server.c`, `thread.c` | the connection, `command_pending`, a semaphore | commands of the client, attach and disconnect | client, main loop |
| reports: `report.c` | `task->in_realloc` | one report for each traced function, at its entry or its return | breakpoints, connection |
| breakpoints: `breakpoint.c` | hardware slots, reference counts, `enabled`, `deleted` | insert, enable, disable, reorder, clone for a fork | tasks, libraries |
| libraries and symbols: `library.c`, `mtelf.c`, `proc.c` | libraries of a leader | load, unload | breakpoints, connection |
| transport: `socket.c`, `ioevent.c`, `memtrace.h` | a stream | messages with a header and a payload, in either byte order | server, client |
| client loop: `client/client.c`, `client/job.c` | `pid_table` | `client_func`, `client_wait_op`, `client_send_msg` | process table |
| process table: `client/process.c` | `struct process`: blocks, call stacks, reallocs in progress, counters | `process_alloc`, `process_free`, `process_realloc_done`, `process_munmap`, `process_scan`, `process_duplicate`, resets | client loop, prompt |
| prompt: `client/readline.c` | `tracing`, `attached` of a process | `reset`, `scan`, `start`, `stop`, and commands that print | process table, connection |
| leak scan: `os.c`, `common.c` | - | `mem_scan`, `find_block` | server |
| unwinder: `dwarf.c`, `dwarf-x86.c`, `backtrace.h` | the cursor: ip, CFA, where each register is | `dwarf_init_unwind`, `dwarf_step` | reports, libraries |
| architectures: `x86/arch.c` and others | debug registers and a copy of them | `set_hw_bp`, `reset_hw_bp` | breakpoints |
| containers, options, dump | - | see section 8 | |

**What is hard here.**
*Concurrency of the tracer with its tracees.*  The tracer is one thread, but
each thread of the program raises events at any time.  To change a breakpoint
the tracer stops a whole group (`stop_threads`): it sends SIGSTOP to each
running thread and waits, and while it waits it collects events of any task,
which are queued and handled later.  What is waited for is a comparison of two
counters of the leader that a dozen functions adjust.
*The kernel's rules.*  The first stop of a new thread can come before or after
the event of its creator.  A leader's end is not reported while a thread of it
is left; exec kills the other threads; a killed task leaves any stop.
*Two ends of a stream.*  The client changes its table at once when the user says
`stop`, `start`, `reset` or `scan`, and the tracer learns it later, while reports
made before are still on their way.
*Entry and return.*  `free` is reported when it begins and `malloc` when it
returns, so that an address which moves from one thread to another is never
reported in the wrong order; `realloc` is reported in three parts.
*Scarce registers.*  Four debug registers serve all breakpoints of a process; the
ones that are hit most get them, the others are int3s in the text.  A breakpoint
changes from one to the other while tasks run into it, step over it, or wait
behind it with an event that names it.
*Two threads and three flags.*  The thread that listens for clients and commands
shares `server_fd`, `server_mode` and `command_pending` with the main loop without a
lock, and the main loop sleeps in `waitpid`, which only a child can end.
*The edges of a function.*  A return address may be behind the last instruction of
its function, an interrupted address may be its first; the unwinder must look up
one a byte earlier and the other not.

**What makes each component correct.**
Tasks: the counters are exact.  Events: a stopped task is queued once, being
handled, or waiting for a known reason; every stop is answered.  Backend: what
the tracer thinks stopped or running is so for the kernel; nothing runs while a
breakpoint is out of the text.  Reports and process table together: once the
messages are in, the table is the program's heap; the counters agree with the
blocks, the references of call stacks are exact, a correct program is never
charged with a bad free, and a block marked as leaked is lost.  Prompt: a scan
ends; a reset leaves nothing behind.  Breakpoints: an enabled breakpoint is armed
in exactly one way in every task, is freed with its last reference, reports each
call once and misses none, and leaves nothing in a process that is let go.
Server: a command is handled once and in order, no wakeup is lost, a client that
connects is greeted and traced.  Unwinder: each step is a frame that is on the
stack, and none is left out.

## 2. Modules

| module | models | state |
|---|---|---|
| `Ptrace` | the kernel's side of ptrace, as far as `trace.c` uses it (external) | operators on a record for each pid: run, stop, zombie, pending status |
| `TaskEvents` | `task.c`, `event.c`, `trace.c`, `sysdeps/linux-gnu/trace.c`, `main.c` and the commands of `server.c` that touch tasks | `task`, `threads`, `threads_stopped`, `event_head`, `kern`, `pc`, `frame`, `connected`, `replies`, `do_exit`, `opt` |
| `TaskEventsProofs` | the inductive invariant of `TaskEvents` and its proof | - |
| `TaskStopsProofs` | proofs about who is stopped: `StepExclusive`, `AgreesWithKernel` | - |
| `TaskQueueProofs` | proofs about asserts and the queue: `AssertsHold`, `QueueSound` | - |
| `TaskHoldProofs` | proof that no stopped task is forgotten: `NoLostStop` | - |
| `ProcessTable` | `struct process` and the functions of `client/process.c` on it, without variables | operators on a record |
| `Allocations` | the traced program, the reports (`report.c`), the connection, the client, the prompt, the commands of the tracer; uses `ProcessTable` | `heap`, `alive`, `call`, `traced`, `in_realloc`, `chan`, `cmds`, `proc`, `busy`, `waiting`, `failed`, `opt` |
| `ProcessTableProofs` | that every function of `ProcessTable` keeps a process `Sound`, and what it does to the counters | - |
| `AllocationsProofs` | the inductive invariant of `Allocations`, from `ProcessTableProofs`; proofs of the counters | - |
| `MirrorProofs` | proofs that the client's table is a picture of the program: `Mirror`, `NoGhosts`, `NoFalseCharge`, `ScanSound`; and, from that, of the asserts | - |
| `BreakpointTable` | `breakpoint.c`, the breakpoints of a library (`library.c`), the debug registers (`x86/arch.c`) as functions of a process | operators on a record |
| `Breakpoints` | tasks that run into breakpoints, the handlers of `event.c` and `task.c`, the loader (`proc.c`, `mtelf.c`), start, stop and detach of `server.c`; uses `BreakpointTable` | `proc`, `connected`, `let_go`, `opt` |
| `HandOver` | what the server promises: the commands of a client are handled once, in order, or the client is dropped | `sent`, `handled`, `serving` |
| `Connection` | `server.c`, `main.c`, `client.c`, `thread.c`, `wait_event_wakeup`; implements `HandOver` | the flags, the semaphore, the program counters of both threads, the sockets, the clients |
| `ConnectionProofs` | the inductive invariant of `Connection`, and that it implements the safety part of `HandOver` | - |
| `DwarfCfi` | CFI programs, expressions and register rules of `dwarf.c`, without variables | operators |
| `Unwinder` | a program with calls, returns and signals, and the backtrace at a breakpoint (`dwarf_step`, `dwarf-x86.c`, `report.c`); uses `DwarfCfi` | `regs`, `mem`, `chain` (the real frames), `c` (the cursor), `data` |
| `MC...` | instances for TLC | - |

`TaskEvents`, `Allocations` and `Breakpoints` have a constant `Scenarios`: each is a
choice of options and of what tracees, program and client may do.  `Init` picks
one into the variable `opt`, which no step changes, so that one run covers several
scenarios and the theorems hold for each.

### TaskEvents

An action of the tracer runs from one blocking `waitpid` to the next, or from the
fetching of an event to the end of its handler; the tracees move between any two
of its actions.  `pc` says which loop the tracer is in (`main`, `handle`, `stop` =
`stop_threads`, `step` = `handle_singlestep`, `destroy` = the loop of `remove_proc`
or `process_exec`), and `frame` holds the locals that live across it, with `cont`
saying what the caller of `stop_threads` does next.  The actions `WaitUnknown`,
`WaitStopped` and `WaitProcess` are the three outcomes of `wait_event`; they are
used in the main loop and inside `stop_threads`.  `Handle...` are the cases of
`handle_event`.  `ServerCommand`, `ServerAboutExit`, `Disconnect` are the commands
that act on tasks, `Quit...` is `mtrace_exit`.

The asserts of the code are in the model: a failing one moves the tracer to `pc =
"failed"`.  A release build has NDEBUG and goes on in that case; what it then
does is not explored.

Simplifications.  fork and vfork are one event, and so are `EVENT_EXIT` and
`EVENT_EXIT_SIGNAL`.  exec is called by the leader.  The first stop of a new task
is its SIGSTOP.  A breakpoint is hardware (the handler returns and the task goes
on) or software (the group is stopped, the breakpoint taken out, the task stepped,
the breakpoint put back); which breakpoint it is, its reference count and `skip_bp`
are the subject of `Breakpoints`.  The tracer runs with `options.trace`:
a disconnect does not end the main loop.  A request to the task that was just
collected does not fail: `child_event` gets the new pid and `fetch_context` the
registers (`sysdeps/linux-gnu/trace.c:276`, `289-293`, where a task killed in that
instant is handled as one without an event).

### Allocations and ProcessTable

A thread of the program makes a call in three steps: `Enter` (the report of the
entry, if the function has one), `Exec...` (the allocator acts), `Leave` (the
report of the return).  Any number of threads are in a call.  The program is
correct: it frees what it owns, once (`Legal`).  The client takes a message
(`Handle...`), one turn of the loops in `process_alloc` and `process_munmap` being one
step (`busy` keeps the prompt out meanwhile).  A search in the tree by a range
returns any block that begins in it.  The prompt's commands change the client and
append to `cmds`; the tracer's actions take them from there.

A call stack begins with the traced function and is named by it; each function is
called from one place.  `free` and `enter` are the stacks that a free and the entry of
a realloc are charged to when `process_free` takes them for wrong ones.  The tree of
call stacks knows addresses only, and those of the entry and of the return of a
realloc are the same: `StackClash` is the assert of `stack_add` (`process.c:503`) on the
operation.  Where the code passes an unsigned long as an unsigned int
(`process_release_mem`, and the distance in `process_munmap`) the model takes it modulo
`UIntMod`.  `waiting` holds the process whose scan is waited for; `HandleClose` is the
end of that wait when the tracer ends with its last process.  A library that is
unloaded and another loaded at its addresses (the fixit at `process.c:743`), so that a
call stack would stand for two, is left out.  Left out too: the automatic scan, `MT_ABOUT_EXIT`, `MT_DETACH` and
`MT_NOFOLLOW` at the client, maps, the kinds of `new` and `delete`, ignored symbols,
rounding to pages, `total_allocations` and `tsc`.

### BreakpointTable and Breakpoints

The state of a process is a record with its tasks, the breakpoints that are
allocated (`mem`), the dictionary, the list of those that may have a slot, and
the text.  A breakpoint has a name that is not used again while a pointer to it is
left, so that a dangling pointer shows as a name without a record.  `Execute` is
one instruction of the program: it traps at a debug register or an int3, and goes
on otherwise.  The tracer collects the trap (`Collect`) and handles it
(`HandleBreakpoint`: hit counters, reordering of the slots, `on_hit`, the return
breakpoint, the report, the step over an int3).  Such a step may be interrupted in
every scenario: by a signal for the program, or by the SIGSTOP that an earlier
`stop_threads` has left pending.  `Throw` leaves a call by an exception or `longjmp`, so
that its return breakpoint is not met.  What qsort does with equals is any order.
No breakpoint is at address 0 (`breakpoint.c:494`).

`TaskEvents` shows how a group is stopped, so `stop_threads` is one step here; the
events it met stay with their tasks.  A software step is one step of the model for
the same reason (`StepExclusive`).  The scenarios of the run leave out what
section 6 lists; a scenario with the operation named there shows it.

### HandOver and Connection

Every access of the listen thread and of the main loop to a shared flag is a step:
`Thread...` are the statements of `server_listen_thread`, `server_pair_thread` and
`request_server`, `Main...` those of `mtrace_main`, `server_poll`,
`server_handle_command`, `server_close`, `mtrace_exit` and the end of `main()`.  A
socket is two queues; what is sent to a client that is gone is lost.  Each client
connects once, sends `MaxCommands` commands and may leave at any time.  With `-l`
the server waits for clients, with `-w` it has one from the start, and without
either the client is a thread of the same process.  An action handles a whole
command, which the other modules look into; `MainExit` detaches one process, or none
if there is none or the client is in the same process (`options.interactive`).  Left out:
the log file, and the prompt of a client in the same process.

`HandOver` says of all this: a command is handled at most once and in the order
sent; and as long as the server talks to a client whose command is not handled,
it handles it or drops the client.  `serving` is `server_fd`; `sent` and `handled`
are the same variables.

### DwarfCfi and Unwinder

A program is a set of functions with the instructions that move the stack
pointer or the frame pointer, calls, jumps, returns and branches, and, if they have
unwind information, their CFI program.  `chain` is the list of the frames that are
on the stack, kept by the calls and returns themselves.  At a traced function the
tracer walks: `BeginReport` is `dwarf_init_unwind`, `WalkFrame` one turn of the loop
in `report_alloc64`, and `dwarf_step` all that the code does in one, errors and the
search for a plausible caller included.  The width of an address and of a stack
word is `WordBits`; arithmetic of expressions is modulo 2^WordBits.  A CFI program
and an expression are decoded; LEB128, encoded pointers, the sections and
`.eh_frame_hdr` are left out, and so is `report_alloc32`.  Opcodes of a CFI program
that the switch does not name are ignored, as in the code, and `DW_CFA_set_loc` is not
relocated.  Left out of the expressions: `DW_OP_deref_size`, and `DW_OP_constu` and
`DW_OP_consts`, for which the code has no operand.

## 3. Properties

TaskEvents:
- `Accounting`: `threads` and `threads_stopped` of a leader count its tasks and its
  stopped tasks.  `stop_threads` believes them.
- `QueueSound`, `NoLostStop`: the queue holds each task at most once, with an event;
  a stopped task is queued, handled, waiting for its creator's event, or waiting
  for the client's answer.
- `AgreesWithKernel`: what the tracer believes stopped is stopped, and what it
  believes running is not.
- `StepExclusive`: during a single step every other task of the group is stopped.
- `AssertsHold`: no assert of `event.c` and `trace.c` fails.
- `Resumed`, `ExitReported`: a task at a breakpoint runs again, and a process that
  ended is reported.

Allocations: `Mirror`, `NoGhosts`, `Counters`, `StackCounters`, `RefCounts`,
`AssertsHold`, `NoFalseCharge`, `ScanSound`, `ScanEnds`, each stated in the module.
`NoFalseCharge` covers the frees and the entries of reallocs.  `ScanEnds` excepts, and
says so, the scan of a process that has exited while the tracer still has another:
the prompt lists it (`process.c:1656-1666`), and the server drops the command
(`server.c:198-200`).

Breakpoints:
- `References`: the dictionary, the events and the skipped steps account exactly for
  the reference count; nothing points to a freed breakpoint.
- `SlotsAgree`: all tasks have the same breakpoints in their slots, the registers
  hold them, and the copy of the registers is right after clone, fork and exec.
- `Armed`, `Released`: an enabled breakpoint is an int3 or in a slot, never both;
  the text has no other int3; what is let go has none.
- `ReportedOnce`, `NoneMissed`: each call of a traced function is reported, once.
  `NoneMissed` looks at every step with which a task passes the first instruction,
  its own or the one over an int3 inside `HandleBreakpoint`.  It excepts the calls
  that are `cut`: tracing was stopped in them, or an earlier call was left without a
  return, which the tracer still waits for (`event.c:370`).
- `AssertsHold`: the asserts of the breakpoint code hold, and no SIGTRAP is left
  unexplained.

Connection: `NoLostWakeup` (the main loop never sleeps on a pending request),
`Balanced` (the listen thread is one request ahead at most), `TracedForClient` (a
client that was greeted is traced), `HandOverSpec` (safety and liveness of
`HandOver`).  `Served` does not hold, see section 6.

Unwinder: `Exact` (ip, CFA and frame pointer of the cursor are those of the next
real frame, at each step) and `Complete` (the backtrace that is sent has every
caller, as deep as asked).

Each property has, for every run that checks it, a mutant: a definition with a
plausible bug in it, kept just before the right one, with which TLC finds that
property violated.

## 4. Runs

Three pids are the smallest number with a thread that hits a breakpoint, one
that is stopped for it and one whose event arrives meanwhile; with two groups,
one that is not concerned.  Each run explores all of its scenarios.

| run | question | states |
|---|---|---|
| `Threads` | three threads of one process with breakpoints, single steps, signals and exits; liveness | 11 000 |
| `Processes` | the client sends commands and disconnects, and the tracer ends, with two processes; clone and fork, followed; fork and exec that are let go | 123 000 |
| `Exec` | exec by a leader with a thread, `exit_group` and a leader that ends first, at any moment.  No deadlock check: `stop_threads` may wait for ever here, see section 6 | 100 000 |
| `Heap` | two threads: malloc, free, realloc, failing calls, sizes 0 and 1; or mmap, munmap (a whole mapping or its beginning), mremap and malloc, with scans in their three modes that miss pointers | 813 000 |
| `Restart` | a child with a copy of the table, whose pid is used again; or tracing that is stopped and started with messages and commands crossing | 300 000 |
| `Scan` | a scan racing with the program, with resets, also under a realloc, and with exits of the process it asks about or of another; the scan ends | 118 000 |
| `Breakpoints` | fourteen scenarios: two tasks and a function more than there are slots, with signals, calls that are left by an exception, a library that comes and goes, a client that comes and goes, commands, clone, fork, exec, exit, detach, with and without hardware breakpoints | 914 000 |
| `Connection` | two clients of a listening server, or one client in the same process; commands, disconnects, the end of the server | 1 862 000 |
| `Unwinder` | compiled programs with frame pointers, recursion, two exits, a signal handler, lazy binding, a call as the last instruction, a limited depth; and functions without unwind information | 6 200 |
| `VClone`, `VServed`, `VCaller` | violations, section 6 | |

Bounds of `Allocations`: 2 or 3 addresses (two blocks and a reuse of an address need
two, an overlap three); `MaxChan` = 2, the messages on their way (one that is
handled, and one behind it that changes its meaning); `MaxCmds`, the commands on
their way; `MaxDrift` bounds the counters that the code itself lets drift (section
6: `bytes_used` after a failed realloc and after a reset): a step that would exceed
it is not taken.  `UIntMod` = 4 stands for 2^32: more than the sizes and distances of
the runs (with larger sizes the properties fail, section 6).  The two threads of one process are interchangeable in the runs
that check invariants only (symmetry).

Bounds of `Breakpoints`: `HwBreakpoints` = 2 (slot 0 is for returns, so that one slot
is contended by two functions) instead of 4, `Threshold` = 1 instead of 1000, so that
slots are reordered at once; the hit counters stop at twice the threshold, above
which they make no difference.  Of `Connection`: two clients, since a third could
only repeat what the second does to the first; one command each.  Of `Unwinder`:
`MaxFrames` = 9, deep enough for recursion under a signal handler, a stack of 31
words, `FrameLimit` and `GuessWords` (2 words instead of 512 bytes) scaled down with it.

Where the deadlock check is off the system may stop: all processes of
`Breakpoints` have ended, the server of `Connection` is done, the program of
`Unwinder` has reached its end or the depth bound.

A property is left out of a run where the code does not have it; section 6 says
why.

**Fairness.**  `TaskEvents!FairSpec`: the tracer takes a step when it can (it loops);
the kernel delivers what is pending to each tracee (a SIGSTOP, the end of a killed
task, a single step); the server's answers are read: `server_poll` runs in each turn
of the main loop, which may be interrupted by any number of events, hence strong
fairness.  Nothing makes a program do anything: no fairness for its breakpoints,
signals, exits.  `Allocations!FairSpec`: weak fairness of the client, strong of the
tracer's handling of commands, none of the program, the user, or of an exit.
`Connection!Spec`: weak fairness of the two threads (they are scheduled) and of each
client's reading; none of users, of signals, or of events of the traced program -
so that the main loop may sleep until it is woken.

## 5. Proofs

All theorems hold for every value of the constants: any pids, threads, clients,
addresses, and any scenario (what is attached, the options, what happens).

| module | theorem | states |
|---|---|---|
| `TaskEventsProofs` | `TypeCorrect` | `TypeOK`; `threads` and `threads_stopped`, unsigned in C, do not wrap |
| | `CountersExact` | `Accounting` |
| `TaskStopsProofs` | `StepAlone` | `StepExclusive` |
| | `KernelAgrees` | `AgreesWithKernel`, where forks are followed |
| | `StoppedIsHeld` | the first half of `AgreesWithKernel`, followed or not |
| `TaskQueueProofs` | `NoAssertFails`, `QueueKept` | `AssertsHold`, `QueueSound`, where the program creates no tasks and the client stays connected (`Settled`) |
| `TaskHoldProofs` | `NoStopLost` | `NoLostStop`, in the same scenarios, without breakpoints that are stepped over and without an end of the tracing where `exit_group` is called (`Lasting`) |
| `ConnectionProofs` | `TypeCorrect`, `WakeupKept`, `SemaphoreBalanced`, `GreetedIsTraced` | `TypeOK`, `NoLostWakeup`, `Balanced`, `TracedForClient` |
| | `PromiseKept` | `Connection` implements `HandOver!Safety` |
| `AllocationsProofs` | `TypeCorrect`, `ReferencesCounted` | `TypeOK`, `RefCounts` |
| | `NoFatalReset` | the `fatal()`s of `process_reset` and `process_reset_allocations` and the assert of `process.c:911` are not reached |
| | `CountsRight` | `Counters`, where blocks are smaller than an unsigned int counts (`Narrow`), tracing is never stopped, a realloc of a block succeeds (`Succeeding`), and there are no scans or no forks |
| | `StackCountsRight` | `StackCounters`, for such blocks without fork, reset and start, and where a scan meets no failed realloc (`Plain`) |
| `MirrorProofs` | `MirrorRight`, `NoGhostsRight`, `NoFalseChargeRight` | `Mirror`, `NoGhosts`, `NoFalseCharge`, where the reports say all that happens (`Faithful`) |
| | `AssertsRight` | `AssertsHold`, in the same scenarios where, if the program forks, reallocs of a block succeed and blocks are `Narrow` |
| | `ScanRight` | `ScanSound`, in the same scenarios without munmap, hidden pointers and fork (`Scannable`) |
| | `MirrorInvariant` | the messages on the connection lead from what the client knows to what the program has |

**TaskEventsProofs.**  `Accounting` is not inductive.  A counter is right after
`continue_task` only if the task was stopped before, after `task_destroy` only if it
was known and stopped, and after a clone only if the child's leader is a pid.  The
invariant `IInv` adds what the steps need: `KernelFacts` (the kernel's records: who
belongs to which group, whose status may be collected), `TaskFacts` (a known task has
the leader the kernel says; the event of a task agrees with `newpid`), `FrameFacts`
(what the locals of a loop may refer to, for each `pc` and `cont`), `Exact` (the
counters) and `Rest`.  `Inductive` proves that Init implies it and each action keeps
it, one step for each action of `Next`.  The counting lemmas rest on the library's
theorems about cardinalities.

**TaskStopsProofs.**  `Halted` relates one struct task to its kernel task (`Agree`),
except for the one that is being stepped.  Every step of the tracer changes the two
together in one of seven ways (`TaskStep`: nothing, resumed, let go, collected, ...)
and every step of a tracee is an `Advance`; two lemmas show that these keep `Agree`,
and the lemma of an action only says which of them it is.  When `handle_singlestep`
runs, the counters agree, so by `CountersExact` every task of the group is held
stopped (`AllStopped`); from there `StepExclusive` is `Agree`.  The second half of
`AgreesWithKernel` needs the story of a child whose stop is collected before its
parent's event: it must not be dropped (`WaitUnknown` without `CanInit`) while the
parent's status is pending.  `Kin`, `Led` and `Fresh` say so: a known task has a
known leader.  That is proved where forks are followed; where they are not,
`do_clone` destroys a leader without looking for threads of it, and that it has none
is left to TLC.

**TaskQueueProofs.**  `AssertsHold` and `QueueSound` are about what the tracer believes when
it acts: that the task it took from the queue, steps, continues or destroys is still
stopped.  A SIGKILL (exit_group, exec) ends a stop without the tracer's doing, and
`wait_event` then replaces the event of a task that is already queued or in a handler.
`QInv` says that this does no harm.  `Sense`: an event means what its handler takes it
for (a task with `EVENT_EXIT` was reaped, one with `EVENT_ABOUT_EXIT` is in its exit stop, a
running task has no event, so the assert of `sysdeps/linux-gnu/trace.c:161` holds).  `Handled` and `Answers`: a task
in a handler or waiting for the client is not queued.  `Deaths`: a dead task that the
tracer was not told of belongs to a group whose leader is doomed or in an exec, and a
task in its exit stop is not stepped - otherwise `handle_singlestep` would let it die under
the tracer.  `Execs`: a task that reported an exec is the last of its group, so that
`process_exec` leaves `threads == 1` (`task.c:330-341`).  `Emptying`: the tasks that
`remove_proc` is about to destroy are stopped.  The steps of the tracer are again a few
relations (`Move`) and those of the tracees others (`Goes`); a lemma for each action says
which, and what happens to the queue.  `Settled` is a condition on the scenario, not on
states, and cannot be dropped: with each of clone, fork and disconnect TLC finds a
counterexample to both properties (section 6).  It leaves any number of processes
and threads, attached at the start, and all their other operations: breakpoints,
signals, execs, exits in any order, commands, answers and the end of the tracing.
TLC checked `QInv` on instances of three pids, one or two groups, with all these
operations together.

**TaskHoldProofs.**  `NoLostStop` is false if a task can come back to the tracer without a
hand that takes it: destroyed while it lives, its next status makes it known again,
stopped and not queued; or left stopped by `handle_singlestep`, which clears the event
of the task it could not step.  `Lasting` excludes just these two: with `exit_group` and
either of software breakpoints and the end of the tracing TLC finds a counterexample
(section 6), and without `exit_group` nothing is excluded.  `LInv` adds to `QInv`: `Kept`
(every stopped task is queued, handled, about to be removed or waiting for the
client's answer), `Named` (which task the frame has in its hand, for each `pc` and
`cont`), and `Unheard` (what the tracer forgot is dead).  To keep `Unheard`, only a dead or a
detachable task may be destroyed, and there are two reasons for it.  Where threads
are killed at any time: only a process that ended is removed (`Plain`), and a leader's
exit is reported last (`Closing`).  Where they are not: only an exec kills, it waits
until its threads are dead (`Killers`), and so no held task but one with an exit event
is among the killed (`Spared`), which is also why `handle_singlestep` can step it.  TLC
checked `LInv` on three pids in one and two groups with all operations that
`Lasting` allows.  The scenario with `exit_group` of the run `Exec` is one of them.

**ConnectionProofs.**  `Wakeups` and `Credit` say at every pair of program counters
what the listen thread and the main loop owe each other (a wakeup under way, a post
of the semaphore); `Waiting` and `Greeting` say which clients may have been answered
and why `tracing` holds for them; `Streams` and `Descriptor` relate the sockets, `sent`
and `handled`, which is what `PromiseKept` needs: every step of `Connection` is a step
of `HandOver` or leaves its variables alone.

**ProcessTableProofs and AllocationsProofs.**  `Sound(P)` is the invariant of one
`struct process`: its types, no two blocks with one identity, `n_allocations` is the
number of blocks, and every call stack has the references of the tree, its blocks and
its entries in `realloc_list`.  Each function of `ProcessTable` has a lemma that it
keeps `Sound`.  `AllocationsProofs` adds what the messages must bring: addresses are
numbers, the address of `MT_REALLOC_ENTER` is not NULL - without that a
`realloc_entry` that holds a reference could not be told from one that holds none.
Sums of sizes over sets of blocks are handled without induction over data: a
smallest set for which the claim fails is led to a contradiction.

The other counters are right in some scenarios only, and the proof is one for all:
`Tabled(P)` says of each counter that it is right under the condition that keeps it
so, `CallsInv` and `ChanInv` say what calls, messages and commands can bring under
the same conditions (an `MT_REALLOC_DONE` without a result comes from a realloc that
failed), `Asserted` that no assert fails but the one of `stack_add`, for which see
`MirrorProofs`.  Their conjunction `CInv` is inductive
together with the invariant above.  The conditions are on the scenario, not on
states, and each is there for a line of the code (section 6): `process_release_mem` takes
back a size that was truncated; a stop in a realloc
leaves an entry in `realloc_list`; `process_realloc_done` puts a block back without
its bytes; `process_duplicate` copies the flags of leaked blocks and not `leaks`;
`stack_clone` copies counters that are counted again; a reset leaves those of a call
stack.

The proof corrected the model in one place: the addresses of a scan are natural
numbers, not members of `Addrs`, because a failed `mremap` puts `MAP_FAILED` in the
table (section 6) and a scan may ask about it.

**MirrorProofs.**  Between the program and the client lie the messages.  A *table* is
what there is to know of each process: open allocations, blocks that a realloc in
progress has taken, addresses marked as leaked.  Each message takes a table one step
further (`Step`), if it is one that its handler expects: an allocation where no block
begins, a free of a block that is there, a done for a realloc that was entered.  So
`n` messages are a `Line` of `n + 1` tables.  `MInv` says that there is such a line,
that its first table agrees with the client (`Agrees`: blocks and `realloc_list` are
the table's, or some of them after a reset, and no free was charged), and that its
last one agrees with each process that is alive (`Ahead`) up to the calls in
progress: a chunk that a call holds is not in the table (`Shown`), because its free
was reported before the allocator acts or its allocation is reported after it; a
partial munmap has already shown what it leaves; a realloc between its two reports
has its block in `held` (`Holding`).  A report appends a table, a handler takes the
first one away, and every other step leaves the line alone.  What makes a report fit
is that two calls never hold one chunk and that chunks do not overlap (`Living`).  A
fork is two steps, between which the child's heap is a copy of its parent's
(`ForkInv`).  When the connection is empty the first and the last table are the same,
and for a process without calls in progress that is `Mirror`.  A scan's answer may be
late; it is
sound because a lost chunk stays lost and is never freed, so that what the line marks
stays within the lost chunks (`Linked`, last conjunct).

`AssertsRight` follows from there.  In `stack_add` two operations can meet only on the
addresses of a realloc, once as its entry and once as its return (`StackClash`).  The
entry is given a call stack only when `process_free` charges it, and by `MInv` no free
is charged: the stack `enter` has no references at any time, so no message finds the
other one in its place (`SInv`; `HandleAllocStacked`, `HandleFreeStacked`, `NextStacked`).
The remaining asserts are `Asserted` of `AllocationsProofs`.

`Faithful` and `Scannable` are conditions on the scenario again, each with a
counterexample of TLC (section 6): realloc0, munmap_any, and an mremap or munmap that
fails are reported as something else than what happens; a stop leaves messages for a
table that start emptied; munmap_past and fork race with other threads of the
process.  They leave any number of processes, threads and addresses, calls that fail
(malloc, realloc, mmap), resets, starts, scans, exits and pids used again.  The
scenarios of the runs `Heap` and `Scan`, and the forking one of `Restart`, are all of
this kind.  TLC checked the definitions of the line and of `Ahead` on small instances
before the proof.

**Assumptions.**  `PidsAssumption` (finitely many pids, NoPid is none of them),
`ScenariosAssumption` of `TaskEvents` (in each scenario the attached pids are distinct
and include their leaders, as `open_pid` has it), and the assumptions on constants of
`Connection` and `Allocations`.  TLC evaluates them all.

**Only model-checked.**
- Liveness, outside the reach of the prover: `Resumed`, `ExitReported`, `ScanEnds`, the
  fairness of `HandOverSpec`.
- `QueueSound`, `AssertsHold` and `NoLostStop` of `TaskEvents` in the scenarios with
  clone, fork or disconnect, and `NoLostStop` with `exit_group` and one of swbp and quit: they hold in the scenarios of the runs and not in all
  (section 6), depending on which other operations there are.
- `Mirror`, `NoGhosts`, `NoFalseCharge`, `ScanSound`, `Counters`, `StackCounters`,
  `AssertsHold` of `Allocations` in scenarios outside the conditions of the theorems,
  as far as they hold there: munmap_past with one thread for each process, and tracing
  that is stopped (the second scenario of `Restart`).
- `Breakpoints`: its handlers are folds over sets of breakpoints, for which the prover
  has no induction.
- `Unwinder`: `DwarfCfi` has a RECURSIVE operator (an expression may branch) and
  uses the bitwise operators, which keeps both out of the prover's reach.

## 6. Where the code departs from what it states

Three runs show a violation; they are the findings of `PROJECT.json`:

- `VClone`: while `stop_threads` collects events it queues a new thread's first stop;
  `do_clone`, called for the parent's event, continues the thread and leaves it in
  the queue.  `assert(task->stopped)` of `handle_event` fails later.
- `VServed`: the semaphore starts with 1, so the listen thread is one request ahead
  of the main loop.  It accepts the next client and sets `MODE_ACCEPTED` and
  `command_pending` while `server_poll` is between `server_handle_command` and
  `command_pending = 0`: the request is gone, and the client waits for `MT_INFO`.
- `VCaller`: `case 'P'` of `parse_cie` runs on into `case 'S'`, so that functions with a
  personality routine (C++ functions with cleanups) are taken for signal frames.
  Where the *caller* of such a function ends with the call, the return address is
  looked up behind the caller, and the further callers are missing.  The caller's
  frame must be larger than what `GUESS_CALLER` searches for a return address (512
  bytes, `GuessWords` in the model); in smaller ones it finds the way back and hides
  the error.

The following were met while modelling, each as a counterexample of TLC in a
scenario with the operations named.  They are the reason why a run leaves an operation or
a property out.

| property | operations | what happens |
|---|---|---|
| `TaskEvents!AssertsHold` | exit, disconnect, reply | `about_exit` survives the client's answer; a disconnect then continues a running task (`server.c:228`, `trace.c:83`) |
| `QueueSound`, `TaskEvents!AssertsHold` | command, fork | as in `VClone`, for a child process: a command for it queues its first stop, the parent's event continues it |
| `Resumed` | trap, swbp, exit, leader_exit, reply | `stop_threads` waits for a leader that ended before its threads: a zombie the kernel does not report |
| `Resumed` | trap, swbp, exec | `stop_threads` waits for a leader in exec, which waits for threads that only the tracer could reap |
| `ExitReported` | exit, leader_exit, exit_group, reply | the exit of a stopped task overwrites its event, and the handler that is still to come resets it (`wait_event`) |
| `ExitReported` | trap, swbp, exit_group, reply | `handle_singlestep` waits for a killed leader whose threads it does not reap |
| `NoLostStop` | fork, exit_group, reply (also fork and exec, or fork and quit) | the fork event of a parent that is killed or removed is lost; its child stays stopped |
| `NoLostStop` | trap, swbp, exit_group | a task that is killed while its breakpoint is passed cannot be stepped: `handle_singlestep` gives up, it is left stopped without an event, and nobody queues its end |
| `NoLostStop` | exit_group, quit, reply (two processes) | `mtrace_exit` removes a killed leader that is not yet in its exit stop; that stop makes it known again, stopped and not queued, while another process is stopped |
| `Mirror` | realloc0 | `realloc(p, 0)` returns NULL and is taken for a failure: p is put back |
| `Mirror` | munmap_any | `process_rb_search_range` compares first addresses only: an unmapped end or middle of a mapping stays open |
| `Mirror` | munmap_any | `process_munmap` of a range over several mappings goes on behind the block that the search met first; one that begins before it stays open |
| `Mirror` | mremap that fails | `_report_mremap` does not test its result, as `_report_mmap` does |
| `Mirror` | munmap that fails | munmap is reported at its entry, and its result to nobody |
| `StackCounters` | malloc, fork | `stack_clone` copies counters that `process_rb_insert_block` counts again |
| `NoFalseCharge`, `Mirror` | malloc, free, fork (two threads) | a free by another thread between the fork and `MT_FORK` is missing in the child's table, and so is an allocation that the fork copied before its report |
| `StackCounters` | reset | of the counters of a call stack only `n_allocations` is reset |
| `NoGhosts` | start, stop | an allocation reported before the tracer sees the stop is entered in the table that start emptied |
| `Allocations!AssertsHold` | realloc, start, stop | `stop_trace` drops the return breakpoint of a thread in realloc; `in_realloc` stays set and `report.c:228` fails |
| `Allocations!AssertsHold` | malloc, realloc that fails, fork | `process_realloc_done` puts the block back without its `bytes_used` (`client/process.c:1520`); `assert(copy->bytes_used == process->bytes_used)` of `process_duplicate` fails at the next fork |
| `Counters` | realloc, start, stop | an entry left over in `realloc_list` brings back a block that is not counted |
| `Counters` | malloc, lose, scan, fork | `process_duplicate` copies the flags of the leaked blocks (`client/process.c:890`) and not `leaks` |
| `Mirror` | mmap, munmap_past (two threads) | another thread maps something into the range between the report of munmap and the call, which unmaps that too; its mmap is reported last and stays open in the table |
| `ScanSound` | scan with munmap, or with fork | the client has cut a mapping that the munmap in progress has not: nothing begins at the address the scan is asked about; or the parent loses a block after the fork, and `MT_FORK` copies its flag to the child, which has not lost it |
| `Breakpoints!Armed`, `AssertsHold` | fork, clone or exec, with late | an event of a process is handled before the fork, clone or exec of another of its tasks: the child's text or registers are those of an earlier moment, the breakpoints those of a later one (`event.c:163`) |
| `Breakpoints!AssertsHold` | dl, dl_thread | a thread that is not the leader calls dlopen: `_library_add` asserts `leader->leader == leader` (`library.c:258`) |
| `Released`, `Armed` | vfork, not followed | the child shares its parent's text: what is taken out of the one is taken out of the other |
| `Breakpoints!AssertsHold` | sigfork | a fork in a signal handler inside a traced call: `task_fork` follows `newtask->breakpoint`, which is NULL (`task.c:453`), and so with `skip_bp` (`task.c:458`) |
| `Breakpoints!AssertsHold` | fork, junk | `clone_single_cb` does not copy `break_insn`: a child's breakpoint may be taken for the program's own int3 |
| `References` | exec, exec_thread | a thread calls exec while another has an event at a breakpoint |
| `ReportedOnce` | signal, with a function in `NoReturn` | a function without `report_out`, with `--nocpp`, has no return breakpoint that marks a call in progress: a step that a signal interrupted reports it again |
| `Complete` | a caller that ends with the call of a function with a frame pointer and without unwind information | `dwarf_arch_step` passes the function by its frame pointer and sets `use_prev_instr = 0` (`dwarf-x86.c:270`), so the caller is looked up behind its end; hidden for small frames as in `VCaller` |
| `Complete` | more than the search of a caller can know | a function without unwind information and without a frame pointer is passed by guessing a return address, which may be one left on the stack |
| `ScanEnds`, without its exception | scan, exit, fork | a process that exited stays listed at the prompt; a scan of it is dropped by the server, which has no such task (`server.c:198-200`), and while another process lives the connection stays open: `client_wait_op` waits on |
| `Counters`, `StackCounters` | malloc, free, a size of `UIntMod` or more | `process_release_mem` has a parameter `unsigned int size` (`process.c:636`) and is given the `unsigned long` size of a block: of 4 GiB or more only the low 32 bits are taken back from `bytes_used` |
| `Allocations!AssertsHold` | the same, and fork | `assert(copy->bytes_used == process->bytes_used)` (`process.c:910`) then fails at the next fork |
| `Allocations!AssertsHold` | malloc, realloc, fork (two threads) | a thread forks while another has a block that is not reported yet, so the child's table lacks it; when the child reallocs it, `process_free` takes the entry for a bad free and enters its call stack as `MT_REALLOC_ENTER`; the return has the same addresses as `MT_REALLOC`, and `assert(this->stack->operation == operation)` of `stack_add` (`process.c:503`) fails |
| `NoneMissed`, without `cut` | throw | a call left by an exception or `longjmp` leaves `task->breakpoint` set; the calls made until its return address is met again are taken for nested ones and not reported (`event.c:370`) |
| `ScanEnds` | scan_empty | `process_leaks_scan` sends nothing for an empty table, and `leaks_scan` waits for the answer |

## 7. Plan

1. Proofs: `Mirror` with munmap_past, for processes of one thread.
2. Proofs for `BreakpointTable`: that each operation keeps `References` and `SlotsAgree`.
3. The rest of the client: detach, nofollow, exit with the automatic scan, maps; an
   abstract specification of the table (the open allocations under reordering of
   what is in flight) that `Allocations` implements.
4. The 32 bit path of the reports, where the task is continued inside its handler.
5. Algorithms against reference definitions: `find_block` and `mem_scan`, `dict`,
   `rbtree`, the message codec with its widths.

## 8. Not modelled

Reading of ELF files, `.eh_frame` bytes and `/proc`, register access, the simulation
of instructions on ARM and PowerPC, command line parsing and output: input and
output, or tables without state of their own.  Red-black trees, dictionaries and
lists are sequential containers, for which the models use sets, functions and
sequences.  The byte order and the field widths of messages, and short reads
inside one, are left out: a message is one element of a queue.
