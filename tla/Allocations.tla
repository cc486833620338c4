----------------------------- MODULE Allocations -----------------------------
(***************************************************************************)
(* The way of an allocation from the traced program to the client.  The    *)
(* program's threads call the allocator; the tracer's breakpoints report   *)
(* the call and the return (report.c) on the connection, a FIFO; the       *)
(* client's loop applies each message to its struct process (client_func), *)
(* and the user's commands go the other way (readline.c, server.c).  The   *)
(* allocator, the program and the memory scan are external: a correct      *)
(* program frees, resizes and unmaps only what it owns.                    *)
(*                                                                         *)
(* Addresses are 1..n with 0 for NULL, a size counts addresses, and a      *)
(* block of size 0 occupies one.                                           *)
(***************************************************************************)
EXTENDS ProcessTable

CONSTANTS Procs,      \* the traced processes
          First,      \* the one that is traced from its start
          Addrs,      \* the address space
          Scenarios,  \* what an instance is about: see Scenario
          MaxChan,    \* messages the connection holds: the sender waits
          MaxCmds,    \* commands the user sends ahead of the tracer
          MaxDrift    \* how far a counter that the code never corrects may run

\* owner: the process of a thread; room: the part of the address space that is
\* used; sizes: what the program asks for; ops: what the program and the user
\* do; fails: the functions that may fail; modes: the modes of the scan
\* command; interactive: options.interactive, the client has a prompt.
Scenario ==
  [owner : [Threads -> Procs], room : SUBSET Addrs, sizes : SUBSET (Addrs \cup {0}),
   ops : SUBSET {"malloc", "free", "realloc", "realloc0", "mmap", "munmap", "munmap_any",
                 "munmap_past", "mremap", "fork", "exit", "lose", "hidden", "scan",
                 "scan_empty", "reset", "start", "stop"},
   fails : SUBSET {"malloc", "realloc", "mmap", "munmap", "mremap"},
   modes : SUBSET {"all", "new", "leak"}, interactive : BOOLEAN]

ASSUME ProgramAssumption ==
  /\ First \in Procs /\ Scenarios \subseteq Scenario
  /\ IsFiniteSet(Addrs) /\ Addrs = 1..Cardinality(Addrs)
  /\ MaxChan \in Nat /\ MaxCmds \in Nat /\ MaxDrift \in Nat

VARIABLES
  heap,        \* program: the chunks of each process
  alive,       \* program: the processes that run
  call,        \* program: the allocator call of each thread
  traced,      \* tracer: the breakpoints of the process are enabled
  in_realloc,  \* tracer: task->in_realloc
  chan,        \* messages on their way to the client
  cmds,        \* commands on their way to the tracer
  proc,        \* client: struct process, by pid
  busy,        \* client: inside the loop of a handler
  waiting,     \* client: in client_wait_op(MT_SCAN), for the scan of this process
  failed,      \* the asserts and fatal()s that were reached
  opt          \* the scenario: chosen at the start, never changed

program == <<heap, alive, call>>
tracer == <<traced, in_realloc>>
client == <<proc, busy, waiting>>
vars == <<heap, alive, call, traced, in_realloc, chan, cmds, proc, busy, waiting, failed, opt>>

Owner == opt.owner
Ops == opt.ops

Chunk == [addr : Addrs, size : Nat, map : BOOLEAN, lost : BOOLEAN]

\* watched says that the tracer waits for the return (task->breakpoint).
Call == [fn : {"none", "malloc", "free", "realloc", "mmap", "munmap", "mremap", "fork"},
         st : {"entered", "done"}, addr : Nat, size : Nat, ret : Nat,
         watched : BOOLEAN, child : Procs]
NoCall == [fn |-> "none", st |-> "done", addr |-> 0, size |-> 0, ret |-> 0, watched |-> FALSE,
           child |-> First]

Message ==
  [op : {"malloc", "realloc", "mmap", "free", "munmap"}, pid : Procs, addr : Nat, size : Nat]
  \cup [op : {"enter", "done"}, pid : Procs, addr : Nat, tid : Threads]
  \cup [op : {"fork"}, pid : Procs, parent : Procs]
  \cup [op : {"exit"}, pid : Procs]
  \cup [op : {"scan"}, pid : Procs, leaks : SUBSET Nat]

Command == [op : {"start", "stop"}, pid : Procs]
           \cup [op : {"scan"}, pid : Procs, blocks : SUBSET Nat]

MapFailed == Cardinality(Addrs) + 1

ThreadsOf(p) == {t \in Threads : Owner[t] = p}
Extent(a, n) == a..(a + (IF n = 0 THEN 1 ELSE n) - 1)
Room(H, a, n) ==
  Extent(a, n) \subseteq opt.room /\ \A c \in H : Extent(c.addr, c.size) \cap Extent(a, n) = {}

\* The chunks the program can still name and that no call holds.
Usable(p) ==
  {c \in heap[p] : /\ ~c.lost
                   /\ \A t \in ThreadsOf(p) : c.addr \notin {call[t].addr, call[t].ret}}
Starts(C) == {c.addr : c \in C}

Init ==
  /\ opt \in Scenarios
  /\ heap = [p \in Procs |-> {}] /\ alive = [p \in Procs |-> p = First]
  /\ call = [t \in Threads |-> NoCall]
  /\ traced = [p \in Procs |-> p = First] /\ in_realloc = [t \in Threads |-> FALSE]
  /\ chan = <<>> /\ cmds = <<>>
  /\ proc = [p \in Procs |-> process_new(p = First, p = First, FALSE)]
  /\ busy = FALSE /\ waiting = {} /\ failed = {}

-----------------------------------------------------------------------------
(* The program, and the reports of its calls and returns.                  *)

\* The processes a fork can make.
Unborn == {q \in Procs : ~alive[q] /\ ~proc[q].known /\ \A t \in Threads : call[t].child # q}

\* The calls a correct program makes.
Legal(p, fn, a, n) ==
  CASE fn = "malloc" -> a = 0 /\ n \in opt.sizes
    [] fn = "mmap" -> a = 0 /\ n \in opt.sizes \ {0}
    [] fn = "free" -> n = 0 /\ a \in Starts({c \in Usable(p) : ~c.map})
    [] fn = "realloc" -> /\ a \in {0} \cup Starts({c \in Usable(p) : ~c.map})
                         /\ n \in opt.sizes /\ (n = 0 /\ a # 0 => "realloc0" \in Ops)
    [] fn = "mremap" -> n \in opt.sizes \ {0} /\ a \in Starts({c \in Usable(p) : c.map})
    [] fn = "munmap" -> LET C == {c \in heap[p] : Extent(c.addr, c.size) \cap Extent(a, n) # {}}
                        IN /\ n # 0 /\ C # {} /\ C \subseteq {c \in Usable(p) : c.map}
                           /\ \/ "munmap_any" \in Ops
                              \/ \E c \in C : c.addr = a /\ (n <= c.size \/ ("munmap_past" \in Ops /\ C = {c}))
    [] fn = "fork" -> a = 0 /\ n = 0 /\ Unborn # {}

\* The report of a call: report_free, report_realloc, report_munmap and
\* report_mremap.
EntryReport(t, p, fn, a, n) ==
  CASE fn = "free" -> <<[op |-> "free", pid |-> p, addr |-> a, size |-> 0]>>
    [] fn = "realloc" /\ a # 0 -> <<[op |-> "enter", pid |-> p, addr |-> a, tid |-> t]>>
    [] fn = "munmap" -> <<[op |-> "munmap", pid |-> p, addr |-> a, size |-> n]>>
    [] fn = "mremap" -> <<[op |-> "munmap", pid |-> p, addr |-> a,
                           size |-> (CHOOSE c \in heap[p] : c.addr = a).size]>>
    [] OTHER -> <<>>

\* A thread calls fn and hits its breakpoint, if it is enabled.
Enter(t, fn, a, n) ==
  LET p == Owner[t]
      realloc == traced[p] /\ fn = "realloc"
  IN /\ fn \in Ops /\ alive[p] /\ call[t] = NoCall /\ Len(chan) < MaxChan
     /\ Legal(p, fn, a, n)
     /\ call' = [call EXCEPT ![t] = [fn |-> fn, st |-> "entered", addr |-> a, size |-> n,
                                     ret |-> 0, watched |-> traced[p],
                                     child |-> First]]
     /\ chan' = IF traced[p] THEN chan \o EntryReport(t, p, fn, a, n) ELSE chan
     /\ in_realloc' = [in_realloc EXCEPT ![t] = @ \/ (realloc /\ a # 0)]
     /\ failed' = IF realloc /\ in_realloc[t] THEN failed \cup {"report.c:228"} ELSE failed
     /\ UNCHANGED <<heap, alive, traced, cmds, client, opt>>

\* The call of t takes effect in the program: the heap becomes H, the result is
\* r; a call that did something no longer holds its argument.
Returns(t, H, r) ==
  LET c == call[t]
      a == IF H = heap[Owner[t]] THEN c.addr ELSE 0
  IN /\ heap' = [heap EXCEPT ![Owner[t]] = H]
     /\ call' = [call EXCEPT ![t] = [c EXCEPT !.st = "done", !.ret = r, !.addr = a]]
     /\ UNCHANGED <<alive, tracer, chan, cmds, client, failed, opt>>

Entered(t, fns) == call[t].fn \in fns /\ call[t].st = "entered"

\* malloc, mmap, realloc and mremap make a chunk; the last two give up the old
\* one, whose place they may use.
ExecAlloc(t) ==
  LET c == call[t]
      H == {k \in heap[Owner[t]] : k.addr # c.addr}
  IN /\ Entered(t, {"malloc", "mmap", "realloc", "mremap"})
     /\ ~(c.fn = "realloc" /\ c.addr # 0 /\ c.size = 0)
     /\ \E r \in Addrs :
          /\ Room(H, r, c.size)
          /\ Returns(t, H \cup {[addr |-> r, size |-> c.size, map |-> c.fn \in {"mmap", "mremap"},
                                 lost |-> FALSE]}, r)

\* free(p), and realloc(p, 0), which frees p and returns NULL.
ExecFree(t) ==
  LET c == call[t]
  IN /\ Entered(t, {"free", "realloc"})
     /\ c.addr # 0 /\ c.size = 0
     /\ Returns(t, {k \in heap[Owner[t]] : k.addr # c.addr}, 0)

\* munmap keeps what is left of a mapping before and after the range.
ExecUnmap(t) ==
  LET c == call[t]
      end == c.addr + c.size
      H == heap[Owner[t]]
      C == {k \in H : Extent(k.addr, k.size) \cap Extent(c.addr, c.size) # {}}
      before == {[k EXCEPT !.size = c.addr - k.addr] : k \in {k \in C : k.addr < c.addr}}
      after == {[k EXCEPT !.addr = end, !.size = k.addr + k.size - end] :
                  k \in {k \in C : k.addr + k.size > end}}
  IN Entered(t, {"munmap"}) /\ Returns(t, (H \ C) \cup before \cup after, 0)

\* A call fails; one for a new chunk also when there is no room.
ExecFail(t) ==
  LET c == call[t]
  IN /\ Entered(t, {"malloc", "realloc", "mmap", "munmap", "mremap"})
     /\ \/ c.fn \in opt.fails /\ -proc[Owner[t]].bytes_used <= MaxDrift
        \/ c.fn # "munmap" /\ c.addr = 0 /\ \A r \in Addrs : ~Room(heap[Owner[t]], r, c.size)
     /\ Returns(t, heap[Owner[t]], IF c.fn \in {"mmap", "mremap"} THEN MapFailed ELSE 0)

\* fork copies the heap; the child runs once the tracer has seen the event.
ExecFork(t, q) ==
  LET c == call[t]
  IN /\ Entered(t, {"fork"}) /\ q \in Unborn
     /\ heap' = [heap EXCEPT ![q] = heap[Owner[t]]]
     /\ call' = [call EXCEPT ![t] = [c EXCEPT !.st = "done", !.child = q]]
     /\ UNCHANGED <<alive, tracer, chan, cmds, client, failed, opt>>

\* The program forgets its last pointer to a chunk.
Lose(p, c) ==
  /\ "lose" \in Ops /\ alive[p] /\ c \in Usable(p)
  /\ heap' = [heap EXCEPT ![p] = (@ \ {c}) \cup {[c EXCEPT !.lost = TRUE]}]
  /\ UNCHANGED <<alive, call, tracer, chan, cmds, client, failed, opt>>

\* The report of a return: _report_malloc, _report_realloc, _report_mmap and
\* _report_mremap, which does not look at the result.
ReturnReport(t, c) ==
  LET p == Owner[t]
      alloc(op) == <<[op |-> op, pid |-> p, addr |-> c.ret, size |-> c.size]>>
      done == <<[op |-> "done", pid |-> p, addr |-> c.ret, tid |-> t]>>
  IN CASE c.fn = "malloc" /\ c.ret # 0 -> alloc("malloc")
       [] c.fn = "realloc" -> (IF c.ret # 0 THEN alloc("realloc") ELSE <<>>)
                              \o (IF in_realloc[t] THEN done ELSE <<>>)
       [] c.fn = "mmap" /\ c.ret # MapFailed -> alloc("mmap")
       [] c.fn = "mremap" -> alloc("mmap")
       [] OTHER -> <<>>

\* Mutant: task->in_realloc is not cleared.
LeaveInRealloc(t) ==
  LET c == call[t]
  IN /\ c.fn \notin {"none", "fork"} /\ c.st = "done" /\ Len(chan) + 1 < MaxChan
     /\ call' = [call EXCEPT ![t] = NoCall]
     /\ chan' = IF c.watched THEN chan \o ReturnReport(t, c) ELSE chan
     /\ UNCHANGED <<heap, alive, tracer, cmds, client, failed, opt>>

\* A thread returns and hits the breakpoint of its return, if it has one.
Leave(t) ==
  LET c == call[t]
  IN /\ c.fn \notin {"none", "fork"} /\ c.st = "done" /\ Len(chan) + 1 < MaxChan
     /\ call' = [call EXCEPT ![t] = NoCall]
     /\ chan' = IF c.watched THEN chan \o ReturnReport(t, c) ELSE chan
     /\ in_realloc' = [in_realloc EXCEPT ![t] = @ /\ ~(c.watched /\ c.fn = "realloc")]
     /\ UNCHANGED <<heap, alive, traced, cmds, client, failed, opt>>

\* handle_child, task_fork: MT_FORK, then both run.
LeaveFork(t) ==
  LET q == call[t].child
  IN /\ call[t].fn = "fork" /\ call[t].st = "done" /\ Len(chan) < MaxChan
     /\ call' = [call EXCEPT ![t] = NoCall]
     /\ alive' = [alive EXCEPT ![q] = TRUE]
     /\ traced' = [traced EXCEPT ![q] = traced[Owner[t]]]
     /\ chan' = Append(chan, [op |-> "fork", pid |-> q, parent |-> Owner[t]])
     /\ UNCHANGED <<heap, in_realloc, cmds, client, failed, opt>>

\* The process ends, whatever its threads are doing: MT_EXIT.
Exit(p) ==
  /\ "exit" \in Ops /\ alive[p] /\ Len(chan) < MaxChan
  /\ alive' = [alive EXCEPT ![p] = FALSE]
  /\ call' = [t \in Threads |-> IF Owner[t] = p THEN NoCall ELSE call[t]]
  /\ in_realloc' = [t \in Threads |-> Owner[t] # p /\ in_realloc[t]]
  /\ chan' = Append(chan, [op |-> "exit", pid |-> p])
  /\ UNCHANGED <<heap, traced, cmds, client, failed, opt>>

-----------------------------------------------------------------------------
(* The client: client_func on the next message.                            *)

\* The message of one of these operations is next, for a process that is traced.
Receive(ops) == chan # <<>> /\ Head(chan).op \in ops
Update(p, P) == proc' = [proc EXCEPT ![p] = P]
Consumed == chan' = Tail(chan) /\ busy' = FALSE

\* The handlers of allocations drop everything while the process is not traced.
Ignore ==
  /\ Receive({"malloc", "realloc", "mmap", "free", "enter", "done", "munmap"})
  /\ ~proc[Head(chan).pid].tracing
  /\ Consumed
  /\ UNCHANGED <<program, tracer, cmds, proc, waiting, failed, opt>>

\* The assert of stack_add.
StackCheck(P, s) ==
  failed' = IF StackClash(P, s) THEN failed \cup {"process.c:503"} ELSE failed

\* process_alloc: blocks that begin in the new one go first.
HandleAlloc ==
  LET m == Head(chan)
      P == proc[m.pid]
      D == rb_search_range(P, m.addr, m.size)
  IN /\ Receive({"malloc", "realloc", "mmap"}) /\ P.tracing
     /\ \/ \E b \in D : /\ Update(m.pid, rb_delete_block(P, b))
                        /\ busy' = TRUE /\ UNCHANGED <<chan, failed>>
        \/ /\ D = {} /\ Update(m.pid, alloc_insert(P, m.addr, m.size, m.op)) /\ Consumed
           /\ StackCheck(P, m.op)
     /\ UNCHANGED <<program, tracer, cmds, waiting, opt>>

\* process_free on MT_FREE and MT_REALLOC_ENTER.
HandleFree ==
  LET m == Head(chan)
      P == proc[m.pid]
      tid == IF m.op = "enter" THEN m.tid ELSE 0
      D == rb_search(P, m.addr)
  IN /\ Receive({"free", "enter"}) /\ P.tracing
     /\ \/ \E b \in D : /\ Update(m.pid, free_block(P, b, m.op, tid))
                        /\ IF Mismatched(b) THEN StackCheck(P, ChargedTo(m.op)) ELSE UNCHANGED failed
        \/ /\ D = {} /\ Update(m.pid, free_unknown(P, m.op, tid))
           /\ IF Badfree(P) THEN StackCheck(P, ChargedTo(m.op)) ELSE UNCHANGED failed
     /\ Consumed
     /\ UNCHANGED <<program, tracer, cmds, waiting, opt>>

\* process_realloc_done.
HandleDone ==
  LET m == Head(chan)
      P == proc[m.pid]
  IN /\ Receive({"done"}) /\ P.tracing
     /\ \/ \E i \in EntryOf(P, m.tid) : Update(m.pid, realloc_done(P, m.addr, i))
        \/ EntryOf(P, m.tid) = {} /\ UNCHANGED proc
     /\ Consumed
     /\ UNCHANGED <<program, tracer, cmds, waiting, failed, opt>>

\* process_munmap: the message keeps what the loop has still to unmap.  The
\* distance to the block is an unsigned int.
HandleMunmap ==
  LET m == Head(chan)
      P == proc[m.pid]
      D == rb_search_range(P, m.addr, m.size)
  IN /\ Receive({"munmap"}) /\ P.tracing
     /\ \/ D = {} /\ UNCHANGED proc /\ Consumed
        \/ \E b \in D :
             LET off == UInt(b.addr - m.addr)
                 n == m.size - off
             IN \/ b.stack # "mmap" /\ UNCHANGED proc /\ Consumed
                \/ /\ b.stack = "mmap" /\ n < b.size
                   /\ Update(m.pid, munmap_prefix(P, b, n)) /\ Consumed
                \/ /\ b.stack = "mmap" /\ n = b.size
                   /\ Update(m.pid, rb_delete_block(P, b)) /\ Consumed
                \/ /\ b.stack = "mmap" /\ n > b.size
                   /\ Update(m.pid, rb_delete_block(P, b))
                   /\ chan' = [chan EXCEPT ![1] = [m EXCEPT !.addr = @ + off + b.size,
                                                            !.size = n - b.size]]
                   /\ busy' = TRUE
     /\ UNCHANGED <<program, tracer, cmds, waiting, failed, opt>>

\* process_duplicate, with its asserts; the process is a new one, or one that
\* had the same pid and exited under the prompt.
HandleFork ==
  LET m == Head(chan)
      copy == proc[m.parent]
      old == IF proc[m.pid].known THEN proc[m.pid] ELSE process_new(TRUE, TRUE, FALSE)
      child == process_duplicate(old, copy)
  IN /\ Receive({"fork"})
     /\ Update(m.pid, child) /\ Consumed
     /\ failed' = failed
          \cup (IF ResetFails(old) THEN {"process_reset"} ELSE {})
          \cup (IF copy.bytes_used # child.bytes_used THEN {"process.c:910"} ELSE {})
          \cup (IF copy.n_allocations # child.n_allocations THEN {"process.c:911"} ELSE {})
     /\ UNCHANGED <<program, tracer, cmds, waiting, opt>>

\* process_exit; without a prompt the process is dumped and removed.
HandleExit ==
  LET p == Head(chan).pid
  IN /\ Receive({"exit"}) /\ Consumed
     /\ \/ opt.interactive /\ UNCHANGED <<proc, failed>>
        \/ /\ ~opt.interactive
           /\ Update(p, process_new(FALSE, FALSE, FALSE))
           /\ failed' = IF ResetFails(proc[p]) THEN failed \cup {"process_reset"} ELSE failed
     /\ UNCHANGED <<program, tracer, cmds, waiting, opt>>

\* Mutant: the end of the scan is not noticed when it found nothing.
ScanNeedsLeaks ==
  LET m == Head(chan)
  IN /\ Receive({"scan"})
     /\ Update(m.pid, process_scan(proc[m.pid], m.leaks)) /\ Consumed
     /\ waiting' = IF m.leaks = {} THEN waiting ELSE {}
     /\ UNCHANGED <<program, tracer, cmds, failed, opt>>

\* process_scan, and the end of client_wait_op.
HandleScan ==
  LET m == Head(chan)
  IN /\ Receive({"scan"})
     /\ Update(m.pid, process_scan(proc[m.pid], m.leaks)) /\ Consumed
     /\ waiting' = {}
     /\ UNCHANGED <<program, tracer, cmds, failed, opt>>

\* With its last process the tracer ends (mtrace_main) and the connection with
\* it: client_wait_op finds client_fd = -1.
HandleClose ==
  /\ \A p \in Procs : ~alive[p]
  /\ chan = <<>> /\ waiting # {} /\ waiting' = {}
  /\ UNCHANGED <<program, tracer, chan, cmds, proc, busy, failed, opt>>

-----------------------------------------------------------------------------
(* The user's commands, and the tracer's side of them.                     *)

Prompt(op, p) == op \in Ops /\ opt.interactive /\ waiting = {} /\ ~busy /\ proc[p].known
NoDrift(P) == \A s \in Stacks : P.nodes[s].bytes_used <= MaxDrift
Sent(c) == Len(cmds) < MaxCmds /\ cmds' = Append(cmds, c)

\* What reset_allocations is fatal() about.
ResetCheck(P) ==
  failed' = IF reset_allocations(P).n_allocations # 0
            THEN failed \cup {"reset_allocations"} ELSE failed

\* Mutant: frees of what was forgotten are charged to the program.
ResetNotAttached(p) ==
  /\ Prompt("reset", p) /\ NoDrift(proc[p])
  /\ Update(p, reset_allocations(proc[p])) /\ ResetCheck(proc[p])
  /\ UNCHANGED <<program, tracer, chan, cmds, busy, waiting, opt>>

do_reset(p) ==
  /\ Prompt("reset", p) /\ NoDrift(proc[p])
  /\ Update(p, [reset_allocations(proc[p]) EXCEPT !.attached = TRUE]) /\ ResetCheck(proc[p])
  /\ UNCHANGED <<program, tracer, chan, cmds, busy, waiting, opt>>

do_stop(p) ==
  /\ Prompt("stop", p) /\ Sent([op |-> "stop", pid |-> p])
  /\ Update(p, [proc[p] EXCEPT !.tracing = FALSE])
  /\ UNCHANGED <<program, tracer, chan, busy, waiting, failed, opt>>

do_start(p) ==
  /\ Prompt("start", p) /\ NoDrift(proc[p]) /\ Sent([op |-> "start", pid |-> p])
  /\ Update(p, [reset_allocations(proc[p]) EXCEPT !.tracing = TRUE, !.attached = TRUE])
  /\ ResetCheck(proc[p])
  /\ UNCHANGED <<program, tracer, chan, busy, waiting, opt>>

\* do_scan, process_leaks_scan: nothing is sent when there is nothing to scan.
do_scan(p, mode) ==
  LET P == proc[p]
  IN /\ Prompt("scan", p) /\ P.tracing
     /\ \/ /\ P.n_allocations # 0
           /\ Sent([op |-> "scan", pid |-> p, blocks |-> Starts(ScanSet(P, mode))])
           /\ Update(p, leaks_scan(P, mode))
        \/ P.n_allocations = 0 /\ "scan_empty" \in Ops /\ UNCHANGED <<cmds, proc>>
     /\ waiting' = {p}
     /\ UNCHANGED <<program, tracer, chan, busy, failed, opt>>

\* server_handle_command for a process that is gone.
CommandNoTask ==
  /\ cmds # <<>> /\ ~alive[Head(cmds).pid]
  /\ cmds' = Tail(cmds)
  /\ UNCHANGED <<program, tracer, chan, client, failed, opt>>

Commanded(op) == cmds # <<>> /\ Head(cmds).op = op /\ alive[Head(cmds).pid] /\ cmds' = Tail(cmds)

start_trace ==
  /\ Commanded("start")
  /\ traced' = [traced EXCEPT ![Head(cmds).pid] = TRUE]
  /\ UNCHANGED <<program, in_realloc, chan, client, failed, opt>>

\* stop_trace: the return of a call in progress is no longer reported
\* (task_reset_bp); task->in_realloc keeps its value.
stop_trace ==
  LET p == Head(cmds).pid
  IN /\ Commanded("stop")
     /\ traced' = [traced EXCEPT ![p] = FALSE]
     /\ call' = [t \in Threads |-> IF Owner[t] = p THEN [call[t] EXCEPT !.watched = FALSE]
                                   ELSE call[t]]
     /\ UNCHANGED <<heap, alive, in_realloc, chan, client, failed, opt>>

\* Mutant: every block is answered as one without a pointer to it.
ScanAll ==
  /\ Commanded("scan") /\ Len(chan) < MaxChan
  /\ chan' = Append(chan, [op |-> "scan", pid |-> Head(cmds).pid, leaks |-> Head(cmds).blocks])
  /\ UNCHANGED <<program, tracer, client, failed, opt>>

\* mem_scan: of the blocks asked for, those no pointer to which is in memory:
\* the lost ones, those whose pointer is hidden from it (in a register), and,
\* of what is no chunk any more, whatever the memory happens to hold.
scan ==
  LET p == Head(cmds).pid
      A == Head(cmds).blocks
      live == A \cap Starts(heap[p])
      lost == A \cap Starts({c \in heap[p] : c.lost})
      hidden == IF "hidden" \in Ops THEN live \ lost ELSE {}
  IN /\ Commanded("scan") /\ Len(chan) < MaxChan
     /\ \E X \in SUBSET (hidden \cup (A \ live)) :
          chan' = Append(chan, [op |-> "scan", pid |-> p, leaks |-> lost \cup X])
     /\ UNCHANGED <<program, tracer, client, failed, opt>>

-----------------------------------------------------------------------------
Calls == {"malloc", "free", "realloc", "mmap", "munmap", "mremap", "fork"}
Program == \E t \in Threads :
  \/ \E fn \in Calls, a \in Addrs \cup {0}, n \in Addrs \cup {0} : Enter(t, fn, a, n)
  \/ ExecAlloc(t) \/ ExecFree(t) \/ ExecUnmap(t) \/ ExecFail(t) \/ Leave(t)
  \/ \E q \in Procs : ExecFork(t, q)
  \/ LeaveFork(t)
  \/ \E c \in heap[Owner[t]] : Lose(Owner[t], c)
  \/ Exit(Owner[t])
Client == Ignore \/ HandleAlloc \/ HandleFree \/ HandleDone \/ HandleMunmap \/ HandleFork
          \/ HandleExit \/ HandleScan \/ HandleClose
User == \E p \in Procs : do_reset(p) \/ do_stop(p) \/ do_start(p)
                         \/ \E mode \in opt.modes : do_scan(p, mode)
Server == CommandNoTask \/ start_trace \/ stop_trace \/ scan

\* Every process is gone and reported.
Ended == (\A p \in Procs : ~alive[p]) /\ chan = <<>> /\ UNCHANGED vars

Next == Program \/ Client \/ User \/ Server \/ Ended
Spec == Init /\ [][Next]_vars

\* The client reads its messages at every turn of its loop.  The tracer reads
\* its commands at every turn of mtrace_main, so a command is not put off for
\* ever by the reports that fill the connection in between: strong fairness.
FairSpec == Spec /\ WF_vars(Client) /\ SF_vars(Server)

-----------------------------------------------------------------------------
(* Properties.                                                             *)

\* The connection and the commands stay within their bounds, the client's
\* records (struct process, rb_block, rb_stack, realloc_entry) keep their types
\* across every message, and only the asserts and the fatal() of the code are
\* recorded as failed.
TypeOK ==
  /\ heap \in [Procs -> SUBSET Chunk] /\ alive \in [Procs -> BOOLEAN]
  /\ call \in [Threads -> Call]
  /\ traced \in [Procs -> BOOLEAN] /\ in_realloc \in [Threads -> BOOLEAN]
  /\ chan \in Seq(Message) /\ Len(chan) <= MaxChan
  /\ cmds \in Seq(Command) /\ Len(cmds) <= MaxCmds
  /\ proc \in [Procs -> Process] /\ busy \in BOOLEAN /\ waiting \subseteq Procs
  /\ failed \subseteq {"report.c:228", "process.c:503", "process.c:910", "process.c:911",
                       "process_reset", "reset_allocations"}

\* Nothing of p is on its way to the client.
Quiet(p) == /\ alive[p] /\ proc[p].tracing /\ traced[p] /\ chan = <<>>
            /\ \A t \in ThreadsOf(p) : call[t] = NoCall

Known(p) == {<<b.addr, b.size>> : b \in proc[p].blocks}
Real(p) == {<<c.addr, c.size>> : c \in heap[p]}

\* README.md:46, "all open allocations": once every message has arrived, the
\* client's blocks of a process it has followed from its start are exactly the
\* program's open allocations.
Mirror == \A p \in Procs : Quiet(p) /\ ~proc[p].attached => Known(p) = Real(p)

\* ... and of a process whose bookkeeping was reset they are at least no more.
NoGhosts == \A p \in Procs : Quiet(p) => Known(p) \subseteq Real(p)

\* The counters of a struct process count its blocks (process_status).
Counters == \A p \in Procs :
  LET P == proc[p]
  IN /\ P.n_allocations = Cardinality(P.blocks) /\ P.bytes_used = Bytes(P.blocks)
     /\ P.leaks = Cardinality(Leaked(P.blocks)) /\ P.leaked_bytes = Bytes(Leaked(P.blocks))

\* The counters of a call stack count the blocks made from it: they are what the
\* dump sorts by and shows.
StackCounters == \A p \in Procs, s \in Stacks :
  LET N == proc[p].nodes[s]
      B == On(proc[p].blocks, s)
  IN /\ N.n_allocations = Cardinality(B) /\ N.bytes_used = Bytes(B)
     /\ N.leaks = Cardinality(Leaked(B)) /\ N.bytes_leaked = Bytes(Leaked(B))

\* A node is referenced by the tree, its blocks and the reallocs that hold it
\* (stack_get and stack_put), so that it is freed neither early nor never.
RefCounts == \A p \in Procs, s \in Stacks :
  LET users == Cardinality(On(proc[p].blocks, s)) + Cardinality(Entries(proc[p], s))
  IN proc[p].nodes[s].refcnt \in {1 + users} \cup (IF users = 0 THEN {0} ELSE {})

\* No assert and no fatal() is reached, in the tracer or in the client.
AssertsHold == failed = {}

\* A correct program is never charged with a mismatched or bad free: no call
\* stack of a free is ever entered (process_free).
NoFalseCharge == \A p \in Procs, s \in {"free", "enter"} : proc[p].nodes[s].refcnt = 0

\* A block the client marks as leaked is one the program has lost: the answer
\* to a scan, late as it comes, is never applied to another allocation at the
\* same address.
ScanSound == \A p \in Procs : \A b \in Leaked(proc[p].blocks) :
  \E c \in heap[p] : c.addr = b.addr /\ c.lost

\* A scan command ends: client_wait_op returns with the answer, or when the
\* tracer is gone.  The one exception is the scan of a process that has exited
\* while the tracer still has another: server_handle_command drops it.
ScanEnds ==
  \A p \in Procs :
    p \in waiting ~> (p \notin waiting \/ (~alive[p] /\ \E q \in Procs : alive[q]))
=============================================================================
