---------------------------- MODULE ProcessTable ----------------------------
(***************************************************************************)
(* What the client knows of a traced process (struct process of            *)
(* client/process.c) and the handlers that keep it, as functions of it:    *)
(* the open allocations (struct rb_block, block_table), the call stacks    *)
(* they were made from (struct rb_stack, stack_table) with their counters  *)
(* and reference counts, and the reallocs in progress (realloc_list).      *)
(* Module Allocations puts the handlers to work.                           *)
(*                                                                         *)
(* A call stack begins with the function that is traced (report.c), so it  *)
(* is named by that: each is called from one place.  "free" and "enter"    *)
(* are the ones that a free and the entry of a realloc are charged to when *)
(* process_free takes them for wrong ones.  The unsigned counters are      *)
(* integers here: the properties compare them with what they count, so one *)
(* that wraps shows as a negative one.                                     *)
(***************************************************************************)
EXTENDS Integers, Sequences, FiniteSets, FiniteSetsExt

CONSTANTS Threads,  \* the threads of the traced processes
          Sanity,   \* options.sanity: a free carries a call stack
          UIntMod   \* an unsigned int counts modulo this: 2^32

ASSUME TableAssumption ==
  IsFiniteSet(Threads) /\ Sanity \in BOOLEAN /\ UIntMod \in Nat \ {0}

Stacks == {"malloc", "realloc", "mmap", "free", "enter"}

\* What is left of an unsigned long that is passed as an unsigned int.
UInt(n) == n % UIntMod

\* struct rb_block; id stands for the pointer, unique in its process.
Block == [id : Nat \ {0}, addr : Nat, size : Nat, stack : Stacks,
          flags : SUBSET {"leaked", "scanned"}]

\* struct rb_stack; refcnt is 0 when the node is not in the tree.
Node == [refcnt : Int, n_allocations : Int, bytes_used : Int, leaks : Int,
         bytes_leaked : Int]
NoNode == [refcnt |-> 0, n_allocations |-> 0, bytes_used |-> 0, leaks |-> 0,
           bytes_leaked |-> 0]

\* struct realloc_entry; addr is 0 when the block was not found.
ReallocEntry == [tid : Threads, addr : Nat, size : Nat, stack : Stacks,
                 flags : SUBSET {"leaked", "scanned"}]

\* struct process; known says that it is in pid_table.
Process == [known : BOOLEAN, tracing : BOOLEAN, attached : BOOLEAN,
            n_allocations : Int, bytes_used : Int, leaks : Int, leaked_bytes : Int,
            blocks : SUBSET Block, nodes : [Stacks -> Node],
            realloc_list : Seq(ReallocEntry)]

\* process_new and process_init.
process_new(known, tracing, attached) ==
  [known |-> known, tracing |-> tracing, attached |-> attached,
   n_allocations |-> 0, bytes_used |-> 0, leaks |-> 0, leaked_bytes |-> 0,
   blocks |-> {}, nodes |-> [s \in Stacks |-> NoNode], realloc_list |-> <<>>]

Bytes(B) == MapThenSumSet(LAMBDA b : b.size, B)
Leaked(B) == {b \in B : "leaked" \in b.flags}
On(B, s) == {b \in B : b.stack = s}

\* process_rb_search and process_rb_search_range: the blocks one of which the
\* search returns.  Both compare with the first address of a block only.
rb_search(P, a) == {b \in P.blocks : b.addr = a}
rb_search_range(P, a, n) ==
  {b \in P.blocks : a <= b.addr /\ b.addr < a + (IF n = 0 THEN 1 ELSE n)}

-----------------------------------------------------------------------------
(* The helpers of the handlers.                                            *)

stack_get(P, s) == [P EXCEPT !.nodes[s].refcnt = @ + 1]
stack_put(P, s) == [P EXCEPT !.nodes[s].refcnt = @ - 1]

\* stack_add: a new node has one reference, the tree's.
stack_add(P, s) ==
  IF P.nodes[s].refcnt = 0 THEN [P EXCEPT !.nodes[s] = [NoNode EXCEPT !.refcnt = 1]] ELSE P

\* The assert of stack_add (process.c:503): the tree knows the addresses as those
\* of another operation.  The call stacks of a realloc, reported on its entry and
\* on its return, have the same addresses.
StackClash(P, s) ==
  s \in {"realloc", "enter"} /\ \E r \in {"realloc", "enter"} \ {s} : P.nodes[r].refcnt # 0

\* process_rb_insert_block: P.bytes_used is left to the caller.
rb_insert_block(P, a, n, s, flags) ==
  LET id == Min((1..(Cardinality(P.blocks) + 1)) \ {b.id : b \in P.blocks})
      node == P.nodes[s]
      counted == [node EXCEPT !.n_allocations = @ + 1, !.bytes_used = @ + n]
  IN stack_get([P EXCEPT !.blocks = @ \cup {[id |-> id, addr |-> a, size |-> n, stack |-> s,
                                             flags |-> flags]},
                         !.nodes[s] = counted,
                         !.n_allocations = @ + 1], s)

\* Mutant: a leaked block stays in the leak counters.
ReleaseKeepsLeaks(P, b, n) ==
  [P EXCEPT !.nodes[b.stack].bytes_used = @ - UInt(n), !.bytes_used = @ - UInt(n)]

\* process_release_mem: n bytes of b are no longer used; b is no longer leaked.
\* The parameter is an unsigned int.
release_mem(P, b, n) ==
  LET leak == Cardinality(Leaked({b}))
      node == P.nodes[b.stack]
      released == [node EXCEPT !.leaks = @ - leak, !.bytes_leaked = @ - leak * b.size,
                               !.bytes_used = @ - UInt(n)]
  IN [P EXCEPT !.nodes[b.stack] = released,
               !.leaks = @ - leak,
               !.leaked_bytes = @ - leak * b.size,
               !.bytes_used = @ - UInt(n)]

\* process_rb_delete_block.
rb_delete_block(P, b) ==
  stack_put([release_mem(P, b, b.size) EXCEPT !.blocks = @ \ {b},
                                              !.nodes[b.stack].n_allocations = @ - 1,
                                              !.n_allocations = @ - 1], b.stack)

-----------------------------------------------------------------------------
(* The message handlers.  process_alloc and process_munmap loop; what is   *)
(* here is one turn of the loop.                                           *)

\* process_alloc, when no block begins in the new one any more.
alloc_insert(P, a, n, s) ==
  [rb_insert_block(stack_add(P, s), a, n, s, {}) EXCEPT !.bytes_used = @ + n]

\* process_munmap on a block that loses its first n bytes.
munmap_prefix(P, b, n) ==
  LET rest == [b EXCEPT !.addr = @ + n, !.size = @ - n, !.flags = @ \ {"leaked"}]
  IN [release_mem(P, b, n) EXCEPT !.blocks = (@ \ {b}) \cup {rest}]

\* Mutant: every free leaves a realloc_entry.
FreeEnters(P, b, op, tid) ==
  rb_delete_block([stack_get(P, b.stack) EXCEPT !.realloc_list = Append(@,
     [tid |-> tid, addr |-> b.addr, size |-> b.size, stack |-> b.stack, flags |-> b.flags])], b)

\* The call stacks that process_free enters: of a free that does not match its
\* block (is_sane), and of one of an address where no block is known.
ChargedTo(op) == IF op = "enter" THEN "enter" ELSE "free"
Mismatched(b) == Sanity /\ b.stack \notin {"malloc", "realloc"}
Badfree(P) == Sanity /\ ~P.attached

\* Mutant: the frees of a process whose bookkeeping began late are dropped.
FreeIfFollowed(P, b, op, tid) == IF P.attached THEN P ELSE rb_delete_block(P, b)

\* process_free of the block b by op: a mismatched one leaves a call stack, a
\* realloc an entry with a reference to the block's node.
free_block(P, b, op, tid) ==
  LET Q == IF Mismatched(b) THEN stack_add(P, ChargedTo(op)) ELSE P
  IN rb_delete_block(
       IF op = "enter"
       THEN [stack_get(Q, b.stack) EXCEPT !.realloc_list = Append(@,
               [tid |-> tid, addr |-> b.addr, size |-> b.size, stack |-> b.stack,
                flags |-> b.flags])]
       ELSE Q, b)

\* process_free of an address where no block is known.
free_unknown(P, op, tid) ==
  LET Q == IF Badfree(P) THEN stack_add(P, ChargedTo(op)) ELSE P
  IN IF op = "enter"
     THEN [Q EXCEPT !.realloc_list = Append(@,
             [tid |-> tid, addr |-> 0, size |-> 0, stack |-> "free", flags |-> {}])]
     ELSE Q

\* Mutant: the first entry of whatever thread.
EntryOfAny(P, tid) == {i \in DOMAIN P.realloc_list : i = 1}

\* The first entry of a thread in realloc_list, if it has one.
EntryOf(P, tid) == {i \in DOMAIN P.realloc_list :
                      /\ P.realloc_list[i].tid = tid
                      /\ \A j \in 1..(i - 1) : P.realloc_list[j].tid # tid}

\* Mutant: the entry's reference is not put.
DelNoPut(P, i) ==
  [P EXCEPT !.realloc_list = SubSeq(@, 1, i - 1) \o SubSeq(@, i + 1, Len(@))]

\* realloc_del.
realloc_del(P, i) ==
  LET Q == [P EXCEPT !.realloc_list = SubSeq(@, 1, i - 1) \o SubSeq(@, i + 1, Len(@))]
      re == P.realloc_list[i]
  IN IF re.addr = 0 THEN Q ELSE stack_put(Q, re.stack)

\* process_realloc_done of the entry i: when the realloc returned NULL (a = 0)
\* the block is inserted again.
realloc_done(P, a, i) ==
  LET re == P.realloc_list[i]
  IN realloc_del(IF a = 0 /\ re.addr # 0
                 THEN rb_insert_block(P, re.addr, re.size, re.stack, re.flags)
                 ELSE P, i)

\* The blocks B, of which those in D get a flag.
Flagged(B, D, flag) == (B \ D) \cup {[b EXCEPT !.flags = @ \cup {flag}] : b \in D}

\* process_scan: the blocks at the addresses A are leaked.
process_scan(P, A) ==
  LET D == {b \in P.blocks : b.addr \in A /\ "leaked" \notin b.flags}
      counted(node, B) == [node EXCEPT !.leaks = @ + Cardinality(B), !.bytes_leaked = @ + Bytes(B)]
  IN [P EXCEPT
        !.blocks = Flagged(@, D, "leaked"),
        !.nodes = [s \in Stacks |-> counted(@[s], On(D, s))],
        !.leaks = @ + Cardinality(D),
        !.leaked_bytes = @ + Bytes(D)]

\* process_leaks_scan: the blocks it asks about, by mode; they are marked.
ScanSet(P, mode) ==
  CASE mode = "all" -> P.blocks
    [] mode = "new" -> {b \in P.blocks : "scanned" \notin b.flags}
    [] mode = "leak" -> Leaked(P.blocks)
leaks_scan(P, mode) == [P EXCEPT !.blocks = Flagged(@, ScanSet(P, mode), "scanned")]

-----------------------------------------------------------------------------
(* Reset and fork.                                                         *)

Entries(P, s) == {i \in DOMAIN P.realloc_list :
                    P.realloc_list[i].addr # 0 /\ P.realloc_list[i].stack = s}

\* process_reset_allocations: every block and every entry puts its node; of
\* the counters of a node only n_allocations is taken back.
reset_allocations(P) ==
  LET put(node, blocks, entries) ==
        [node EXCEPT !.n_allocations = @ - blocks, !.refcnt = @ - blocks - entries]
  IN [P EXCEPT !.blocks = {},
               !.nodes = [s \in Stacks |-> put(@[s], Cardinality(On(P.blocks, s)),
                                               Cardinality(Entries(P, s)))],
               !.realloc_list = <<>>,
               !.n_allocations = @ - Cardinality(P.blocks),
               !.bytes_used = 0, !.leaks = 0, !.leaked_bytes = 0]

\* What process_reset is fatal() about: the count of allocations, and the
\* references of a node once the tree's is the only one left.
ResetFails(P) ==
  LET Q == reset_allocations(P)
  IN Q.n_allocations # 0 \/ \E s \in Stacks : Q.nodes[s].refcnt \notin {0, 1}

\* Mutant: the child starts without blocks.
DuplicateEmpty(P, copy) == process_new(TRUE, P.tracing, copy.attached)

\* stack_clone: the counters are those of the node, the reference is the tree's.
stack_clone(node) == [node EXCEPT !.refcnt = 1]

\* The nodes of a child with the blocks of copy: process_rb_insert_block counts
\* each block on its node once more.
ClonedNodes(copy) ==
  [s \in Stacks |->
     LET B == On(copy.blocks, s)
     IN IF B = {} THEN NoNode
        ELSE [stack_clone(copy.nodes[s]) EXCEPT !.refcnt = @ + Cardinality(B),
                                                !.n_allocations = @ + Cardinality(B),
                                                !.bytes_used = @ + Bytes(B)]]

\* Mutant: bytes_used of the child is not counted.
DuplicateNoBytes(P, copy) ==
  [process_new(TRUE, P.tracing, copy.attached) EXCEPT
     !.blocks = copy.blocks, !.n_allocations = Cardinality(copy.blocks),
     !.nodes = ClonedNodes(copy)]

\* process_duplicate: the blocks of copy, each on the clone of its node.
process_duplicate(P, copy) ==
  [process_new(TRUE, P.tracing, copy.attached) EXCEPT
     !.blocks = copy.blocks, !.n_allocations = Cardinality(copy.blocks),
     !.bytes_used = Bytes(copy.blocks), !.nodes = ClonedNodes(copy)]
=============================================================================
