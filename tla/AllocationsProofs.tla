------------------------- MODULE AllocationsProofs -------------------------
(***************************************************************************)
(* Theorems about Allocations, for any processes, threads, addresses and   *)
(* scenarios: the types of the whole state, the reference counts of the    *)
(* call stacks, that neither fatal() of a reset nor the assert on the      *)
(* number of allocations of a child is ever reached, and, for the kinds of *)
(* scenarios named there, that the counters of a process and of its call   *)
(* stacks count its blocks.                                                *)
(*                                                                         *)
(* A handler of the client changes one struct process as ProcessTable says *)
(* and ProcessTableProofs shows that it stays Sound.  What is left is that *)
(* every message brings a handler what it needs: the addresses of a report *)
(* are natural numbers, that of MT_REALLOC_ENTER is not NULL (report.c),   *)
(* and so a realloc_entry that holds a reference is told from one that     *)
(* holds none.                                                             *)
(***************************************************************************)
EXTENDS Allocations, ProcessTableProofs

\* The messages the tracer sends.
Sendable == {m \in Message : m.op = "enter" => m.addr # 0}

ProgramOK ==
  /\ heap \in [Procs -> SUBSET Chunk] /\ alive \in [Procs -> BOOLEAN]
  /\ call \in [Threads -> Call]
  /\ traced \in [Procs -> BOOLEAN] /\ in_realloc \in [Threads -> BOOLEAN]
  /\ \A p \in Procs : \A c \in heap[p] : Extent(c.addr, c.size) \subseteq Addrs
ChanOK == chan \in Seq(Sendable) /\ Len(chan) <= MaxChan
CmdsOK == cmds \in Seq(Command) /\ Len(cmds) <= MaxCmds
ClientOK ==
  /\ proc \in [Procs -> Process] /\ busy \in BOOLEAN /\ waiting \subseteq Procs
  /\ \A p \in Procs : Sound(proc[p])

\* The fatal()s of process_reset and process_reset_allocations and the assert
\* of process.c:911 are not reached.
TablesAgree == failed \subseteq {"report.c:228", "process.c:503", "process.c:910"}

IInv == ProgramOK /\ ChanOK /\ CmdsOK /\ ClientOK /\ TablesAgree /\ opt \in Scenario

-----------------------------------------------------------------------------
(* The messages.                                                           *)

\* What a message brings.
LEMMA MessageFields ==
  ASSUME NEW m \in Sendable
  PROVE  /\ m \in Message /\ m.pid \in Procs
         /\ m.op \in {"malloc", "realloc", "mmap", "free", "munmap"} => m.addr \in Nat /\ m.size \in Nat
         /\ m.op \in {"enter", "done"} => m.addr \in Nat /\ m.tid \in Threads
         /\ m.op = "enter" => m.addr # 0
         /\ m.op = "fork" => m.parent \in Procs
         /\ m.op = "scan" => m.leaks \in SUBSET Nat
  BY DEF Sendable, Message

\* What a message is made of.
LEMMA MessageMade ==
  ASSUME NEW p \in Procs, NEW a \in Nat, NEW n \in Nat, NEW t \in Threads, NEW q \in Procs,
         NEW A \in SUBSET Nat
  PROVE  /\ \A op \in {"malloc", "realloc", "mmap", "free", "munmap"} :
              [op |-> op, pid |-> p, addr |-> a, size |-> n] \in Sendable
         /\ a # 0 => [op |-> "enter", pid |-> p, addr |-> a, tid |-> t] \in Sendable
         /\ [op |-> "done", pid |-> p, addr |-> a, tid |-> t] \in Sendable
         /\ [op |-> "fork", pid |-> p, parent |-> q] \in Sendable
         /\ [op |-> "exit", pid |-> p] \in Sendable
         /\ [op |-> "scan", pid |-> p, leaks |-> A] \in Sendable
  BY DEF Sendable, Message

\* A queue of such messages, when one is read or some are added.
LEMMA Queued ==
  ASSUME NEW S, NEW q \in Seq(S)
  PROVE  /\ Len(q) \in Nat
         /\ \A m \in S : Append(q, m) \in Seq(S) /\ Len(Append(q, m)) = Len(q) + 1
         /\ \A r \in Seq(S) : q \o r \in Seq(S) /\ Len(q \o r) = Len(q) + Len(r)
         /\ q # <<>> => /\ Head(q) \in S /\ Tail(q) \in Seq(S) /\ Len(Tail(q)) = Len(q) - 1
                        /\ Len(q) > 0
         /\ q # <<>> => \A m \in S : [q EXCEPT ![1] = m] \in Seq(S) /\ Len([q EXCEPT ![1] = m]) = Len(q)
  <1>1. q # <<>> => \A m \in S : [q EXCEPT ![1] = m] \in Seq(S) /\ Len([q EXCEPT ![1] = m]) = Len(q)
    BY ExceptSeq
  <1> QED BY <1>1

-----------------------------------------------------------------------------
(* The program.                                                            *)

Within(H) == \A c \in H : Extent(c.addr, c.size) \subseteq Addrs

\* The owner of a thread is a process.
LEMMA OwnerIs == ASSUME NEW t \in Threads, opt \in Scenario PROVE Owner[t] \in Procs
  BY DEF Owner, Scenario

\* The addresses are natural numbers, and not 0.
LEMMA AddrsAre == Addrs \subseteq Nat \ {0} /\ MapFailed \in Nat /\ Cardinality(Addrs) \in Nat
  <1>1. IsFiniteSet(Addrs) /\ Addrs = 1..Cardinality(Addrs)
    BY ProgramAssumption
  <1>2. Cardinality(Addrs) \in Nat
    BY <1>1, FS_CardinalityType
  <1> QED BY <1>1, <1>2 DEF MapFailed

\* The record of a call, changed.
Back(c, r, a) == [c EXCEPT !.st = "done", !.ret = r, !.addr = a]
Forked(c, q) == [c EXCEPT !.st = "done", !.child = q]

\* A call that returned or forked is still a call, with values of their types.
LEMMA CallIs ==
  ASSUME NEW c \in Call
  PROVE  /\ c.addr \in Nat /\ c.size \in Nat /\ c.ret \in Nat /\ c.child \in Procs
         /\ c.watched \in BOOLEAN
         /\ \A r \in Nat, a \in Nat : Back(c, r, a) \in Call
         /\ \A q \in Procs : Forked(c, q) \in Call
         /\ [c EXCEPT !.watched = FALSE] \in Call
  <1>1. \A r \in Nat, a \in Nat : Back(c, r, a) \in Call
    BY DEF Call, Back
  <1>2. \A q \in Procs : Forked(c, q) \in Call
    BY DEF Call, Forked
  <1>3. [c EXCEPT !.watched = FALSE] \in Call
    BY DEF Call
  <1> QED BY <1>1, <1>2, <1>3 DEF Call

\* A thread outside the allocator.
LEMMA NoCallIs == NoCall \in Call
  BY ProgramAssumption DEF NoCall, Call

\* A call takes effect.
LEMMA ReturnsOK ==
  ASSUME ProgramOK, opt \in Scenario, NEW t \in Threads, NEW H \in SUBSET Chunk, Within(H),
         NEW r \in Nat, Returns(t, H, r)
  PROVE  ProgramOK' /\ UNCHANGED <<chan, cmds, proc, busy, waiting, failed, opt>>
  <1> DEFINE c == call[t]
             a == IF H = heap[Owner[t]] THEN c.addr ELSE 0
             n == Back(c, r, a)
  <1>1. Owner[t] \in Procs
    BY OwnerIs
  <1>2. c \in Call /\ a \in Nat
    BY CallIs DEF ProgramOK
  <1>3. heap' = [heap EXCEPT ![Owner[t]] = H] /\ call' = [call EXCEPT ![t] = n]
    BY DEF Returns, Back
  <1>4. UNCHANGED <<alive, traced, in_realloc, chan, cmds, proc, busy, waiting, failed, opt>>
    BY DEF Returns, tracer, client
  <1> HIDE DEF c, a
  <1>5. n \in Call
    BY <1>2, CallIs
  <1> HIDE DEF n
  <1>6. call' \in [Threads -> Call]
    BY <1>3, <1>5 DEF ProgramOK
  <1>7. heap' \in [Procs -> SUBSET Chunk]
    BY <1>1, <1>3 DEF ProgramOK
  <1>8. \A p \in Procs : Within(heap'[p])
    BY <1>1, <1>3 DEF ProgramOK, Within
  <1> QED BY <1>4, <1>6, <1>7, <1>8 DEF ProgramOK, Within, Extent

\* Chunks that go and chunks that come.
LEMMA ExecAllocOK ==
  ASSUME ProgramOK, opt \in Scenario, NEW t \in Threads, ExecAlloc(t)
  PROVE  ProgramOK' /\ UNCHANGED <<chan, cmds, proc, busy, waiting, failed, opt>>
  <1> DEFINE c == call[t]
             H == {k \in heap[Owner[t]] : k.addr # c.addr}
             k(r) == [addr |-> r, size |-> c.size, map |-> c.fn \in {"mmap", "mremap"}, lost |-> FALSE]
  <1>1. PICK r \in Addrs : Room(H, r, c.size) /\ Returns(t, H \cup {k(r)}, r)
    BY DEF ExecAlloc
  <1>2. c \in Call /\ c.size \in Nat
    BY CallIs DEF ProgramOK
  <1>3. H \in SUBSET Chunk /\ Within(H)
    BY OwnerIs DEF ProgramOK, Within
  <1>4. Extent(r, c.size) \subseteq Addrs
    BY <1>1 DEF Room, Scenario
  <1> HIDE DEF H, c
  <1>5. k(r) \in Chunk /\ k(r).addr = r /\ k(r).size = c.size
    BY <1>2 DEF Chunk
  <1> HIDE DEF k
  <1>6. H \cup {k(r)} \in SUBSET Chunk /\ Within(H \cup {k(r)})
    BY <1>3, <1>4, <1>5 DEF Within
  <1>7. r \in Nat
    BY AddrsAre
  <1> QED BY <1>1, <1>6, <1>7, ReturnsOK

\* free of the program takes its chunk away and leaves the tracer and the client alone.
LEMMA ExecFreeOK ==
  ASSUME ProgramOK, opt \in Scenario, NEW t \in Threads, ExecFree(t)
  PROVE  ProgramOK' /\ UNCHANGED <<chan, cmds, proc, busy, waiting, failed, opt>>
  <1> DEFINE H == {k \in heap[Owner[t]] : k.addr # call[t].addr}
  <1>1. Returns(t, H, 0)
    BY DEF ExecFree
  <1>2. H \in SUBSET Chunk /\ Within(H)
    BY OwnerIs DEF ProgramOK, Within
  <1> HIDE DEF H
  <1> QED BY <1>1, <1>2, ReturnsOK

\* What munmap leaves before and after its range lies where the chunk lay.
LEMMA ExecUnmapOK ==
  ASSUME ProgramOK, opt \in Scenario, NEW t \in Threads, ExecUnmap(t)
  PROVE  ProgramOK' /\ UNCHANGED <<chan, cmds, proc, busy, waiting, failed, opt>>
  <1> DEFINE c == call[t]
             end == c.addr + c.size
             H == heap[Owner[t]]
             C == {k \in H : Extent(k.addr, k.size) \cap Extent(c.addr, c.size) # {}}
             B == {k \in C : k.addr < c.addr}
             A == {k \in C : k.addr + k.size > end}
             pre(k) == [k EXCEPT !.size = c.addr - k.addr]
             post(k) == [k EXCEPT !.addr = end, !.size = k.addr + k.size - end]
             before == {pre(k) : k \in B}
             after == {post(k) : k \in A}
  <1>1. Returns(t, (H \ C) \cup before \cup after, 0)
    BY DEF ExecUnmap
  <1>2. c \in Call /\ c.addr \in Nat /\ c.size \in Nat
    BY CallIs DEF ProgramOK
  <1>3. H \in SUBSET Chunk /\ Within(H)
    BY OwnerIs DEF ProgramOK, Within
  <1> HIDE DEF c, H
  <1>4. ASSUME NEW k \in B PROVE pre(k) \in Chunk /\ Extent(pre(k).addr, pre(k).size) \subseteq Addrs
    <2>1. k \in Chunk /\ Extent(k.addr, k.size) \subseteq Addrs /\ k.addr < c.addr
          /\ Extent(k.addr, k.size) \cap Extent(c.addr, c.size) # {}
      BY <1>3 DEF Within
    <2>2. k.addr \in Nat /\ k.size \in Nat
      BY <2>1, AddrsAre DEF Chunk
    <2>3. c.addr < k.addr + (IF k.size = 0 THEN 1 ELSE k.size)
      BY <1>2, <2>1, <2>2 DEF Extent
    <2>4. c.addr - k.addr \in Nat \ {0}
      BY <1>2, <2>1, <2>2
    <2>5. pre(k) \in Chunk /\ pre(k).addr = k.addr /\ pre(k).size = c.addr - k.addr
      BY <2>1, <2>4 DEF Chunk
    <2>6. Extent(k.addr, c.addr - k.addr) \subseteq Extent(k.addr, k.size)
      BY <1>2, <2>2, <2>3, <2>4 DEF Extent
    <2> HIDE DEF pre
    <2> QED BY <2>1, <2>5, <2>6
  <1>5. ASSUME NEW k \in A PROVE post(k) \in Chunk /\ Extent(post(k).addr, post(k).size) \subseteq Addrs
    <2>1. k \in Chunk /\ Extent(k.addr, k.size) \subseteq Addrs /\ k.addr + k.size > end
          /\ Extent(k.addr, k.size) \cap Extent(c.addr, c.size) # {}
      BY <1>3 DEF Within
    <2>2. k.addr \in Nat /\ k.size \in Nat /\ end \in Nat
      <3>1. k.addr \in Nat /\ k.size \in Nat
        BY <2>1, AddrsAre DEF Chunk
      <3> QED BY <1>2, <3>1
    <2>3. k.addr <= end
      BY <1>2, <2>1, <2>2 DEF Extent
    <2>4. k.addr + k.size - end \in Nat \ {0} /\ k.size # 0
      BY <2>1, <2>2, <2>3
    <2> HIDE DEF end
    <2>5. end \in Extent(k.addr, k.size)
      BY <2>1, <2>2, <2>3, <2>4 DEF Extent
    <2>6. Extent(end, k.addr + k.size - end) \subseteq Extent(k.addr, k.size)
      BY <2>2, <2>3, <2>4 DEF Extent
    <2>7. post(k) \in Chunk /\ post(k).addr = end /\ post(k).size = k.addr + k.size - end
      <3> DEFINE x == k.addr + k.size - end
      <3>1. x \in Nat /\ end \in Addrs
        BY <2>1, <2>4, <2>5
      <3>2. post(k) = [k EXCEPT !.addr = end, !.size = x]
        OBVIOUS
      <3> HIDE DEF x, post
      <3>3. post(k) \in Chunk /\ post(k).addr = end /\ post(k).size = x
        BY <2>1, <3>1, <3>2 DEF Chunk
      <3> QED BY <3>3 DEF x
    <2> HIDE DEF post
    <2> QED BY <2>1, <2>6, <2>7
  <1> HIDE DEF B, A, pre, post
  <1>6. before \in SUBSET Chunk /\ Within(before)
    BY <1>4 DEF Within
  <1>7. after \in SUBSET Chunk /\ Within(after)
    BY <1>5 DEF Within
  <1> HIDE DEF before, after
  <1>8. (H \ C) \cup before \cup after \in SUBSET Chunk /\ Within((H \ C) \cup before \cup after)
    BY <1>3, <1>6, <1>7 DEF Within
  <1> HIDE DEF C
  <1> QED BY <1>1, <1>8, ReturnsOK

\* A call of the program that fails leaves the heap as it is.
LEMMA ExecFailOK ==
  ASSUME ProgramOK, opt \in Scenario, NEW t \in Threads, ExecFail(t)
  PROVE  ProgramOK' /\ UNCHANGED <<chan, cmds, proc, busy, waiting, failed, opt>>
  <1> DEFINE r == IF call[t].fn \in {"mmap", "mremap"} THEN MapFailed ELSE 0
             H == heap[Owner[t]]
  <1>1. Returns(t, H, r)
    BY DEF ExecFail
  <1>2. r \in Nat
    BY AddrsAre
  <1>3. H \in SUBSET Chunk /\ Within(H)
    BY OwnerIs DEF ProgramOK, Within
  <1> HIDE DEF H, r
  <1> QED BY <1>1, <1>2, <1>3, ReturnsOK

\* fork copies a heap that is in place.
LEMMA ExecForkOK ==
  ASSUME ProgramOK, opt \in Scenario, NEW t \in Threads, NEW q \in Procs, ExecFork(t, q)
  PROVE  ProgramOK' /\ UNCHANGED <<chan, cmds, proc, busy, waiting, failed, opt>>
  <1> DEFINE c == call[t]
             n == Forked(c, q)
  <1>1. heap' = [heap EXCEPT ![q] = heap[Owner[t]]] /\ call' = [call EXCEPT ![t] = n]
    BY DEF ExecFork, Forked
  <1>2. UNCHANGED <<alive, traced, in_realloc, chan, cmds, proc, busy, waiting, failed, opt>>
    BY DEF ExecFork, tracer, client
  <1>3. c \in Call
    BY DEF ProgramOK
  <1> HIDE DEF c
  <1>4. n \in Call
    BY <1>3, CallIs
  <1> HIDE DEF n
  <1>5. call' \in [Threads -> Call]
    BY <1>1, <1>4 DEF ProgramOK
  <1>6. heap' \in [Procs -> SUBSET Chunk] /\ \A p \in Procs : Within(heap'[p])
    BY <1>1, OwnerIs DEF ProgramOK, Within
  <1> QED BY <1>2, <1>5, <1>6 DEF ProgramOK, Within, Extent

\* A chunk that is lost stays where it is.
LEMMA LoseOK ==
  ASSUME ProgramOK, opt \in Scenario, NEW p \in Procs, NEW c \in heap[p], Lose(p, c)
  PROVE  ProgramOK' /\ UNCHANGED <<chan, cmds, proc, busy, waiting, failed, opt>>
  <1> DEFINE k == [c EXCEPT !.lost = TRUE]
             H == (heap[p] \ {c}) \cup {k}
  <1>1. heap' = [heap EXCEPT ![p] = H]
    BY DEF Lose
  <1>2. UNCHANGED <<alive, call, traced, in_realloc, chan, cmds, proc, busy, waiting, failed, opt>>
    BY DEF Lose, tracer, client
  <1>3. c \in Chunk /\ Within(heap[p])
    BY DEF ProgramOK, Within
  <1>4. k \in Chunk /\ k.addr = c.addr /\ k.size = c.size
    BY <1>3 DEF Chunk
  <1> HIDE DEF k
  <1>5. H \in SUBSET Chunk /\ Within(H)
    BY <1>3, <1>4 DEF ProgramOK, Within
  <1> HIDE DEF H
  <1>6. heap' \in [Procs -> SUBSET Chunk] /\ \A r \in Procs : Within(heap'[r])
    BY <1>1, <1>5 DEF ProgramOK, Within
  <1> QED BY <1>2, <1>6 DEF ProgramOK, Within, Extent

\* Reports of no message, of one and of two.
LEMMA Short ==
  ASSUME NEW S
  PROVE  /\ <<>> \in Seq(S) /\ Len(<<>>) = 0
         /\ \A m \in S : <<m>> \in Seq(S) /\ Len(<<m>>) = 1
         /\ \A q, r \in Seq(S) : /\ q \o r \in Seq(S) /\ Len(q \o r) = Len(q) + Len(r)
                                 /\ Len(q) \in Nat /\ Len(r) \in Nat
  <1>1. \A m \in S : <<m>> \in Seq(S) /\ Len(<<m>>) = 1
    OBVIOUS
  <1> QED BY <1>1

\* The report of a call is a message of the set S of them, or none.
LEMMA EntryReportIn ==
  ASSUME ProgramOK, NEW t \in Threads, NEW p \in Procs, NEW fn, NEW a \in Nat, NEW n \in Nat,
         Legal(p, fn, a, n),
         NEW S, \A m \in Sendable : m.op \in {"free", "enter", "munmap"} => m \in S
  PROVE  EntryReport(t, p, fn, a, n) \in Seq(S) /\ Len(EntryReport(t, p, fn, a, n)) <= 1
  <1> DEFINE e == EntryReport(t, p, fn, a, n)
             h == CHOOSE c \in heap[p] : c.addr = a
             m1 == [op |-> "free", pid |-> p, addr |-> a, size |-> 0]
             m2 == [op |-> "enter", pid |-> p, addr |-> a, tid |-> t]
             m3 == [op |-> "munmap", pid |-> p, addr |-> a, size |-> n]
             m4 == [op |-> "munmap", pid |-> p, addr |-> a, size |-> h.size]
  <1>1. m1 \in Sendable /\ (a # 0 => m2 \in Sendable) /\ m3 \in Sendable
    BY MessageMade
  <1>2. fn = "mremap" => m4 \in Sendable
    <2> SUFFICES ASSUME fn = "mremap" PROVE m4 \in Sendable
      OBVIOUS
    <2>1. a \in Starts({c \in Usable(p) : c.map})
      BY DEF Legal
    <2>2. \E c \in heap[p] : c.addr = a
      BY <2>1 DEF Starts, Usable
    <2>3. h \in heap[p]
      BY <2>2
    <2>4. h.size \in Nat
      BY <2>3 DEF ProgramOK, Chunk
    <2> HIDE DEF h
    <2> QED BY <2>4, MessageMade
  <1>s. m1 \in S /\ (a # 0 => m2 \in S) /\ m3 \in S /\ (fn = "mremap" => m4 \in S)
    <2>1. m1.op = "free" /\ m2.op = "enter" /\ m3.op = "munmap" /\ m4.op = "munmap"
      OBVIOUS
    <2> HIDE DEF m1, m2, m3, m4
    <2> QED BY <1>1, <1>2, <2>1
  <1>3. e = CASE fn = "free" -> <<m1>> [] fn = "realloc" /\ a # 0 -> <<m2>> [] fn = "munmap" -> <<m3>>
              [] fn = "mremap" -> <<m4>> [] OTHER -> <<>>
    BY DEF EntryReport
  <1>4. e \in {<<m1>>, <<m3>>, <<>>} \/ (a # 0 /\ e = <<m2>>) \/ (fn = "mremap" /\ e = <<m4>>)
    <2> HIDE DEF e, m1, m2, m3, m4
    <2> QED BY <1>3
  <1> HIDE DEF e, m1, m2, m3, m4
  <1>5. e \in Seq(S) /\ Len(e) <= 1
    <2>1. \A m \in S : <<m>> \in Seq(S) /\ Len(<<m>>) = 1
      BY Short
    <2>2. <<>> \in Seq(S) /\ Len(<<>>) = 0
      BY Short
    <2>3. e = <<>> \/ \E m \in S : e = <<m>>
      BY <1>s, <1>4
    <2>4. CASE e = <<>>
      BY <2>2, <2>4
    <2>5. ASSUME NEW m \in S, e = <<m>> PROVE e \in Seq(S) /\ Len(e) <= 1
      BY <2>1, <2>5
    <2> QED BY <2>3, <2>4, <2>5
  <1> QED BY <1>5 DEF e

\* The report of a call, case by case.
LEMMA EntryReportIs ==
  ASSUME ProgramOK, NEW t \in Threads, NEW p \in Procs, NEW fn, NEW a \in Nat, NEW n \in Nat,
         Legal(p, fn, a, n)
  PROVE  EntryReport(t, p, fn, a, n) \in Seq(Sendable) /\ Len(EntryReport(t, p, fn, a, n)) <= 1
  BY EntryReportIn

\* A thread calls the allocator.
LEMMA EnterOK ==
  ASSUME ProgramOK, ChanOK, opt \in Scenario, TablesAgree, NEW t \in Threads,
         NEW fn \in Calls, NEW a \in Addrs \cup {0}, NEW n \in Addrs \cup {0}, Enter(t, fn, a, n)
  PROVE  ProgramOK' /\ ChanOK' /\ TablesAgree' /\ UNCHANGED <<cmds, proc, busy, waiting, opt>>
  <1> DEFINE p == Owner[t]
             e == EntryReport(t, p, fn, a, n)
             c == [fn |-> fn, st |-> "entered", addr |-> a, size |-> n, ret |-> 0,
                   watched |-> traced[p], child |-> First]
  <1>1. p \in Procs /\ a \in Nat /\ n \in Nat
    BY OwnerIs, AddrsAre
  <1>2. /\ Legal(p, fn, a, n) /\ Len(chan) < MaxChan /\ call' = [call EXCEPT ![t] = c]
        /\ chan' = IF traced[p] THEN chan \o e ELSE chan
        /\ in_realloc' = [in_realloc EXCEPT ![t] = in_realloc[t] \/ (traced[p] /\ fn = "realloc" /\ a # 0)]
        /\ failed' \in {failed, failed \cup {"report.c:228"}}
        /\ UNCHANGED <<heap, alive, traced, cmds, proc, busy, waiting, opt>>
    BY DEF Enter, client
  <1>3. e \in Seq(Sendable) /\ Len(e) <= 1
    BY <1>1, <1>2, EntryReportIs
  <1>4. c \in Call
    <2>1. traced[p] \in BOOLEAN
      BY <1>1 DEF ProgramOK
    <2> QED BY <1>1, <2>1, ProgramAssumption DEF Call, Calls
  <1> HIDE DEF e, c
  <1>5. call' \in [Threads -> Call]
    BY <1>2, <1>4 DEF ProgramOK
  <1>6. in_realloc' \in [Threads -> BOOLEAN]
    BY <1>2, Zenon DEF ProgramOK
  <1>7. ProgramOK'
    BY <1>2, <1>5, <1>6 DEF ProgramOK, Extent
  <1>8. chan' \in Seq(Sendable) /\ Len(chan') <= MaxChan
    <2>1. chan \o e \in Seq(Sendable) /\ Len(chan \o e) = Len(chan) + Len(e) /\ Len(chan) \in Nat
      BY <1>3, Queued DEF ChanOK
    <2>2. Len(e) \in Nat
      BY <1>3
    <2> QED BY <1>2, <1>3, <2>1, <2>2, ProgramAssumption DEF ChanOK
  <1>9. TablesAgree'
    BY <1>2 DEF TablesAgree
  <1> QED BY <1>2, <1>7, <1>8, <1>9 DEF ChanOK

\* At most one message, and two such reports.
Briefly(S) == {q \in Seq(S) : Len(q) \in {0, 1}}
\* At most two messages.
LEMMA Brief ==
  ASSUME NEW S
  PROVE  /\ <<>> \in Briefly(S) /\ \A x \in S : <<x>> \in Briefly(S)
         /\ \A q, r \in Briefly(S) : q \o r \in Seq(S) /\ Len(q \o r) <= 2
         /\ \A q \in Briefly(S) : q \in Seq(S) /\ Len(q) <= 2
  <1>1. <<>> \in Briefly(S) /\ \A x \in S : <<x>> \in Briefly(S)
    BY Short DEF Briefly
  <1>2. \A q, r \in Briefly(S) : q \o r \in Seq(S) /\ Len(q \o r) <= 2
    <2> TAKE q, r \in Briefly(S)
    <2>1. q \in Seq(S) /\ r \in Seq(S) /\ Len(q) \in {0, 1} /\ Len(r) \in {0, 1}
      BY DEF Briefly
    <2>2. q \o r \in Seq(S) /\ Len(q \o r) = Len(q) + Len(r)
      BY <2>1, Short
    <2> DEFINE x == Len(q)
               y == Len(r)
    <2>3. x + y <= 2
      <3>1. x \in {0, 1} /\ y \in {0, 1}
        BY <2>1
      <3> HIDE DEF x, y
      <3> QED BY <3>1
    <2> QED BY <2>2, <2>3, Zenon
  <1> QED BY <1>1, <1>2 DEF Briefly

\* The report of a return is at most two messages, of a set M of them.
LEMMA ReturnReportIn ==
  ASSUME opt \in Scenario, NEW t \in Threads, NEW c \in Call,
         NEW M,
         \A m \in Sendable : m.op \in {"malloc", "realloc", "mmap"} /\ m.size = c.size
                            /\ c.fn \notin {"none", "free", "munmap", "fork"} => m \in M,
         in_realloc[t] => [op |-> "done", pid |-> Owner[t], addr |-> c.ret, tid |-> t] \in M
  PROVE  ReturnReport(t, c) \in Seq(M) /\ Len(ReturnReport(t, c)) <= 2
  <1> DEFINE p == Owner[t]
             m(op) == [op |-> op, pid |-> p, addr |-> c.ret, size |-> c.size]
             d == [op |-> "done", pid |-> p, addr |-> c.ret, tid |-> t]
             e == ReturnReport(t, c)
  <1>1. p \in Procs /\ c.ret \in Nat /\ c.size \in Nat
    BY OwnerIs, CallIs
  <1>2. /\ c.fn \notin {"none", "free", "munmap", "fork"} =>
              m("malloc") \in M /\ m("realloc") \in M /\ m("mmap") \in M
        /\ in_realloc[t] => d \in M
    <2>1. m("malloc") \in Sendable /\ m("realloc") \in Sendable /\ m("mmap") \in Sendable
      BY <1>1, MessageMade
    <2>2. /\ m("malloc").op = "malloc" /\ m("realloc").op = "realloc" /\ m("mmap").op = "mmap"
          /\ m("malloc").size = c.size /\ m("realloc").size = c.size /\ m("mmap").size = c.size
      OBVIOUS
    <2> HIDE DEF m
    <2> QED BY <2>1, <2>2
  <1>3. \/ e \in {<<>>, <<>> \o <<>>} \/ (in_realloc[t] /\ e = <<>> \o <<d>>)
        \/ /\ c.fn \notin {"none", "free", "munmap", "fork"}
           /\ \/ e \in {<<m("malloc")>>, <<m("mmap")>>, <<m("realloc")>> \o <<>>}
              \/ in_realloc[t] /\ e = <<m("realloc")>> \o <<d>>
    BY DEF ReturnReport
  <1> HIDE DEF m, d, e
  <1>4. e \in Seq(M) /\ Len(e) <= 2
    <2>1. \A x \in M : <<x>> \in Briefly(M)
      BY Brief
    <2>2. <<>> \in Briefly(M)
      BY Brief
    <2>3. e \in Briefly(M) \/ \E q, r \in Briefly(M) : e = q \o r
      BY <1>2, <1>3, <2>1, <2>2
    <2> QED BY <2>3, Brief
  <1> QED BY <1>4 DEF e

\* The report of a return, case by case.
LEMMA ReturnReportIs ==
  ASSUME opt \in Scenario, NEW t \in Threads, NEW c \in Call
  PROVE  ReturnReport(t, c) \in Seq(Sendable) /\ Len(ReturnReport(t, c)) <= 2
  <1>1. [op |-> "done", pid |-> Owner[t], addr |-> c.ret, tid |-> t] \in Sendable
    BY OwnerIs, CallIs, MessageMade
  <1> QED BY <1>1, ReturnReportIn

\* A thread leaves the allocator.
LEMMA LeaveOK ==
  ASSUME ProgramOK, ChanOK, opt \in Scenario, NEW t \in Threads, Leave(t)
  PROVE  ProgramOK' /\ ChanOK' /\ UNCHANGED <<cmds, proc, busy, waiting, failed, opt>>
  <1> DEFINE c == call[t]
             e == ReturnReport(t, c)
  <1>1. /\ Len(chan) + 1 < MaxChan /\ call' = [call EXCEPT ![t] = NoCall]
        /\ chan' = IF c.watched THEN chan \o e ELSE chan
        /\ in_realloc' = [in_realloc EXCEPT ![t] = in_realloc[t] /\ ~(c.watched /\ c.fn = "realloc")]
        /\ UNCHANGED <<heap, alive, traced, cmds, proc, busy, waiting, failed, opt>>
    BY DEF Leave, client
  <1>2. c \in Call
    BY DEF ProgramOK
  <1> HIDE DEF c
  <1>3. e \in Seq(Sendable) /\ Len(e) <= 2
    BY <1>2, ReturnReportIs
  <1> HIDE DEF e
  <1>4. call' \in [Threads -> Call]
    BY <1>1, NoCallIs DEF ProgramOK
  <1>5. in_realloc' \in [Threads -> BOOLEAN]
    BY <1>1, Zenon DEF ProgramOK
  <1>6. ProgramOK'
    BY <1>1, <1>4, <1>5 DEF ProgramOK, Extent
  <1>7. chan' \in Seq(Sendable) /\ Len(chan') <= MaxChan
    <2>1. chan \o e \in Seq(Sendable) /\ Len(chan \o e) = Len(chan) + Len(e) /\ Len(chan) \in Nat
      BY <1>3, Queued DEF ChanOK
    <2>2. Len(e) \in Nat
      BY <1>3
    <2> QED BY <1>1, <1>3, <2>1, <2>2, ProgramAssumption DEF ChanOK
  <1> QED BY <1>1, <1>6, <1>7 DEF ChanOK

\* The child of a fork runs.
LEMMA LeaveForkOK ==
  ASSUME ProgramOK, ChanOK, opt \in Scenario, NEW t \in Threads, LeaveFork(t)
  PROVE  ProgramOK' /\ ChanOK' /\ UNCHANGED <<cmds, proc, busy, waiting, failed, opt>>
  <1> DEFINE q == call[t].child
             m == [op |-> "fork", pid |-> q, parent |-> Owner[t]]
  <1>1. /\ Len(chan) < MaxChan /\ call' = [call EXCEPT ![t] = NoCall]
        /\ alive' = [alive EXCEPT ![q] = TRUE]
        /\ traced' = [traced EXCEPT ![q] = traced[Owner[t]]]
        /\ chan' = Append(chan, m)
        /\ UNCHANGED <<heap, in_realloc, cmds, proc, busy, waiting, failed, opt>>
    BY DEF LeaveFork, client
  <1>2. q \in Procs /\ Owner[t] \in Procs
    BY OwnerIs, CallIs DEF ProgramOK
  <1>3. m \in Sendable
    BY <1>2, MessageMade
  <1> HIDE DEF q, m
  <1>4. call' \in [Threads -> Call]
    BY <1>1, NoCallIs DEF ProgramOK
  <1>5. alive' \in [Procs -> BOOLEAN] /\ traced' \in [Procs -> BOOLEAN]
    BY <1>1, <1>2, Zenon DEF ProgramOK
  <1>6. ProgramOK'
    BY <1>1, <1>4, <1>5 DEF ProgramOK, Extent
  <1>7. ChanOK'
    BY <1>1, <1>3, Queued, ProgramAssumption DEF ChanOK
  <1> QED BY <1>1, <1>6, <1>7

\* A process ends.
LEMMA ExitOK ==
  ASSUME ProgramOK, ChanOK, opt \in Scenario, NEW p \in Procs, Exit(p)
  PROVE  ProgramOK' /\ ChanOK' /\ UNCHANGED <<cmds, proc, busy, waiting, failed, opt>>
  <1> DEFINE m == [op |-> "exit", pid |-> p]
  <1>1. /\ Len(chan) < MaxChan
        /\ call' = [t \in Threads |-> IF Owner[t] = p THEN NoCall ELSE call[t]]
        /\ alive' = [alive EXCEPT ![p] = FALSE]
        /\ in_realloc' = [t \in Threads |-> Owner[t] # p /\ in_realloc[t]]
        /\ chan' = Append(chan, m)
        /\ UNCHANGED <<heap, traced, cmds, proc, busy, waiting, failed, opt>>
    BY DEF Exit, client
  <1>2. m \in Sendable
    BY DEF Sendable, Message
  <1> HIDE DEF m
  <1>3. call' \in [Threads -> Call]
    BY <1>1, NoCallIs DEF ProgramOK
  <1>4. alive' \in [Procs -> BOOLEAN]
    BY <1>1, Zenon DEF ProgramOK
  <1>5. in_realloc' \in [Threads -> BOOLEAN]
    BY <1>1, Zenon DEF ProgramOK
  <1>6. ProgramOK'
    BY <1>1, <1>3, <1>4, <1>5 DEF ProgramOK, Extent
  <1>7. ChanOK'
    BY <1>1, <1>2, Queued, ProgramAssumption DEF ChanOK
  <1> QED BY <1>1, <1>6, <1>7

-----------------------------------------------------------------------------
(* The client.                                                             *)

\* The next message.
LEMMA Received ==
  ASSUME ChanOK, chan # <<>>
  PROVE  /\ Head(chan) \in Sendable
         /\ Tail(chan) \in Seq(Sendable) /\ Len(Tail(chan)) <= MaxChan
         /\ \A m \in Sendable : [chan EXCEPT ![1] = m] \in Seq(Sendable)
                                /\ Len([chan EXCEPT ![1] = m]) <= MaxChan
  BY Queued, ProgramAssumption DEF ChanOK

\* A struct process is replaced by another one that is sound.
LEMMA UpdateOK ==
  ASSUME ClientOK, NEW p \in Procs, NEW P, Sound(P), Update(p, P), busy' \in BOOLEAN, waiting' \subseteq Procs
  PROVE  ClientOK'
  <1>1. P \in Process
    BY DEF Sound
  <1>2. proc' \in [Procs -> Process] /\ \A q \in Procs : proc'[q] = IF q = p THEN P ELSE proc[q]
    BY <1>1 DEF Update, ClientOK
  <1>3. \A q \in Procs : Sound(proc'[q])
    BY <1>2 DEF ClientOK
  <1> QED BY <1>2, <1>3 DEF ClientOK

\* Nothing of the program changes.
LEMMA ProgramKept == ASSUME ProgramOK, UNCHANGED <<program, tracer>> PROVE ProgramOK'
  BY DEF program, tracer, ProgramOK, Extent

\* A message for a process that is not traced.
LEMMA IgnoreOK ==
  ASSUME IInv, Ignore PROVE IInv'
  <1>1. ChanOK'
    BY Received DEF IInv, Ignore, Receive, Consumed, ChanOK
  <1>2. ClientOK'
    BY DEF IInv, Ignore, Consumed, ClientOK
  <1>3. ProgramOK'
    BY ProgramKept DEF IInv, Ignore
  <1> QED BY <1>1, <1>2, <1>3 DEF IInv, Ignore, CmdsOK, TablesAgree

\* process_alloc.
LEMMA HandleAllocOK == ASSUME IInv, HandleAlloc PROVE IInv'
  <1> DEFINE m == Head(chan)
             P == proc[m.pid]
             D == rb_search_range(P, m.addr, m.size)
  <1>1. /\ chan # <<>> /\ m.op \in {"malloc", "realloc", "mmap"}
        /\ UNCHANGED <<program, tracer, cmds, waiting, opt>>
        /\ failed' \in {failed, failed \cup {"process.c:503"}}
    BY DEF HandleAlloc, Receive, StackCheck
  <1>2. m \in Sendable /\ Tail(chan) \in Seq(Sendable) /\ Len(Tail(chan)) <= MaxChan
    BY <1>1, Received DEF IInv
  <1>3. m.pid \in Procs /\ m.addr \in Nat /\ m.size \in Nat /\ m.op \in Stacks
    BY <1>1, <1>2, MessageFields DEF Stacks
  <1>4. Sound(P)
    BY <1>3 DEF IInv, ClientOK
  <1>5. ClientOK' /\ ChanOK'
    <2>1. ASSUME NEW b \in D, Update(m.pid, rb_delete_block(P, b)), busy' = TRUE, UNCHANGED chan
          PROVE  ClientOK' /\ ChanOK'
      <3>1. b \in P.blocks
        BY DEF rb_search_range
      <3>2. Sound(rb_delete_block(P, b))
        BY <1>4, <3>1, DeleteSound
      <3>3. busy' \in BOOLEAN /\ waiting' \subseteq Procs
        BY <1>1, <2>1 DEF IInv, ClientOK
      <3> HIDE DEF m, P
      <3>4. ClientOK'
        BY <1>3, <2>1, <3>2, <3>3, UpdateOK DEF IInv
      <3> QED BY <2>1, <3>4 DEF IInv, ChanOK
    <2>2. ASSUME Update(m.pid, alloc_insert(P, m.addr, m.size, m.op)), Consumed
          PROVE  ClientOK' /\ ChanOK'
      <3>1. Sound(alloc_insert(P, m.addr, m.size, m.op))
        BY <1>3, <1>4, AllocSound
      <3>2. busy' \in BOOLEAN /\ waiting' \subseteq Procs
        BY <1>1, <2>2 DEF IInv, ClientOK, Consumed
      <3> HIDE DEF m, P
      <3>3. ClientOK'
        BY <1>3, <2>2, <3>1, <3>2, UpdateOK DEF IInv
      <3> QED BY <1>2, <2>2, <3>3 DEF ChanOK, Consumed
    <2> QED BY <2>1, <2>2 DEF HandleAlloc
  <1>6. ProgramOK'
    BY <1>1, ProgramKept DEF IInv
  <1> QED BY <1>1, <1>5, <1>6 DEF IInv, CmdsOK, TablesAgree

\* process_free.
LEMMA HandleFreeOK == ASSUME IInv, HandleFree PROVE IInv'
  <1> DEFINE m == Head(chan)
             P == proc[m.pid]
             tid == IF m.op = "enter" THEN m.tid ELSE 0
             D == rb_search(P, m.addr)
  <1>1. /\ chan # <<>> /\ m.op \in {"free", "enter"} /\ Consumed
        /\ UNCHANGED <<program, tracer, cmds, waiting, opt>>
        /\ failed' \in {failed, failed \cup {"process.c:503"}}
    BY DEF HandleFree, Receive, StackCheck
  <1>2. m \in Sendable /\ Tail(chan) \in Seq(Sendable) /\ Len(Tail(chan)) <= MaxChan
    BY <1>1, Received DEF IInv
  <1>3. m.pid \in Procs /\ (m.op = "enter" => tid \in Threads /\ m.addr # 0)
    BY <1>2, MessageFields
  <1>4. Sound(P)
    BY <1>3 DEF IInv, ClientOK
  <1>5. \E Q : Sound(Q) /\ Update(m.pid, Q)
    <2>1. ASSUME NEW b \in D, Update(m.pid, free_block(P, b, m.op, tid))
          PROVE  \E Q : Sound(Q) /\ Update(m.pid, Q)
      <3>1. b \in P.blocks /\ b.addr = m.addr
        BY DEF rb_search
      <3> HIDE DEF P, m, tid
      <3>2. Sound(free_block(P, b, m.op, tid))
        BY <1>3, <1>4, <3>1, FreeSound
      <3> QED BY <2>1, <3>2
    <2>2. ASSUME Update(m.pid, free_unknown(P, m.op, tid))
          PROVE  \E Q : Sound(Q) /\ Update(m.pid, Q)
      <3> HIDE DEF P, m, tid
      <3>1. Sound(free_unknown(P, m.op, tid))
        BY <1>3, <1>4, UnknownSound
      <3> QED BY <2>2, <3>1
    <2> QED BY <2>1, <2>2 DEF HandleFree
  <1>6. busy' \in BOOLEAN /\ waiting' \subseteq Procs
    BY <1>1 DEF IInv, ClientOK, Consumed
  <1> HIDE DEF m
  <1>7. ClientOK'
    BY <1>3, <1>5, <1>6, UpdateOK DEF IInv
  <1>8. ProgramOK'
    BY <1>1, ProgramKept DEF IInv
  <1> QED BY <1>1, <1>2, <1>7, <1>8 DEF IInv, CmdsOK, TablesAgree, ChanOK, Consumed

\* process_realloc_done.
LEMMA HandleDoneOK == ASSUME IInv, HandleDone PROVE IInv'
  <1> DEFINE m == Head(chan)
             P == proc[m.pid]
  <1>1. /\ chan # <<>> /\ Consumed
        /\ UNCHANGED <<program, tracer, cmds, waiting, failed, opt>>
    BY DEF HandleDone, Receive
  <1>2. m \in Sendable /\ Tail(chan) \in Seq(Sendable) /\ Len(Tail(chan)) <= MaxChan
    BY <1>1, Received DEF IInv
  <1>3. m.pid \in Procs
    BY <1>2, MessageFields
  <1>4. Sound(P)
    BY <1>3 DEF IInv, ClientOK
  <1>5. busy' \in BOOLEAN /\ waiting' \subseteq Procs
    BY <1>1 DEF IInv, ClientOK, Consumed
  <1>6. ClientOK'
    <2>1. ASSUME NEW i \in EntryOf(P, m.tid), Update(m.pid, realloc_done(P, m.addr, i))
          PROVE  ClientOK'
      <3>1. i \in DOMAIN P.realloc_list
        BY DEF EntryOf
      <3> HIDE DEF P, m
      <3>2. Sound(realloc_done(P, m.addr, i))
        BY <1>4, <3>1, DoneSound
      <3> QED BY <1>3, <1>5, <2>1, <3>2, UpdateOK DEF IInv
    <2>2. CASE UNCHANGED proc
      BY <1>5, <2>2 DEF IInv, ClientOK
    <2> QED BY <2>1, <2>2 DEF HandleDone
  <1>7. ProgramOK'
    BY <1>1, ProgramKept DEF IInv
  <1> QED BY <1>1, <1>2, <1>6, <1>7 DEF IInv, CmdsOK, TablesAgree, ChanOK, Consumed

\* process_munmap.
LEMMA HandleMunmapOK == ASSUME IInv, HandleMunmap PROVE IInv'
  <1> DEFINE m == Head(chan)
             P == proc[m.pid]
             D == rb_search_range(P, m.addr, m.size)
             off(b) == UInt(b.addr - m.addr)
             n(b) == m.size - off(b)
             r(b) == [m EXCEPT !.addr = @ + off(b) + b.size, !.size = n(b) - b.size]
  <1>1. /\ chan # <<>> /\ m.op = "munmap"
        /\ UNCHANGED <<program, tracer, cmds, waiting, failed, opt>>
    BY DEF HandleMunmap, Receive
  <1>2. m \in Sendable /\ Tail(chan) \in Seq(Sendable) /\ Len(Tail(chan)) <= MaxChan
    BY <1>1, Received DEF IInv
  <1>3. m.pid \in Procs /\ m.addr \in Nat /\ m.size \in Nat
    BY <1>1, <1>2, MessageFields
  <1>4. Sound(P) /\ waiting' \subseteq Procs
    BY <1>1, <1>3 DEF IInv, ClientOK
  <1>5. CASE UNCHANGED proc /\ Consumed
    <2>1. ClientOK'
      BY <1>4, <1>5 DEF IInv, ClientOK, Consumed
    <2>2. ChanOK'
      BY <1>2, <1>5 DEF ChanOK, Consumed
    <2>3. ProgramOK'
      BY <1>1, ProgramKept DEF IInv
    <2> QED BY <1>1, <2>1, <2>2, <2>3 DEF IInv, CmdsOK, TablesAgree
  <1>6. ASSUME NEW b \in D,
               \/ n(b) < b.size /\ Update(m.pid, munmap_prefix(P, b, n(b))) /\ Consumed
               \/ Update(m.pid, rb_delete_block(P, b)) /\ Consumed
               \/ /\ n(b) > b.size /\ Update(m.pid, rb_delete_block(P, b))
                  /\ chan' = [chan EXCEPT ![1] = r(b)] /\ busy' = TRUE
        PROVE  IInv'
    <2>1. b \in P.blocks /\ m.addr <= b.addr /\ b.addr < m.addr + (IF m.size = 0 THEN 1 ELSE m.size)
      BY DEF rb_search_range
    <2>2. b \in Block /\ b.addr \in Nat /\ b.size \in Nat
      BY <1>4, <2>1, Fields DEF Sound, Block
    <2>3. off(b) \in Nat /\ n(b) \in Nat
      <3>1. b.addr - m.addr \in Nat /\ b.addr - m.addr <= m.size
        BY <1>3, <2>1, <2>2
      <3>2. off(b) \in 0..(b.addr - m.addr)
        BY <3>1, UIntIs
      <3> HIDE DEF off
      <3> QED BY <1>3, <2>2, <3>1, <3>2
    <2>4. n(b) > b.size => r(b) \in Sendable
      <3> SUFFICES ASSUME n(b) > b.size PROVE r(b) \in Sendable
        OBVIOUS
      <3> DEFINE x == m.addr + off(b) + b.size
                 y == n(b) - b.size
      <3>1. x \in Nat /\ y \in Nat
        <4> HIDE DEF off
        <4> QED BY <1>3, <2>2, <2>3
      <3>2. m \in [op : {"malloc", "realloc", "mmap", "free", "munmap"}, pid : Procs, addr : Nat, size : Nat]
        BY <1>1, <1>2 DEF Sendable, Message
      <3>3. r(b) = [m EXCEPT !.addr = x, !.size = y]
        OBVIOUS
      <3> HIDE DEF x, y, r, m
      <3>4. r(b) \in [op : {"malloc", "realloc", "mmap", "free", "munmap"}, pid : Procs, addr : Nat, size : Nat]
            /\ r(b).op = m.op
        BY <3>1, <3>2, <3>3
      <3> QED BY <1>1, <3>4 DEF Sendable, Message
    <2> HIDE DEF n, r, off, P, D, m
    <2>5. busy' \in BOOLEAN
      BY <1>6 DEF Consumed
    <2>6. ClientOK'
      <3>1. Sound(rb_delete_block(P, b))
        BY <1>4, <2>1, DeleteSound
      <3>2. n(b) < b.size => Sound(munmap_prefix(P, b, n(b)))
        BY <1>4, <2>1, <2>3, PrefixSound
      <3>3. \E Q : Sound(Q) /\ Update(m.pid, Q)
        BY <1>6, <3>1, <3>2
      <3> QED BY <1>3, <1>4, <2>5, <3>3, UpdateOK DEF IInv
    <2>7. ChanOK'
      <3>1. CASE Consumed
        BY <1>2, <3>1 DEF ChanOK, Consumed
      <3>2. CASE n(b) > b.size /\ chan' = [chan EXCEPT ![1] = r(b)]
        <4>1. r(b) \in Sendable
          BY <2>4, <3>2
        <4> QED BY <1>1, <3>2, <4>1, Received DEF IInv, ChanOK
      <3> QED BY <1>6, <3>1, <3>2
    <2>8. ProgramOK'
      BY <1>1, ProgramKept DEF IInv
    <2> QED BY <1>1, <2>6, <2>7, <2>8 DEF IInv, CmdsOK, TablesAgree
  <1> QED BY <1>5, <1>6 DEF HandleMunmap

\* process_duplicate.
LEMMA HandleForkOK == ASSUME IInv, HandleFork PROVE IInv'
  <1> DEFINE m == Head(chan)
             copy == proc[m.parent]
             old == IF proc[m.pid].known THEN proc[m.pid] ELSE process_new(TRUE, TRUE, FALSE)
             child == process_duplicate(old, copy)
  <1>1. /\ chan # <<>> /\ m.op = "fork" /\ Update(m.pid, child) /\ Consumed
        /\ UNCHANGED <<program, tracer, cmds, waiting, opt>>
    BY DEF HandleFork, Receive
  <1>2. m \in Sendable /\ Tail(chan) \in Seq(Sendable) /\ Len(Tail(chan)) <= MaxChan
    BY <1>1, Received DEF IInv
  <1>3. m.pid \in Procs /\ m.parent \in Procs
    BY <1>1, <1>2, MessageFields
  <1>4. Sound(copy) /\ Sound(old)
    BY <1>3, NewSound DEF IInv, ClientOK
  <1>5. failed' = failed
          \cup (IF ResetFails(old) THEN {"process_reset"} ELSE {})
          \cup (IF copy.bytes_used # child.bytes_used THEN {"process.c:910"} ELSE {})
          \cup (IF copy.n_allocations # child.n_allocations THEN {"process.c:911"} ELSE {})
    BY DEF HandleFork
  <1> HIDE DEF m, copy, old
  <1>6. Sound(child) /\ child.n_allocations = copy.n_allocations /\ ~ResetFails(old)
    BY <1>4, DuplicateSound, ResetSound
  <1> HIDE DEF child
  <1>7. TablesAgree'
    BY <1>5, <1>6 DEF IInv, TablesAgree
  <1>8. busy' \in BOOLEAN /\ waiting' \subseteq Procs
    BY <1>1 DEF IInv, ClientOK, Consumed
  <1>9. ClientOK'
    BY <1>1, <1>3, <1>6, <1>8, UpdateOK DEF IInv
  <1>10. ProgramOK'
    BY <1>1, ProgramKept DEF IInv
  <1> QED BY <1>1, <1>2, <1>7, <1>9, <1>10 DEF IInv, CmdsOK, ChanOK, Consumed

\* process_exit.
LEMMA HandleExitOK == ASSUME IInv, HandleExit PROVE IInv'
  <1> DEFINE p == Head(chan).pid
  <1>1. /\ chan # <<>> /\ Consumed /\ UNCHANGED <<program, tracer, cmds, waiting, opt>>
    BY DEF HandleExit, Receive
  <1>2. Head(chan) \in Sendable /\ Tail(chan) \in Seq(Sendable) /\ Len(Tail(chan)) <= MaxChan
    BY <1>1, Received DEF IInv
  <1>3. p \in Procs
    BY <1>2, MessageFields
  <1>4. busy' \in BOOLEAN /\ waiting' \subseteq Procs
    BY <1>1 DEF IInv, ClientOK, Consumed
  <1>5. ~ResetFails(proc[p]) /\ Sound(process_new(FALSE, FALSE, FALSE))
    BY <1>3, NewSound, ResetSound DEF IInv, ClientOK
  <1>6. UNCHANGED failed /\ (UNCHANGED proc \/ Update(p, process_new(FALSE, FALSE, FALSE)))
    BY <1>5 DEF HandleExit
  <1> HIDE DEF p
  <1>7. ClientOK'
    <2>1. CASE UNCHANGED proc
      BY <1>4, <2>1 DEF IInv, ClientOK
    <2>2. CASE Update(p, process_new(FALSE, FALSE, FALSE))
      BY <1>3, <1>4, <1>5, <2>2, UpdateOK DEF IInv
    <2> QED BY <1>6, <2>1, <2>2
  <1>8. ProgramOK'
    BY <1>1, ProgramKept DEF IInv
  <1> QED BY <1>1, <1>2, <1>6, <1>7, <1>8 DEF IInv, CmdsOK, ChanOK, Consumed, TablesAgree

\* process_scan.
LEMMA HandleScanOK == ASSUME IInv, HandleScan PROVE IInv'
  <1> DEFINE m == Head(chan)
             Q == process_scan(proc[m.pid], m.leaks)
  <1>1. /\ chan # <<>> /\ Consumed /\ Update(m.pid, Q) /\ waiting' = {}
        /\ UNCHANGED <<program, tracer, cmds, failed, opt>>
    BY DEF HandleScan, Receive
  <1>2. m \in Sendable /\ Tail(chan) \in Seq(Sendable) /\ Len(Tail(chan)) <= MaxChan
    BY <1>1, Received DEF IInv
  <1>3. m.pid \in Procs
    BY <1>2, MessageFields
  <1>4. Sound(Q)
    BY <1>3, ScanSoundly DEF IInv, ClientOK
  <1>5. busy' \in BOOLEAN /\ waiting' \subseteq Procs
    BY <1>1 DEF Consumed
  <1> HIDE DEF m, Q
  <1>6. ClientOK'
    BY <1>1, <1>3, <1>4, <1>5, UpdateOK DEF IInv
  <1>7. ProgramOK'
    BY <1>1, ProgramKept DEF IInv
  <1> QED BY <1>1, <1>2, <1>6, <1>7 DEF IInv, CmdsOK, ChanOK, Consumed, TablesAgree

\* The connection is closed.
LEMMA HandleCloseOK == ASSUME IInv, HandleClose PROVE IInv'
  <1>1. waiting' = {} /\ UNCHANGED <<program, tracer, chan, cmds, proc, busy, failed, opt>>
    BY DEF HandleClose
  <1>2. ProgramOK'
    BY <1>1, ProgramKept DEF IInv
  <1> QED BY <1>1, <1>2 DEF IInv, ChanOK, CmdsOK, ClientOK, TablesAgree

-----------------------------------------------------------------------------
(* The user and the server.                                                *)

\* A command is sent.
LEMMA SentOK == ASSUME CmdsOK, NEW c \in Command, Sent(c) PROVE CmdsOK'
  <1>1. Append(cmds, c) \in Seq(Command) /\ Len(Append(cmds, c)) = Len(cmds) + 1 /\ Len(cmds) \in Nat
    BY Queued DEF CmdsOK
  <1> QED BY <1>1, ProgramAssumption DEF CmdsOK, Sent

\* do_reset and do_start: neither is fatal.
LEMMA ResetOK ==
  ASSUME IInv, NEW p \in Procs, NEW R, Sound(R), Update(p, R), ResetCheck(proc[p]),
         CmdsOK', UNCHANGED <<program, tracer, chan, busy, waiting, opt>>
  PROVE  IInv'
  <1>1. reset_allocations(proc[p]).n_allocations = 0
    BY ResetSound DEF IInv, ClientOK
  <1>2. UNCHANGED failed
    BY <1>1 DEF ResetCheck
  <1>3. busy' \in BOOLEAN /\ waiting' \subseteq Procs
    BY DEF IInv, ClientOK
  <1>4. ClientOK'
    BY <1>3, UpdateOK DEF IInv
  <1>5. ProgramOK'
    BY ProgramKept DEF IInv
  <1> QED BY <1>2, <1>4, <1>5 DEF IInv, ChanOK, TablesAgree

\* The commands of the user.
LEMMA UserOK == ASSUME IInv, User PROVE IInv'
  <1>1. PICK p \in Procs : do_reset(p) \/ do_stop(p) \/ do_start(p) \/ \E mode \in opt.modes : do_scan(p, mode)
    BY DEF User
  <1> DEFINE P == proc[p]
             R == reset_allocations(P)
  <1>2. Sound(P) /\ Sound(R)
    BY ResetSound DEF IInv, ClientOK
  <1>3. CASE do_reset(p)
    <2>1. Sound([R EXCEPT !.attached = TRUE])
      <3> HIDE DEF R
      <3> QED BY <1>2, MarkSound
    <2>2. /\ Update(p, [R EXCEPT !.attached = TRUE]) /\ ResetCheck(proc[p])
          /\ UNCHANGED <<program, tracer, chan, cmds, busy, waiting, opt>>
      BY <1>3 DEF do_reset
    <2>3. CmdsOK'
      BY <2>2 DEF IInv, CmdsOK
    <2> HIDE DEF R
    <2> QED BY <2>1, <2>2, <2>3, ResetOK
  <1>4. CASE do_start(p)
    <2>1. Sound([R EXCEPT !.tracing = TRUE, !.attached = TRUE])
      <3> HIDE DEF R
      <3> QED BY <1>2, MarkSound
    <2>2. /\ Update(p, [R EXCEPT !.tracing = TRUE, !.attached = TRUE]) /\ ResetCheck(proc[p])
          /\ Sent([op |-> "start", pid |-> p])
          /\ UNCHANGED <<program, tracer, chan, busy, waiting, opt>>
      BY <1>4 DEF do_start
    <2>3. [op |-> "start", pid |-> p] \in Command
      BY DEF Command
    <2>4. CmdsOK'
      BY <2>2, <2>3, SentOK DEF IInv
    <2> HIDE DEF R
    <2> QED BY <2>1, <2>2, <2>4, ResetOK
  <1>5. CASE do_stop(p)
    <2>1. Sound([P EXCEPT !.tracing = FALSE])
      <3> HIDE DEF P
      <3> QED BY <1>2, MarkSound
    <2>2. /\ Update(p, [P EXCEPT !.tracing = FALSE]) /\ Sent([op |-> "stop", pid |-> p])
          /\ UNCHANGED <<program, tracer, chan, busy, waiting, failed, opt>>
      BY <1>5 DEF do_stop
    <2>3. [op |-> "stop", pid |-> p] \in Command
      BY DEF Command
    <2>4. CmdsOK'
      BY <2>2, <2>3, SentOK DEF IInv
    <2>5. busy' \in BOOLEAN /\ waiting' \subseteq Procs
      BY <2>2 DEF IInv, ClientOK
    <2> HIDE DEF P
    <2>6. ClientOK'
      BY <2>1, <2>2, <2>5, UpdateOK DEF IInv
    <2>7. ProgramOK'
      BY <2>2, ProgramKept DEF IInv
    <2> QED BY <2>2, <2>4, <2>6, <2>7 DEF IInv, ChanOK, TablesAgree
  <1>6. ASSUME NEW mode \in opt.modes, do_scan(p, mode) PROVE IInv'
    <2> DEFINE c == [op |-> "scan", pid |-> p, blocks |-> Starts(ScanSet(P, mode))]
    <2>1. mode \in {"all", "new", "leak"}
      BY DEF IInv, Scenario
    <2>2. Sound(leaks_scan(P, mode)) /\ ScanSet(P, mode) \in SUBSET P.blocks
      BY <1>2, <2>1, LeaksScanSound
    <2>3. P.blocks \in SUBSET Block
      BY <1>2, Fields DEF Sound
    <2>4. Starts(ScanSet(P, mode)) \in SUBSET Nat
      BY <2>2, <2>3 DEF Starts, Block
    <2>5. c \in Command
      BY <2>4 DEF Command
    <2> HIDE DEF c
    <2>6. /\ waiting' = {p} /\ UNCHANGED <<program, tracer, chan, busy, failed, opt>>
          /\ \/ Sent(c) /\ Update(p, leaks_scan(P, mode))
             \/ UNCHANGED <<cmds, proc>>
      BY <1>6 DEF do_scan, c
    <2>7. CmdsOK'
      <3>1. CASE Sent(c)
        BY <2>5, <3>1, SentOK DEF IInv
      <3>2. CASE UNCHANGED <<cmds, proc>>
        BY <3>2 DEF IInv, CmdsOK
      <3> QED BY <2>6, <3>1, <3>2
    <2>8. busy' \in BOOLEAN /\ waiting' \subseteq Procs
      BY <2>6 DEF IInv, ClientOK
    <2>9. ClientOK'
      <3>1. CASE Update(p, leaks_scan(P, mode))
        <4> HIDE DEF P
        <4> QED BY <2>2, <2>8, <3>1, UpdateOK DEF IInv
      <3>2. CASE UNCHANGED <<cmds, proc>>
        BY <2>8, <3>2 DEF IInv, ClientOK
      <3> QED BY <2>6, <3>1, <3>2
    <2>10. ProgramOK'
      BY <2>6, ProgramKept DEF IInv
    <2> QED BY <2>6, <2>7, <2>9, <2>10 DEF IInv, ChanOK, TablesAgree
  <1> QED BY <1>1, <1>3, <1>4, <1>5, <1>6

\* A command is read.
LEMMA CommandRead ==
  ASSUME CmdsOK, cmds # <<>>, cmds' = Tail(cmds)
  PROVE  CmdsOK' /\ Head(cmds) \in Command /\ Head(cmds).pid \in Procs
  <1>1. Head(cmds) \in Command /\ Tail(cmds) \in Seq(Command) /\ Len(Tail(cmds)) <= MaxCmds
    BY Queued, ProgramAssumption DEF CmdsOK
  <1>2. Head(cmds).pid \in Procs
    BY <1>1 DEF Command
  <1> QED BY <1>1, <1>2 DEF CmdsOK

\* Nothing of the client changes.
LEMMA ClientKept == ASSUME ClientOK, UNCHANGED client PROVE ClientOK'
  BY DEF ClientOK, client

\* The commands of the server.
LEMMA ServerOK == ASSUME IInv, Server PROVE IInv'
  <1> DEFINE p == Head(cmds).pid
  <1>1. cmds # <<>> /\ cmds' = Tail(cmds) /\ UNCHANGED <<client, failed, opt>>
    BY DEF Server, CommandNoTask, start_trace, stop_trace, scan, Commanded
  <1>2. CmdsOK' /\ Head(cmds) \in Command /\ p \in Procs
    BY <1>1, CommandRead DEF IInv
  <1>3. ClientOK'
    BY <1>1, ClientKept DEF IInv
  <1>4. ProgramOK' /\ ChanOK'
    <2>1. CASE CommandNoTask
      <3>1. UNCHANGED <<program, tracer, chan>>
        BY <2>1 DEF CommandNoTask
      <3> QED BY <3>1, ProgramKept DEF IInv, ChanOK
    <2>2. CASE start_trace
      <3>1. traced' = [traced EXCEPT ![p] = TRUE] /\ UNCHANGED <<program, in_realloc, chan>>
        BY <2>2 DEF start_trace
      <3>2. traced' \in [Procs -> BOOLEAN]
        BY <3>1, Zenon DEF IInv, ProgramOK
      <3> QED BY <3>1, <3>2 DEF IInv, ProgramOK, ChanOK, program, Extent
    <2>3. CASE stop_trace
      <3>1. /\ traced' = [traced EXCEPT ![p] = FALSE]
            /\ call' = [t \in Threads |-> IF Owner[t] = p THEN [call[t] EXCEPT !.watched = FALSE] ELSE call[t]]
            /\ UNCHANGED <<heap, alive, in_realloc, chan>>
        BY <2>3 DEF stop_trace
      <3>2. traced' \in [Procs -> BOOLEAN]
        BY <3>1, Zenon DEF IInv, ProgramOK
      <3>3. call' \in [Threads -> Call]
        BY <3>1, CallIs DEF IInv, ProgramOK
      <3> QED BY <3>1, <3>2, <3>3 DEF IInv, ProgramOK, ChanOK, Extent
    <2>4. CASE scan
      <3> DEFINE A == Head(cmds).blocks
                 lost == A \cap Starts({c \in heap[p] : c.lost})
      <3>1. PICK X \in SUBSET A : chan' = Append(chan, [op |-> "scan", pid |-> p, leaks |-> lost \cup X])
        BY <2>4 DEF scan
      <3>2. Head(cmds).op = "scan" /\ Len(chan) < MaxChan /\ UNCHANGED <<program, tracer>>
        BY <2>4 DEF scan, Commanded
      <3>3. A \in SUBSET Nat
        BY <1>2, <3>2 DEF Command
      <3>4. lost \cup X \in SUBSET Nat
        BY <3>1, <3>3
      <3> HIDE DEF lost, p
      <3>5. [op |-> "scan", pid |-> p, leaks |-> lost \cup X] \in Sendable
        BY <1>2, <3>4 DEF Sendable, Message
      <3>6. ChanOK'
        BY <3>1, <3>2, <3>5, Queued, ProgramAssumption DEF IInv, ChanOK
      <3> QED BY <3>2, <3>6, ProgramKept DEF IInv
    <2> QED BY <2>1, <2>2, <2>3, <2>4 DEF Server
  <1> QED BY <1>1, <1>2, <1>3, <1>4 DEF IInv, TablesAgree

-----------------------------------------------------------------------------
(* The theorems.                                                           *)

\* The steps of the program.
LEMMA ProgramStepOK == ASSUME IInv, Program PROVE IInv'
  <1>1. PICK t \in Threads :
          \/ \E fn \in Calls, a \in Addrs \cup {0}, n \in Addrs \cup {0} : Enter(t, fn, a, n)
          \/ ExecAlloc(t) \/ ExecFree(t) \/ ExecUnmap(t) \/ ExecFail(t) \/ Leave(t)
          \/ \E q \in Procs : ExecFork(t, q)
          \/ LeaveFork(t)
          \/ \E c \in heap[Owner[t]] : Lose(Owner[t], c)
          \/ Exit(Owner[t])
    BY DEF Program
  <1>2. Owner[t] \in Procs
    BY OwnerIs DEF IInv
  <1>3. /\ ProgramOK' /\ ChanOK' /\ TablesAgree' /\ UNCHANGED <<cmds, proc, busy, waiting, opt>>
    <2>1. CASE \E fn \in Calls, a \in Addrs \cup {0}, n \in Addrs \cup {0} : Enter(t, fn, a, n)
      BY <2>1, EnterOK DEF IInv
    <2>2. CASE ProgramOK' /\ UNCHANGED <<chan, cmds, proc, busy, waiting, failed, opt>>
      BY <2>2 DEF IInv, ChanOK, TablesAgree
    <2>3. CASE ProgramOK' /\ ChanOK' /\ UNCHANGED <<cmds, proc, busy, waiting, failed, opt>>
      BY <2>3 DEF IInv, TablesAgree
    <2>4. CASE ExecAlloc(t) \/ ExecFree(t) \/ ExecUnmap(t) \/ ExecFail(t)
      BY <2>2, <2>4, ExecAllocOK, ExecFreeOK, ExecUnmapOK, ExecFailOK DEF IInv
    <2>5. CASE \E q \in Procs : ExecFork(t, q)
      BY <2>2, <2>5, ExecForkOK DEF IInv
    <2>6. CASE \E c \in heap[Owner[t]] : Lose(Owner[t], c)
      BY <1>2, <2>2, <2>6, LoseOK DEF IInv
    <2>7. CASE Leave(t)
      BY <2>3, <2>7, LeaveOK DEF IInv
    <2>8. CASE LeaveFork(t)
      BY <2>3, <2>8, LeaveForkOK DEF IInv
    <2>9. CASE Exit(Owner[t])
      BY <1>2, <2>3, <2>9, ExitOK DEF IInv
    <2> QED BY <1>1, <2>1, <2>4, <2>5, <2>6, <2>7, <2>8, <2>9
  <1>4. ClientOK' /\ CmdsOK'
    BY <1>3, ClientKept DEF IInv, CmdsOK, client
  <1> QED BY <1>3, <1>4 DEF IInv

\* The invariant holds at the start.
LEMMA InitInv == ASSUME Init PROVE IInv
  <1>1. ProgramOK
    BY NoCallIs DEF Init, ProgramOK
  <1>2. ChanOK /\ CmdsOK
    <2>1. <<>> \in Seq(Sendable) /\ <<>> \in Seq(Command) /\ Len(<<>>) = 0
      BY Short
    <2> QED BY <2>1, ProgramAssumption DEF Init, ChanOK, CmdsOK
  <1>3. ClientOK
    <2>1. \A p \in Procs : Sound(process_new(p = First, p = First, FALSE))
      BY NewSound
    <2>2. \A p \in Procs : proc[p] = process_new(p = First, p = First, FALSE)
      BY DEF Init
    <2>3. \A p \in Procs : Sound(proc[p]) /\ proc[p] \in Process
      BY <2>1, <2>2 DEF Sound
    <2>4. proc = [p \in Procs |-> proc[p]]
      BY DEF Init
    <2> QED BY <2>3, <2>4 DEF Init, ClientOK
  <1> QED BY <1>1, <1>2, <1>3, ProgramAssumption DEF Init, IInv, TablesAgree

\* Every step keeps the invariant.
LEMMA NextInv == ASSUME IInv, [Next]_vars PROVE IInv'
  <1>1. CASE UNCHANGED vars
    BY <1>1 DEF vars, IInv, ProgramOK, Extent, ChanOK, CmdsOK, ClientOK, TablesAgree
  <1>2. CASE Program
    BY <1>2, ProgramStepOK
  <1>3. CASE Client
    BY <1>3, IgnoreOK, HandleAllocOK, HandleFreeOK, HandleDoneOK, HandleMunmapOK, HandleForkOK,
       HandleExitOK, HandleScanOK, HandleCloseOK DEF Client
  <1>4. CASE User
    BY <1>4, UserOK
  <1>5. CASE Server
    BY <1>5, ServerOK
  <1> QED BY <1>1, <1>2, <1>3, <1>4, <1>5 DEF Next, Ended

\* The inductive invariant: the types, chunks inside the address space, messages
\* that carry what their handlers need, and sound tables of every process.
THEOREM Invariance == Spec => []IInv
  BY InitInv, NextInv, PTL DEF Spec

\* TypeOK: what the program does and what the reports carry keeps the client's
\* records typed across every message, of whatever process.
THEOREM TypeCorrect == Spec => []TypeOK
  <1>1. IInv => TypeOK
    <2> SUFFICES ASSUME IInv PROVE TypeOK
      OBVIOUS
    <2>1. chan \in Seq(Message)
      BY DEF IInv, ChanOK, Sendable
    <2> QED BY <2>1 DEF IInv, ProgramOK, ChanOK, CmdsOK, ClientOK, TablesAgree, TypeOK
  <1> QED BY <1>1, Invariance, PTL

\* RefCounts: across allocations, frees, reallocs that succeed, fail or are cut
\* short, unmaps, scans, resets, forks and exits, a call stack has exactly the
\* references of the tree, its blocks and its reallocs (stack_get, stack_put).
THEOREM ReferencesCounted == Spec => []RefCounts
  <1>1. IInv => RefCounts
    BY DEF IInv, ClientOK, Sound, Referenced, Users, RefCounts
  <1> QED BY <1>1, Invariance, PTL

\* TablesAgree: no reset and no fork finds the count of allocations or the
\* references of a process wrong (the fatal()s of process_reset and
\* process_reset_allocations, the assert of process.c:911).
THEOREM NoFatalReset == Spec => []TablesAgree
  <1>1. IInv => TablesAgree
    BY DEF IInv
  <1> QED BY <1>1, Invariance, PTL

-----------------------------------------------------------------------------
(* The counters and the asserts.  They are right where the code corrects   *)
(* them, so each is proved for the scenarios that keep clear of the paths  *)
(* where it does not: a failed realloc, whose block comes back uncounted,  *)
(* the clone of a call stack by a fork, a reset of the process but not of  *)
(* its call stacks, a stop in the middle of a realloc, a block larger than *)
(* an unsigned int counts.                                                 *)

\* Tracing is never stopped; every realloc of a block succeeds; no block is ever
\* scanned; nothing but frees takes from the counters of a call stack.
Tracked == "stop" \notin Ops
Succeeding == Tracked /\ "realloc0" \notin Ops /\ "realloc" \notin opt.fails
Unscanned == "scan" \notin Ops
\* No block is as large as what an unsigned int counts.
Narrow == \A n \in opt.sizes : n < UIntMod
Plain == Ops \cap {"fork", "reset", "start"} = {} /\ (Unscanned \/ Succeeding)

\* What the calls in progress, the messages and the commands bring.
CallsInv ==
  \A t \in Threads :
    /\ call[t].fn = "fork" => "fork" \in Ops
    /\ Narrow /\ call[t].fn # "munmap" => call[t].size < UIntMod
    /\ Tracked /\ in_realloc[t] => call[t].fn = "realloc" /\ call[t].watched
    /\ Succeeding /\ in_realloc[t] =>
         IF call[t].st = "entered" THEN call[t].addr # 0 /\ call[t].size # 0 ELSE call[t].ret # 0
Expected == {m \in Sendable : /\ Succeeding /\ m.op = "done" => m.addr # 0
                              /\ Narrow /\ m.op \in {"malloc", "realloc", "mmap"} => m.size < UIntMod
                              /\ m.op = "scan" => "scan" \in Ops
                              /\ m.op = "fork" => "fork" \in Ops}
Asked == {c \in Command : c.op \in Ops}
ChanInv == chan \in Seq(Expected) /\ cmds \in Seq(Asked)

\* No block is flagged as leaked, on its way through a realloc or not.
Unflagged(P) ==
  Leaked(P.blocks) = {} /\ \A i \in DOMAIN P.realloc_list : "leaked" \notin P.realloc_list[i].flags
\* The counters of a table are right, each under the scenarios that keep it so.
Tabled(P) ==
  /\ Unscanned => Unflagged(P)
  /\ Narrow => Fits(P)
  /\ Narrow /\ Succeeding => Weighed(P)
  /\ Narrow /\ Succeeding /\ (Unscanned \/ "fork" \notin Ops) => LeaksCounted(P)
  /\ Narrow /\ Plain => StackCounted(P)
TablesInv == \A p \in Procs : Tabled(proc[p])
\* No assert but that of stack_add (MirrorProofs) fails while tracing is never
\* stopped and a fork meets no lost bytes.
Asserted == Tracked /\ ("fork" \in Ops => Succeeding /\ Narrow) => failed \subseteq {"process.c:503"}

CInv == CallsInv /\ ChanInv /\ TablesInv /\ Asserted

\* The scenario never changes, nor what depends on it only.
LEMMA ScenarioKept ==
  ASSUME UNCHANGED opt
  PROVE  /\ Ops' = Ops /\ Tracked' = Tracked /\ Succeeding' = Succeeding
         /\ Unscanned' = Unscanned /\ Plain' = Plain /\ Narrow' = Narrow
         /\ Expected' = Expected /\ Asked' = Asked
  BY DEF Ops, Tracked, Succeeding, Unscanned, Plain, Narrow, Expected, Asked

\* Tables that a step does not touch.
LEMMA TablesKept == ASSUME TablesInv, UNCHANGED <<proc, opt>> PROVE TablesInv'
  BY ScenarioKept DEF TablesInv, Tabled

\* A table that a step replaces.
LEMMA TablesUpdated ==
  ASSUME IInv, TablesInv, UNCHANGED opt, NEW p \in Procs, NEW Q, Update(p, Q), Tabled(Q)
  PROVE  TablesInv'
  <1>1. \A q \in Procs : proc'[q] = IF q = p THEN Q ELSE proc[q]
    BY DEF IInv, ClientOK, Update
  <1>2. ASSUME NEW q \in Procs PROVE Tabled(proc'[q])
    BY <1>1 DEF TablesInv
  <1> QED BY <1>2, ScenarioKept DEF TablesInv, Tabled

\* A handler that counts right keeps a table right.
LEMMA KeepsTabled ==
  ASSUME NEW P, Tabled(P), NEW Q, Narrow => Keeps(P, Q) /\ Fits(Q),
         Unflagged(P) => Unflagged(Q)
  PROVE  Tabled(Q)
  BY DEF Tabled, Keeps

-----------------------------------------------------------------------------

\* Calls that a step does not touch.
LEMMA CallsKept == ASSUME CallsInv, UNCHANGED <<call, in_realloc, opt>> PROVE CallsInv'
  BY ScenarioKept DEF CallsInv

\* Messages and commands that a step does not touch.
LEMMA ChanKept == ASSUME ChanInv, UNCHANGED <<chan, cmds, opt>> PROVE ChanInv'
  BY ScenarioKept DEF ChanInv

\* Asserts that a step does not touch.
LEMMA AssertsKept == ASSUME Asserted, UNCHANGED <<failed, opt>> PROVE Asserted'
  BY ScenarioKept DEF Asserted

\* A call that takes effect: a realloc the tracer waits for does not return NULL.
LEMMA ReturnsCounted ==
  ASSUME IInv, CInv, NEW t \in Threads, NEW H, NEW r, Returns(t, H, r),
         Succeeding /\ in_realloc[t] => r # 0
  PROVE  CInv'
  <1>1. /\ UNCHANGED <<in_realloc, chan, cmds, proc, failed, opt>>
        /\ \A u \in Threads : u # t => call'[u] = call[u]
        /\ call'[t].fn = call[t].fn /\ call'[t].size = call[t].size /\ call'[t].watched = call[t].watched
        /\ call'[t].st = "done" /\ call'[t].ret = r
    <2> DEFINE a == IF H = heap[Owner[t]] THEN call[t].addr ELSE 0
               c == call[t]
               d == [c EXCEPT !.st = "done", !.ret = r, !.addr = a]
    <2>1. call' = [call EXCEPT ![t] = d]
          /\ UNCHANGED <<in_realloc, chan, cmds, proc, failed, opt>>
      BY DEF Returns, tracer, client
    <2>2. c \in Call /\ call \in [Threads -> Call]
      BY DEF IInv, ProgramOK
    <2> HIDE DEF a, c
    <2>3. d.fn = c.fn /\ d.size = c.size /\ d.watched = c.watched /\ d.st = "done" /\ d.ret = r
      BY <2>2 DEF Call
    <2> HIDE DEF d
    <2> QED BY <2>1, <2>2, <2>3 DEF c
  <1>2. CallsInv'
    BY <1>1, ScenarioKept DEF CInv, CallsInv
  <1> QED BY <1>1, <1>2, ChanKept, TablesKept, AssertsKept DEF CInv

\* The calls that take effect.
LEMMA ExecCounted ==
  ASSUME IInv, CInv, NEW t \in Threads,
         ExecAlloc(t) \/ ExecFree(t) \/ ExecUnmap(t) \/ ExecFail(t) \/ \E q \in Procs : ExecFork(t, q)
  PROVE  CInv'
  <1> DEFINE c == call[t]
  <1>1. /\ Tracked /\ in_realloc[t] => c.fn = "realloc"
        /\ Succeeding /\ in_realloc[t] /\ c.st = "entered" => c.fn = "realloc" /\ c.addr # 0 /\ c.size # 0
    BY DEF CInv, CallsInv, Succeeding
  <1>2. CASE ExecAlloc(t)
    <2>1. PICK r \in Addrs : \E H : Returns(t, H, r)
      BY <1>2 DEF ExecAlloc
    <2>2. PICK H : Returns(t, H, r)
      BY <2>1
    <2>3. r # 0
      BY AddrsAre
    <2> QED BY <2>2, <2>3, ReturnsCounted
  <1>3. CASE ExecFree(t)
    <2>1. PICK H : Returns(t, H, 0)
      BY <1>3 DEF ExecFree
    <2>2. ~(Succeeding /\ in_realloc[t])
      BY <1>1, <1>3 DEF ExecFree, Entered
    <2> QED BY <2>1, <2>2, ReturnsCounted
  <1>4. CASE ExecUnmap(t)
    <2>1. PICK H : Returns(t, H, 0)
      BY <1>4 DEF ExecUnmap
    <2>2. ~(Succeeding /\ in_realloc[t])
      BY <1>1, <1>4 DEF ExecUnmap, Entered
    <2> QED BY <2>1, <2>2, ReturnsCounted
  <1>5. CASE ExecFail(t)
    <2>1. PICK r : Returns(t, heap[Owner[t]], r)
      BY <1>5 DEF ExecFail
    <2>2. ~(Succeeding /\ in_realloc[t])
      BY <1>1, <1>5 DEF ExecFail, Entered, Succeeding
    <2> QED BY <2>1, <2>2, ReturnsCounted
  <1>6. ASSUME NEW q \in Procs, ExecFork(t, q) PROVE CInv'
    <2> DEFINE d == [c EXCEPT !.st = "done", !.child = q]
    <2>1. /\ c.fn = "fork" /\ c.st = "entered" /\ call' = [call EXCEPT ![t] = d]
          /\ UNCHANGED <<in_realloc, chan, cmds, proc, failed, opt>>
      BY <1>6 DEF ExecFork, Entered, tracer, client
    <2>2. c \in Call /\ call \in [Threads -> Call]
      BY DEF IInv, ProgramOK
    <2>3. d.fn = "fork" /\ d.size = c.size
      <3> HIDE DEF c
      <3> QED BY <2>1, <2>2 DEF Call
    <2>4. "fork" \in Ops /\ ~(Tracked /\ in_realloc[t]) /\ (Narrow => c.size < UIntMod)
      BY <1>1, <2>1 DEF CInv, CallsInv
    <2> HIDE DEF d, c
    <2>5. \A u \in Threads : call'[u] = IF u = t THEN d ELSE call[u]
      BY <2>1, <2>2
    <2>6. CallsInv'
      BY <2>1, <2>3, <2>4, <2>5, ScenarioKept DEF CInv, CallsInv, Succeeding
    <2> QED BY <2>1, <2>6, ChanKept, TablesKept, AssertsKept DEF CInv
  <1> QED BY <1>2, <1>3, <1>4, <1>5, <1>6

\* A thread enters a call: one that is in no call is in no realloc either, so
\* the assert of report.c:228 holds.
LEMMA EnterCounted ==
  ASSUME IInv, CInv, NEW t \in Threads, NEW fn \in Calls,
         NEW a \in Addrs \cup {0}, NEW n \in Addrs \cup {0}, Enter(t, fn, a, n)
  PROVE  CInv'
  <1> DEFINE p == Owner[t]
             realloc == traced[p] /\ fn = "realloc"
             c == [fn |-> fn, st |-> "entered", addr |-> a, size |-> n, ret |-> 0,
                   watched |-> traced[p], child |-> First]
  <1>1. /\ fn \in Ops /\ call[t] = NoCall /\ Legal(p, fn, a, n) /\ call' = [call EXCEPT ![t] = c]
        /\ chan' = IF traced[p] THEN chan \o EntryReport(t, p, fn, a, n) ELSE chan
        /\ in_realloc' = [in_realloc EXCEPT ![t] = @ \/ (realloc /\ a # 0)]
        /\ failed' = IF realloc /\ in_realloc[t] THEN failed \cup {"report.c:228"} ELSE failed
        /\ UNCHANGED <<cmds, proc, opt>>
    BY DEF Enter, client
  <1>2. p \in Procs /\ a \in Nat /\ n \in Nat
    BY OwnerIs, AddrsAre DEF IInv
  <1>3. call \in [Threads -> Call] /\ in_realloc \in [Threads -> BOOLEAN]
    BY DEF IInv, ProgramOK
  <1>4. ~(Tracked /\ in_realloc[t])
    BY <1>1 DEF CInv, CallsInv, NoCall
  <1>5. fn = "realloc" /\ a # 0 /\ Succeeding => n # 0
    BY <1>1 DEF Legal, Succeeding
  <1>n. Narrow /\ fn # "munmap" => n < UIntMod
    <2>1. fn # "munmap" => n \in opt.sizes \/ n = 0
      BY <1>1 DEF Legal, Calls
    <2> QED BY <2>1, TableAssumption DEF Narrow
  <1>6. CallsInv'
    <2>1. /\ \A u \in Threads : call'[u] = IF u = t THEN c ELSE call[u]
          /\ \A u \in Threads : in_realloc'[u] = IF u = t THEN in_realloc[t] \/ (realloc /\ a # 0) ELSE in_realloc[u]
      BY <1>1, <1>3
    <2>2. c.fn = fn /\ c.st = "entered" /\ c.addr = a /\ c.size = n /\ c.watched = traced[p]
      OBVIOUS
    <2> HIDE DEF c, p
    <2>3. ASSUME NEW u \in Threads
          PROVE  /\ call'[u].fn = "fork" => "fork" \in Ops
                 /\ Narrow /\ call'[u].fn # "munmap" => call'[u].size < UIntMod
                 /\ Tracked /\ in_realloc'[u] => call'[u].fn = "realloc" /\ call'[u].watched
                 /\ Succeeding /\ in_realloc'[u] =>
                      IF call'[u].st = "entered" THEN call'[u].addr # 0 /\ call'[u].size # 0 ELSE call'[u].ret # 0
      <3>1. CASE u = t
        BY <1>1, <1>n, <1>4, <1>5, <2>1, <2>2, <3>1 DEF Succeeding
      <3>2. CASE u # t
        BY <2>1, <3>2 DEF CInv, CallsInv
      <3> QED BY <3>1, <3>2
    <2> QED BY <1>1, <2>3, ScenarioKept DEF CallsInv
  <1>7. EntryReport(t, p, fn, a, n) \in Seq(Expected)
    <2>1. \A m \in Sendable : m.op \in {"free", "enter", "munmap"} => m \in Expected
      BY DEF Expected
    <2> HIDE DEF p
    <2> QED BY <1>1, <1>2, <2>1, EntryReportIn DEF IInv
  <1>8. ChanInv'
    <2> HIDE DEF p
    <2>1. chan' \in Seq(Expected)
      BY <1>1, <1>7, Queued DEF CInv, ChanInv
    <2> QED BY <1>1, <2>1, ScenarioKept DEF CInv, ChanInv
  <1>9. Asserted'
    BY <1>1, <1>4, ScenarioKept DEF CInv, Asserted
  <1> QED BY <1>1, <1>6, <1>8, <1>9, TablesKept DEF CInv

\* A thread leaves a call: the realloc whose end is reported has succeeded.
LEMMA LeaveCounted ==
  ASSUME IInv, CInv, NEW t \in Threads, Leave(t) PROVE CInv'
  <1> DEFINE c == call[t]
             d == [op |-> "done", pid |-> Owner[t], addr |-> c.ret, tid |-> t]
  <1>1. /\ c.st = "done" /\ call' = [call EXCEPT ![t] = NoCall]
        /\ chan' = IF c.watched THEN chan \o ReturnReport(t, c) ELSE chan
        /\ in_realloc' = [in_realloc EXCEPT ![t] = @ /\ ~(c.watched /\ c.fn = "realloc")]
        /\ UNCHANGED <<cmds, proc, failed, opt>>
    BY DEF Leave, client
  <1>2. call \in [Threads -> Call] /\ in_realloc \in [Threads -> BOOLEAN] /\ c \in Call
    BY DEF IInv, ProgramOK
  <1>3. CallsInv'
    <2>1. /\ \A u \in Threads : call'[u] = IF u = t THEN NoCall ELSE call[u]
          /\ \A u \in Threads : in_realloc'[u] = IF u = t THEN in_realloc[t] /\ ~(c.watched /\ c.fn = "realloc")
                                                         ELSE in_realloc[u]
      BY <1>1, <1>2
    <2>2. Tracked => ~in_realloc'[t]
      BY <2>1 DEF CInv, CallsInv
    <2>3. ASSUME NEW u \in Threads
          PROVE  /\ call'[u].fn = "fork" => "fork" \in Ops
                 /\ Narrow /\ call'[u].fn # "munmap" => call'[u].size < UIntMod
                 /\ Tracked /\ in_realloc'[u] => call'[u].fn = "realloc" /\ call'[u].watched
                 /\ Succeeding /\ in_realloc'[u] =>
                      IF call'[u].st = "entered" THEN call'[u].addr # 0 /\ call'[u].size # 0 ELSE call'[u].ret # 0
      <3>1. CASE u = t
        BY <2>1, <2>2, <3>1, TableAssumption DEF Succeeding, NoCall
      <3>2. CASE u # t
        BY <2>1, <3>2 DEF CInv, CallsInv
      <3> QED BY <3>1, <3>2
    <2> QED BY <1>1, <2>3, ScenarioKept DEF CallsInv
  <1>4. ReturnReport(t, c) \in Seq(Expected)
    <2>1. \A m \in Sendable : m.op \in {"malloc", "realloc", "mmap"} /\ m.size = c.size
                              /\ c.fn \notin {"none", "free", "munmap", "fork"} => m \in Expected
      <3>1. Narrow /\ c.fn # "munmap" => c.size < UIntMod
        BY DEF CInv, CallsInv
      <3> HIDE DEF c
      <3> QED BY <3>1 DEF Expected
    <2>2. in_realloc[t] => d \in Expected
      <3>1. d \in Sendable /\ d.op = "done" /\ d.addr = c.ret
        BY <1>2, OwnerIs, CallIs, MessageMade DEF IInv
      <3>2. Succeeding /\ in_realloc[t] => c.ret # 0
        BY <1>1 DEF CInv, CallsInv
      <3> HIDE DEF d, c
      <3> QED BY <3>1, <3>2 DEF Expected
    <2> HIDE DEF c
    <2> QED BY <1>2, <2>1, <2>2, ReturnReportIn DEF IInv
  <1>5. ChanInv'
    <2> HIDE DEF c
    <2>1. chan' \in Seq(Expected)
      BY <1>1, <1>4, Queued DEF CInv, ChanInv
    <2> QED BY <1>1, <2>1, ScenarioKept DEF CInv, ChanInv
  <1> QED BY <1>1, <1>3, <1>5, TablesKept, AssertsKept DEF CInv

\* The child of a fork runs.
LEMMA LeaveForkCounted ==
  ASSUME IInv, CInv, NEW t \in Threads, LeaveFork(t) PROVE CInv'
  <1> DEFINE m == [op |-> "fork", pid |-> call[t].child, parent |-> Owner[t]]
  <1>1. /\ call[t].fn = "fork" /\ call' = [call EXCEPT ![t] = NoCall] /\ chan' = Append(chan, m)
        /\ UNCHANGED <<in_realloc, cmds, proc, failed, opt>>
    BY DEF LeaveFork, client
  <1>2. "fork" \in Ops /\ ~(Tracked /\ in_realloc[t])
    BY <1>1 DEF CInv, CallsInv
  <1>3. \A u \in Threads : call'[u] = IF u = t THEN NoCall ELSE call[u]
    BY <1>1 DEF IInv, ProgramOK
  <1>4. CallsInv'
    BY <1>1, <1>2, <1>3, ScenarioKept, TableAssumption DEF CInv, CallsInv, Succeeding, NoCall
  <1>5. m \in Sendable
    BY OwnerIs, CallIs, MessageMade DEF IInv, ProgramOK
  <1>6. m \in Expected
    BY <1>2, <1>5 DEF Expected
  <1> HIDE DEF m
  <1>7. chan' \in Seq(Expected)
    BY <1>1, <1>6, Queued DEF CInv, ChanInv
  <1>8. ChanInv'
    BY <1>1, <1>7, ScenarioKept DEF CInv, ChanInv
  <1> QED BY <1>1, <1>4, <1>8, TablesKept, AssertsKept DEF CInv

\* A process ends, in the middle of its calls.
LEMMA ExitCounted ==
  ASSUME IInv, CInv, NEW p \in Procs, Exit(p) PROVE CInv'
  <1> DEFINE m == [op |-> "exit", pid |-> p]
  <1>1. /\ call' = [t \in Threads |-> IF Owner[t] = p THEN NoCall ELSE call[t]]
        /\ in_realloc' = [t \in Threads |-> Owner[t] # p /\ in_realloc[t]]
        /\ chan' = Append(chan, m)
        /\ UNCHANGED <<cmds, proc, failed, opt>>
    BY DEF Exit, client
  <1>2. CallsInv'
    <2>1. \A u \in Threads : \/ call'[u] = NoCall /\ ~in_realloc'[u]
                             \/ call'[u] = call[u] /\ (in_realloc'[u] => in_realloc[u])
      <3> TAKE u \in Threads
      <3>1. in_realloc[u] \in BOOLEAN
        BY DEF IInv, ProgramOK
      <3>2. call'[u] = (IF Owner[u] = p THEN NoCall ELSE call[u]) /\ in_realloc'[u] = (Owner[u] # p /\ in_realloc[u])
        BY <1>1, Zenon
      <3> QED BY <3>1, <3>2
    <2> QED BY <1>1, <2>1, ScenarioKept, TableAssumption DEF CInv, CallsInv, NoCall
  <1>3. m \in Sendable /\ m.op = "exit"
    BY DEF Sendable, Message
  <1> HIDE DEF m
  <1>4. m \in Expected
    BY <1>3 DEF Expected
  <1>5. chan' \in Seq(Expected)
    BY <1>1, <1>4, Queued DEF CInv, ChanInv
  <1>6. ChanInv'
    BY <1>1, <1>5, ScenarioKept DEF CInv, ChanInv
  <1> QED BY <1>1, <1>2, <1>6, TablesKept, AssertsKept DEF CInv

\* The steps of the program.
LEMMA ProgramCounted == ASSUME IInv, CInv, Program PROVE CInv'
  <1>1. PICK t \in Threads :
          \/ \E fn \in Calls, a \in Addrs \cup {0}, n \in Addrs \cup {0} : Enter(t, fn, a, n)
          \/ ExecAlloc(t) \/ ExecFree(t) \/ ExecUnmap(t) \/ ExecFail(t) \/ Leave(t)
          \/ \E q \in Procs : ExecFork(t, q)
          \/ LeaveFork(t)
          \/ \E c \in heap[Owner[t]] : Lose(Owner[t], c)
          \/ Exit(Owner[t])
    BY DEF Program
  <1>2. Owner[t] \in Procs
    BY OwnerIs DEF IInv
  <1>3. CASE \E c \in heap[Owner[t]] : Lose(Owner[t], c)
    <2>1. UNCHANGED <<call, in_realloc, chan, cmds, proc, failed, opt>>
      BY <1>3 DEF Lose, tracer, client
    <2> QED BY <2>1, CallsKept, ChanKept, TablesKept, AssertsKept DEF CInv
  <1> QED BY <1>1, <1>2, <1>3, EnterCounted, ExecCounted, LeaveCounted, LeaveForkCounted, ExitCounted

-----------------------------------------------------------------------------

\* A block goes.
LEMMA DeleteTabled ==
  ASSUME NEW P, Sound(P), Tabled(P), NEW b \in P.blocks PROVE Tabled(rb_delete_block(P, b))
  <1> DEFINE Q == rb_delete_block(P, b)
  <1>1. Q.blocks = P.blocks \ {b} /\ Q.realloc_list = P.realloc_list
    BY DeleteIs DEF Sound
  <1>2. Fits(P) => Keeps(P, Q) /\ Fits(Q)
    BY DeleteKeeps, HandlersFit DEF Fits
  <1> HIDE DEF Q
  <1>3. Unflagged(P) => Unflagged(Q)
    BY <1>1 DEF Unflagged, Leaked
  <1>4. Tabled(Q)
    BY <1>2, <1>3, KeepsTabled DEF Tabled
  <1> QED BY <1>4 DEF Q

\* A block comes.
LEMMA AllocTabled ==
  ASSUME NEW P, Sound(P), Tabled(P), NEW a \in Nat, NEW n \in Nat, NEW s \in Stacks,
         Narrow => n < UIntMod
  PROVE  Tabled(alloc_insert(P, a, n, s))
  <1> DEFINE Q == alloc_insert(P, a, n, s)
  <1>0. Q = alloc_insert(P, a, n, s)
    OBVIOUS
  <1>3. Keeps(P, Q)
    BY AllocKeeps
  <1>f. Narrow => Fits(Q)
    BY HandlersFit DEF Tabled
  <1> HIDE DEF Q
  <1>1. OneMore(P.blocks, Q.blocks, a, n, s, {})
    BY <1>0, AllocIs
  <1>2. Q.realloc_list = P.realloc_list
    BY <1>0, AllocIs
  <1>4. Unflagged(P) => Unflagged(Q)
    BY <1>1, <1>2 DEF Unflagged, Leaked, OneMore
  <1>5. Tabled(Q)
    BY <1>3, <1>f, <1>4, KeepsTabled
  <1> QED BY <1>5 DEF Q

\* An entry without the flag joins the reallocs.
LEMMA AppendUnflagged ==
  ASSUME NEW P, Sound(P), Unflagged(P), NEW e, "leaked" \notin e.flags
  PROVE  \A i \in DOMAIN Append(P.realloc_list, e) : "leaked" \notin Append(P.realloc_list, e)[i].flags
  <1> DEFINE L == P.realloc_list
  <1>1. L \in Seq(ReallocEntry) /\ \A i \in DOMAIN L : "leaked" \notin L[i].flags
    BY Fields DEF Sound, Unflagged
  <1> HIDE DEF L
  <1>2. \A i \in DOMAIN Append(L, e) : "leaked" \notin Append(L, e)[i].flags
    <2>1. DOMAIN Append(L, e) = 1..(Len(L) + 1) /\ DOMAIN L = 1..Len(L) /\ Len(L) \in Nat
      BY <1>1
    <2>2. \A i \in 1..(Len(L) + 1) : Append(L, e)[i] = IF i = Len(L) + 1 THEN e ELSE L[i]
      BY <1>1
    <2> QED BY <1>1, <2>1, <2>2
  <1> QED BY <1>2 DEF L

\* process_free.
LEMMA FreeTabled ==
  ASSUME NEW P, Sound(P), Tabled(P), NEW b \in P.blocks, NEW op, NEW tid,
         op = "enter" => tid \in Threads /\ b.addr # 0
  PROVE  Tabled(free_block(P, b, op, tid))
  <1> DEFINE Q == free_block(P, b, op, tid)
             e == EntryFor(b, tid)
  <1>1. /\ Q.blocks = P.blocks \ {b}
        /\ Q.realloc_list = IF op = "enter" THEN Append(P.realloc_list, e) ELSE P.realloc_list
    BY FreeIs
  <1>2. Fits(P) => Keeps(P, Q) /\ Fits(Q)
    BY FreeKeeps, FreesFit DEF Fits
  <1> HIDE DEF Q
  <1>3. ASSUME Unflagged(P) PROVE Unflagged(Q)
    <2>1. e.flags = b.flags /\ "leaked" \notin b.flags
      BY <1>3 DEF EntryFor, Unflagged, Leaked
    <2> HIDE DEF e
    <2>2. \A i \in DOMAIN Q.realloc_list : "leaked" \notin Q.realloc_list[i].flags
      <3>1. CASE op = "enter"
        BY <1>1, <1>3, <2>1, <3>1, AppendUnflagged
      <3>2. CASE op # "enter"
        BY <1>1, <1>3, <3>2 DEF Unflagged
      <3> QED BY <3>1, <3>2
    <2> QED BY <1>1, <1>3, <2>2 DEF Unflagged, Leaked
  <1>4. Tabled(Q)
    BY <1>2, <1>3, KeepsTabled DEF Tabled
  <1> QED BY <1>4 DEF Q

\* process_free of an unknown address.
LEMMA UnknownTabled ==
  ASSUME NEW P, Sound(P), Tabled(P), NEW op, NEW tid, op = "enter" => tid \in Threads
  PROVE  Tabled(free_unknown(P, op, tid))
  <1> DEFINE Q == free_unknown(P, op, tid)
             e == EntryForNone(tid)
  <1>1. /\ Q.blocks = P.blocks
        /\ Q.realloc_list = IF op = "enter" THEN Append(P.realloc_list, e) ELSE P.realloc_list
    BY UnknownIs
  <1>2. Keeps(P, Q) /\ (Fits(P) => Fits(Q))
    BY UnknownKeeps, FreesFit
  <1> HIDE DEF Q
  <1>3. ASSUME Unflagged(P) PROVE Unflagged(Q)
    <2>1. "leaked" \notin e.flags
      BY DEF EntryForNone
    <2> HIDE DEF e
    <2>2. \A i \in DOMAIN Q.realloc_list : "leaked" \notin Q.realloc_list[i].flags
      <3>1. CASE op = "enter"
        BY <1>1, <1>3, <2>1, <3>1, AppendUnflagged
      <3>2. CASE op # "enter"
        BY <1>1, <1>3, <3>2 DEF Unflagged
      <3> QED BY <3>1, <3>2
    <2> QED BY <1>1, <1>3, <2>2 DEF Unflagged
  <1>4. Tabled(Q)
    BY <1>2, <1>3, KeepsTabled DEF Tabled
  <1> QED BY <1>4 DEF Q

\* process_munmap of the first part of a block.
LEMMA PrefixTabled ==
  ASSUME NEW P, Sound(P), Tabled(P), NEW b \in P.blocks, NEW n \in Nat, n < b.size
  PROVE  Tabled(munmap_prefix(P, b, n))
  <1> DEFINE Q == munmap_prefix(P, b, n)
  <1>1. PICK c \in Block : c.flags = b.flags \ {"leaked"} /\ Q.blocks = (P.blocks \ {b}) \cup {c}
    BY PrefixIs
  <1>2. Q.realloc_list = P.realloc_list
    BY PrefixIs
  <1>3. Fits(P) => Keeps(P, Q) /\ Fits(Q)
    BY PrefixKeeps, HandlersFit DEF Fits
  <1> HIDE DEF Q
  <1>4. Unflagged(P) => Unflagged(Q)
    BY <1>1, <1>2 DEF Unflagged, Leaked
  <1>5. Tabled(Q)
    BY <1>3, <1>4, KeepsTabled DEF Tabled
  <1> QED BY <1>5 DEF Q

\* process_realloc_done: a block that comes back was not leaked, or does not come
\* back at all.
LEMMA DoneTabled ==
  ASSUME NEW P, Sound(P), Tabled(P), NEW i \in DOMAIN P.realloc_list, NEW a, Succeeding => a # 0
  PROVE  Tabled(realloc_done(P, a, i))
  <1> DEFINE Q == realloc_done(P, a, i)
             L == P.realloc_list
  <1>1. L \in Seq(ReallocEntry)
    BY Fields DEF Sound
  <1>2. /\ Q.realloc_list = Without(L, i)
        /\ Q.blocks = P.blocks \/ \E b \in Block : b.flags = L[i].flags /\ Q.blocks = P.blocks \cup {b}
    <2>1. /\ Q.realloc_list = Without(P.realloc_list, i)
          /\ ~(a = 0 /\ P.realloc_list[i].addr # 0) => Q.blocks = P.blocks
          /\ a = 0 /\ P.realloc_list[i].addr # 0 =>
               OneMore(P.blocks, Q.blocks, P.realloc_list[i].addr, P.realloc_list[i].size,
                       P.realloc_list[i].stack, P.realloc_list[i].flags)
      BY DoneIs
    <2> QED BY <2>1 DEF OneMore
  <1>3. /\ a # 0 => Keeps(P, Q)
        /\ "leaked" \notin L[i].flags => (StackCounted(P) => StackCounted(Q))
    BY DoneKeeps
  <1>f. Fits(P) => Fits(Q)
    BY DoneFits
  <1> HIDE DEF Q, L
  <1>4. ASSUME Unflagged(P) PROVE Unflagged(Q)
    <2>1. Leaked(Q.blocks) = {}
      BY <1>2, <1>4 DEF Unflagged, Leaked, L
    <2>2. ASSUME NEW j \in DOMAIN Without(L, i) PROVE "leaked" \notin Without(L, i)[j].flags
      <3>1. i \in DOMAIN L /\ Len(L) \in Nat /\ DOMAIN L = 1..Len(L)
        BY <1>1 DEF L
      <3>2. j \in 1..(Len(L) - 1) /\ Without(L, i)[j] = L[IF j < i THEN j ELSE j + 1]
        BY <1>1, <2>2, <3>1, WithoutIs
      <3>3. (IF j < i THEN j ELSE j + 1) \in DOMAIN L
        BY <3>1, <3>2
      <3> QED BY <1>4, <3>2, <3>3 DEF Unflagged, L
    <2> QED BY <1>2, <2>1, <2>2 DEF Unflagged
  <1>5. "leaked" \in L[i].flags => ~Unflagged(P)
    BY DEF Unflagged, L
  <1>6. Tabled(Q)
    BY <1>3, <1>f, <1>4, <1>5 DEF Tabled, Keeps, Plain
  <1> QED BY <1>6 DEF Q

\* process_scan and process_leaks_scan.
LEMMA ScanTabled ==
  ASSUME NEW P, Sound(P), Tabled(P), "scan" \in Ops
  PROVE  /\ \A A : Tabled(process_scan(P, A))
         /\ \A mode \in {"all", "new", "leak"} : Tabled(leaks_scan(P, mode))
  <1>1. ~Unscanned
    BY DEF Unscanned
  <1>2. \A Q : Keeps(P, Q) /\ (Fits(P) => Fits(Q)) => Tabled(Q)
    BY <1>1 DEF Keeps, Tabled
  <1>3. \A A : Keeps(P, process_scan(P, A)) /\ (Fits(P) => Fits(process_scan(P, A)))
    BY ScanKeeps, HandlersFit
  <1>4. \A mode \in {"all", "new", "leak"} :
          Keeps(P, leaks_scan(P, mode)) /\ (Fits(P) => Fits(leaks_scan(P, mode)))
    BY LeaksScanKeeps, HandlersFit
  <1> QED BY <1>2, <1>3, <1>4

\* A new process.
LEMMA NewTabled == ASSUME NEW k, NEW t, NEW a PROVE Tabled(process_new(k, t, a))
  <1> DEFINE Q == process_new(k, t, a)
  <1>1. Weighed(Q) /\ LeaksCounted(Q) /\ StackCounted(Q)
    BY NewCounted
  <1>2. Q.blocks = {} /\ Q.realloc_list = <<>>
    BY DEF process_new
  <1> HIDE DEF Q
  <1>3. Unflagged(Q) /\ Fits(Q)
    BY <1>2 DEF Unflagged, Leaked, Fits
  <1>4. Tabled(Q)
    BY <1>1, <1>3 DEF Tabled
  <1> QED BY <1>4 DEF Q

\* The next message, and what is left.
LEMMA ReadCounted ==
  ASSUME ChanInv, chan # <<>>, UNCHANGED <<cmds, opt>>
  PROVE  /\ Head(chan) \in Expected
         /\ chan' = Tail(chan) => ChanInv'
         /\ chan' = chan => ChanInv'
         /\ \A m \in Expected : chan' = [chan EXCEPT ![1] = m] => ChanInv'
  <1>1. Head(chan) \in Expected /\ Tail(chan) \in Seq(Expected)
        /\ \A m \in Expected : [chan EXCEPT ![1] = m] \in Seq(Expected)
    BY Queued DEF ChanInv
  <1> QED BY <1>1, ScenarioKept DEF ChanInv

\* A handler replaces the table of a process by one that is right.
LEMMA HandlerCounted ==
  ASSUME IInv, CInv, ChanInv', UNCHANGED <<call, in_realloc, opt>>,
         failed' \in {failed, failed \cup {"process.c:503"}},
         UNCHANGED proc \/ \E p \in Procs : \E Q : Tabled(Q) /\ Update(p, Q)
  PROVE  CInv'
  <1>1. TablesInv'
    <2>1. CASE UNCHANGED proc
      BY <2>1, TablesKept DEF CInv
    <2>2. ASSUME NEW p \in Procs, NEW Q, Tabled(Q), Update(p, Q) PROVE TablesInv'
      BY <2>2, TablesUpdated DEF CInv
    <2> QED BY <2>1, <2>2
  <1>2. Asserted'
    BY ScenarioKept DEF CInv, Asserted
  <1> QED BY <1>1, <1>2, CallsKept DEF CInv

\* The handlers of allocations.
LEMMA HandleAllocCounted == ASSUME IInv, CInv, Ignore \/ HandleAlloc PROVE CInv'
  <1> DEFINE m == Head(chan)
             P == proc[m.pid]
             D == rb_search_range(P, m.addr, m.size)
  <1>1. /\ chan # <<>> /\ UNCHANGED <<call, in_realloc, cmds, opt>>
        /\ failed' \in {failed, failed \cup {"process.c:503"}}
    BY DEF Ignore, HandleAlloc, StackCheck, Receive, program, tracer
  <1>2. m \in Expected /\ (chan' = Tail(chan) => ChanInv') /\ (chan' = chan => ChanInv')
    BY <1>1, ReadCounted DEF CInv
  <1>3. m \in Sendable
    BY <1>2 DEF Expected
  <1>4. CASE Ignore
    BY <1>1, <1>2, <1>4, HandlerCounted DEF Ignore, Consumed
  <1>5. CASE HandleAlloc
    <2>1. m.op \in {"malloc", "realloc", "mmap"}
      BY <1>5 DEF HandleAlloc, Receive
    <2>2. m.pid \in Procs /\ m.addr \in Nat /\ m.size \in Nat /\ m.op \in Stacks
      BY <1>3, <2>1, MessageFields DEF Stacks
    <2>3. Sound(P) /\ Tabled(P)
      BY <2>2 DEF IInv, ClientOK, CInv, TablesInv
    <2>4. \A b \in D : Tabled(rb_delete_block(P, b))
      BY <2>3, DeleteTabled DEF rb_search_range
    <2>s. Narrow => m.size < UIntMod
      BY <1>2, <2>1 DEF Expected
    <2>5. Tabled(alloc_insert(P, m.addr, m.size, m.op))
      BY <2>2, <2>3, <2>s, AllocTabled
    <2>6. \/ (\E b \in D : Update(m.pid, rb_delete_block(P, b))) /\ chan' = chan
          \/ Update(m.pid, alloc_insert(P, m.addr, m.size, m.op)) /\ chan' = Tail(chan)
      BY <1>5 DEF HandleAlloc, Consumed
    <2> HIDE DEF D, P, m
    <2>7. ChanInv' /\ \E p \in Procs : \E Q : Tabled(Q) /\ Update(p, Q)
      BY <1>2, <2>2, <2>4, <2>5, <2>6
    <2> QED BY <1>1, <2>7, HandlerCounted
  <1> QED BY <1>4, <1>5

\* The handlers of frees and reallocs.
LEMMA HandleFreeCounted == ASSUME IInv, CInv, HandleFree PROVE CInv'
  <1> DEFINE m == Head(chan)
             P == proc[m.pid]
             tid == IF m.op = "enter" THEN m.tid ELSE 0
             D == rb_search(P, m.addr)
  <1>1. /\ chan # <<>> /\ chan' = Tail(chan) /\ UNCHANGED <<call, in_realloc, cmds, opt>>
        /\ failed' \in {failed, failed \cup {"process.c:503"}}
    BY DEF HandleFree, StackCheck, Receive, Consumed, program, tracer
  <1>2. m \in Expected /\ ChanInv'
    BY <1>1, ReadCounted DEF CInv
  <1>3. m \in Sendable
    BY <1>2 DEF Expected
  <1>4. m.pid \in Procs /\ (m.op = "enter" => tid \in Threads /\ m.addr # 0)
    BY <1>3, MessageFields
  <1>5. Sound(P) /\ Tabled(P)
    BY <1>4 DEF IInv, ClientOK, CInv, TablesInv
  <1>6. \A b \in D : b \in P.blocks /\ b.addr = m.addr
    BY DEF rb_search
  <1>7. \/ \E b \in D : Update(m.pid, free_block(P, b, m.op, tid))
        \/ Update(m.pid, free_unknown(P, m.op, tid))
    BY DEF HandleFree
  <1> HIDE DEF D, P, m, tid
  <1>8. \A b \in D : Tabled(free_block(P, b, m.op, tid))
    BY <1>4, <1>5, <1>6, FreeTabled
  <1>9. Tabled(free_unknown(P, m.op, tid))
    BY <1>4, <1>5, UnknownTabled
  <1>10. \E p \in Procs : \E Q : Tabled(Q) /\ Update(p, Q)
    BY <1>4, <1>7, <1>8, <1>9
  <1> QED BY <1>1, <1>2, <1>10, HandlerCounted

\* The handler of a realloc that ended.
LEMMA HandleDoneCounted == ASSUME IInv, CInv, HandleDone PROVE CInv'
  <1> DEFINE m == Head(chan)
             P == proc[m.pid]
  <1>1. /\ chan # <<>> /\ m.op = "done" /\ chan' = Tail(chan)
        /\ UNCHANGED <<call, in_realloc, cmds, failed, opt>>
    BY DEF HandleDone, Receive, Consumed, program, tracer
  <1>2. m \in Expected /\ ChanInv'
    BY <1>1, ReadCounted DEF CInv
  <1>3. m \in Sendable /\ (Succeeding => m.addr # 0)
    BY <1>1, <1>2 DEF Expected
  <1>4. m.pid \in Procs
    BY <1>3, MessageFields
  <1>5. Sound(P) /\ Tabled(P)
    BY <1>4 DEF IInv, ClientOK, CInv, TablesInv
  <1>6. UNCHANGED proc \/ \E i \in DOMAIN P.realloc_list : Update(m.pid, realloc_done(P, m.addr, i))
    BY DEF HandleDone, EntryOf
  <1> HIDE DEF P, m
  <1>7. \A i \in DOMAIN P.realloc_list : Tabled(realloc_done(P, m.addr, i))
    BY <1>3, <1>5, DoneTabled
  <1>8. UNCHANGED proc \/ \E p \in Procs : \E Q : Tabled(Q) /\ Update(p, Q)
    BY <1>4, <1>6, <1>7
  <1> QED BY <1>1, <1>2, <1>8, HandlerCounted

\* The handler of a scan's answer.
LEMMA HandleScanCounted == ASSUME IInv, CInv, HandleScan PROVE CInv'
  <1> DEFINE m == Head(chan)
             P == proc[m.pid]
  <1>1. /\ chan # <<>> /\ m.op = "scan" /\ chan' = Tail(chan) /\ Update(m.pid, process_scan(P, m.leaks))
        /\ UNCHANGED <<call, in_realloc, cmds, failed, opt>>
    BY DEF HandleScan, Receive, Consumed, program, tracer
  <1>2. m \in Expected /\ ChanInv'
    BY <1>1, ReadCounted DEF CInv
  <1>3. m \in Sendable /\ "scan" \in Ops
    BY <1>1, <1>2 DEF Expected
  <1>4. m.pid \in Procs
    BY <1>3, MessageFields
  <1>5. Sound(P) /\ Tabled(P)
    BY <1>4 DEF IInv, ClientOK, CInv, TablesInv
  <1> HIDE DEF P, m
  <1>6. \E p \in Procs : \E Q : Tabled(Q) /\ Update(p, Q)
    BY <1>1, <1>3, <1>4, <1>5, ScanTabled
  <1> QED BY <1>1, <1>2, <1>6, HandlerCounted

\* The handler of an unmapping, which goes on with the rest of its range.
LEMMA HandleMunmapCounted == ASSUME IInv, CInv, HandleMunmap PROVE CInv'
  <1> DEFINE m == Head(chan)
             P == proc[m.pid]
             D == rb_search_range(P, m.addr, m.size)
             off(b) == UInt(b.addr - m.addr)
             n(b) == m.size - off(b)
             r(b) == [m EXCEPT !.addr = @ + off(b) + b.size, !.size = n(b) - b.size]
  <1>1. chan # <<>> /\ m.op = "munmap" /\ UNCHANGED <<call, in_realloc, cmds, failed, opt>>
    BY DEF HandleMunmap, Receive, program, tracer
  <1>2. /\ m \in Expected /\ (chan' = Tail(chan) => ChanInv')
        /\ \A k \in Expected : chan' = [chan EXCEPT ![1] = k] => ChanInv'
    BY <1>1, ReadCounted DEF CInv
  <1>3. m \in Sendable
    BY <1>2 DEF Expected
  <1>4. m.pid \in Procs /\ m.addr \in Nat /\ m.size \in Nat
    BY <1>1, <1>3, MessageFields
  <1>5. Sound(P) /\ Tabled(P)
    BY <1>4 DEF IInv, ClientOK, CInv, TablesInv
  <1>6. CASE UNCHANGED proc /\ Consumed
    BY <1>1, <1>2, <1>6, HandlerCounted DEF Consumed
  <1>7. ASSUME NEW b \in D,
               \/ n(b) < b.size /\ Update(m.pid, munmap_prefix(P, b, n(b))) /\ Consumed
               \/ Update(m.pid, rb_delete_block(P, b)) /\ Consumed
               \/ n(b) > b.size /\ Update(m.pid, rb_delete_block(P, b)) /\ chan' = [chan EXCEPT ![1] = r(b)]
        PROVE  CInv'
    <2>1. b \in P.blocks /\ m.addr <= b.addr /\ b.addr < m.addr + (IF m.size = 0 THEN 1 ELSE m.size)
      BY DEF rb_search_range
    <2>2. b \in Block /\ b.addr \in Nat /\ b.size \in Nat
      BY <1>5, <2>1, Fields DEF Sound, Block
    <2>3. off(b) \in Nat /\ n(b) \in Nat
      <3>1. b.addr - m.addr \in Nat /\ b.addr - m.addr <= m.size
        BY <1>4, <2>1, <2>2
      <3>2. off(b) \in 0..(b.addr - m.addr)
        BY <3>1, UIntIs
      <3> HIDE DEF off
      <3> QED BY <1>4, <2>2, <3>1, <3>2
    <2>4. n(b) > b.size => r(b) \in Expected
      <3> SUFFICES ASSUME n(b) > b.size PROVE r(b) \in Expected
        OBVIOUS
      <3> DEFINE x == m.addr + off(b) + b.size
                 y == n(b) - b.size
      <3>1. x \in Nat /\ y \in Nat
        <4> HIDE DEF off
        <4> QED BY <1>4, <2>2, <2>3
      <3>2. m \in [op : {"malloc", "realloc", "mmap", "free", "munmap"}, pid : Procs, addr : Nat, size : Nat]
        BY <1>1, <1>3 DEF Sendable, Message
      <3>3. r(b) = [m EXCEPT !.addr = x, !.size = y]
        OBVIOUS
      <3> HIDE DEF x, y, r, m
      <3>4. r(b) \in [op : {"malloc", "realloc", "mmap", "free", "munmap"}, pid : Procs, addr : Nat, size : Nat]
            /\ r(b).op = m.op
        BY <3>1, <3>2, <3>3
      <3> QED BY <1>1, <3>4 DEF Expected, Sendable, Message
    <2> HIDE DEF n, r, off, P, D, m
    <2>5. Tabled(rb_delete_block(P, b))
      BY <1>5, <2>1, DeleteTabled
    <2>6. n(b) < b.size => Tabled(munmap_prefix(P, b, n(b)))
      BY <1>5, <2>1, <2>3, PrefixTabled
    <2>7. \E p \in Procs : \E Q : Tabled(Q) /\ Update(p, Q)
      BY <1>4, <1>7, <2>5, <2>6
    <2>8. ChanInv'
      BY <1>2, <1>7, <2>4 DEF Consumed
    <2> QED BY <1>1, <2>7, <2>8, HandlerCounted
  <1> QED BY <1>6, <1>7 DEF HandleMunmap

\* The handler of a fork: the assert of process.c:910 compares the bytes of the
\* parent with those of its blocks.
LEMMA HandleForkCounted == ASSUME IInv, CInv, HandleFork PROVE CInv'
  <1> DEFINE m == Head(chan)
             copy == proc[m.parent]
             old == IF proc[m.pid].known THEN proc[m.pid] ELSE process_new(TRUE, TRUE, FALSE)
             child == process_duplicate(old, copy)
  <1>1. /\ chan # <<>> /\ m.op = "fork" /\ chan' = Tail(chan) /\ Update(m.pid, child)
        /\ UNCHANGED <<call, in_realloc, cmds, opt>>
    BY DEF HandleFork, Receive, Consumed, program, tracer
  <1>2. m \in Expected /\ ChanInv'
    BY <1>1, ReadCounted DEF CInv
  <1>3. m \in Sendable /\ "fork" \in Ops
    BY <1>1, <1>2 DEF Expected
  <1>4. m.pid \in Procs /\ m.parent \in Procs
    BY <1>1, <1>3, MessageFields
  <1>5. Sound(copy) /\ Sound(old) /\ Tabled(copy)
    BY <1>4, NewSound DEF IInv, ClientOK, CInv, TablesInv
  <1>6. failed' = failed
          \cup (IF ResetFails(old) THEN {"process_reset"} ELSE {})
          \cup (IF copy.bytes_used # child.bytes_used THEN {"process.c:910"} ELSE {})
          \cup (IF copy.n_allocations # child.n_allocations THEN {"process.c:911"} ELSE {})
    BY DEF HandleFork
  <1>d. child = process_duplicate(old, copy)
    OBVIOUS
  <1> HIDE DEF m, copy, old, child
  <1>7. child.n_allocations = copy.n_allocations /\ ~ResetFails(old)
    BY <1>5, <1>d, DuplicateSound, ResetSound
  <1>8. /\ child.blocks = copy.blocks /\ child.realloc_list = <<>> /\ child.bytes_used = Bytes(copy.blocks)
        /\ Weighed(child) /\ (Leaked(copy.blocks) = {} => LeaksCounted(child))
    BY <1>5, <1>d, DuplicateIs
  <1>9. Tabled(child)
    <2>1. Unflagged(copy) => Unflagged(child) /\ LeaksCounted(child)
      BY <1>8 DEF Unflagged
    <2>2. ~Plain
      BY <1>3 DEF Plain
    <2>3. Fits(copy) => Fits(child)
      BY <1>8 DEF Fits
    <2> QED BY <1>3, <1>5, <1>8, <2>1, <2>2, <2>3 DEF Tabled
  <1>10. Asserted'
    <2>1. Narrow /\ Succeeding => child.bytes_used = copy.bytes_used
      BY <1>5, <1>8 DEF Tabled, Weighed
    <2>2. Narrow /\ Succeeding => failed' = failed
      BY <1>6, <1>7, <2>1
    <2> QED BY <1>1, <1>3, <2>2, ScenarioKept DEF CInv, Asserted
  <1>11. TablesInv'
    BY <1>1, <1>4, <1>9, TablesUpdated DEF CInv
  <1> QED BY <1>1, <1>2, <1>10, <1>11, CallsKept DEF CInv

\* The handler of an exit.
LEMMA HandleExitCounted == ASSUME IInv, CInv, HandleExit PROVE CInv'
  <1> DEFINE p == Head(chan).pid
  <1>1. chan # <<>> /\ chan' = Tail(chan) /\ UNCHANGED <<call, in_realloc, cmds, opt>>
    BY DEF HandleExit, Receive, Consumed, program, tracer
  <1>2. Head(chan) \in Expected /\ ChanInv'
    BY <1>1, ReadCounted DEF CInv
  <1>3. p \in Procs
    BY <1>2, MessageFields DEF Expected
  <1>4. ~ResetFails(proc[p]) /\ Tabled(process_new(FALSE, FALSE, FALSE))
    BY <1>3, NewTabled, ResetSound DEF IInv, ClientOK
  <1>5. UNCHANGED failed /\ (UNCHANGED proc \/ Update(p, process_new(FALSE, FALSE, FALSE)))
    BY <1>4 DEF HandleExit
  <1> HIDE DEF p
  <1>6. UNCHANGED proc \/ \E q \in Procs : \E Q : Tabled(Q) /\ Update(q, Q)
    BY <1>3, <1>4, <1>5
  <1> QED BY <1>1, <1>2, <1>5, <1>6, HandlerCounted

\* The connection is closed.
LEMMA HandleCloseCounted == ASSUME IInv, CInv, HandleClose PROVE CInv'
  <1>1. UNCHANGED <<call, in_realloc, chan, cmds, proc, failed, opt>>
    BY DEF HandleClose, program, tracer
  <1> QED BY <1>1, CallsKept, ChanKept, TablesKept, AssertsKept DEF CInv

\* A command is sent.
LEMMA SentCounted ==
  ASSUME ChanInv, NEW c \in Asked, Sent(c), UNCHANGED <<chan, opt>> PROVE ChanInv'
  <1>1. Append(cmds, c) \in Seq(Asked)
    BY Queued DEF ChanInv
  <1> QED BY <1>1, ScenarioKept DEF ChanInv, Sent

\* The user's commands.
LEMMA UserCounted == ASSUME IInv, CInv, User PROVE CInv'
  <1>1. PICK p \in Procs : do_reset(p) \/ do_stop(p) \/ do_start(p) \/ \E mode \in opt.modes : do_scan(p, mode)
    BY DEF User
  <1> DEFINE P == proc[p]
             R == reset_allocations(P)
  <1>2. Sound(P) /\ Tabled(P)
    BY DEF IInv, ClientOK, CInv, TablesInv
  <1>3. R.n_allocations = 0 /\ Sound(R)
    BY <1>2, ResetSound
  <1>r. R = reset_allocations(P)
    OBVIOUS
  <1>4. \A Q : Q.blocks = R.blocks /\ Q.realloc_list = R.realloc_list /\ SameTally(R, Q) /\ ~Plain => Tabled(Q)
    <2> HIDE DEF R, P
    <2>1. R.blocks = {} /\ R.realloc_list = <<>> /\ Weighed(R) /\ LeaksCounted(R)
      BY <1>2, <1>r, ResetIs
    <2> SUFFICES ASSUME NEW Q, Q.blocks = R.blocks /\ Q.realloc_list = R.realloc_list /\ SameTally(R, Q) /\ ~Plain
                 PROVE  Tabled(Q)
      OBVIOUS
    <2>2. Weighed(Q) /\ LeaksCounted(Q)
      BY <2>1 DEF Weighed, LeaksCounted, SameTally
    <2>3. Unflagged(Q) /\ Fits(Q)
      BY <2>1 DEF Unflagged, Leaked, Fits
    <2> QED BY <2>2, <2>3 DEF Tabled
  <1>5. CASE do_reset(p)
    <2> DEFINE Q == [R EXCEPT !.attached = TRUE]
    <2>1. /\ "reset" \in Ops /\ Update(p, Q) /\ ResetCheck(proc[p])
          /\ UNCHANGED <<call, in_realloc, chan, cmds, opt>>
      BY <1>5 DEF do_reset, Prompt, program, tracer
    <2>2. UNCHANGED failed
      BY <1>3, <2>1 DEF ResetCheck
    <2> HIDE DEF R
    <2>3. Q.blocks = R.blocks /\ Q.realloc_list = R.realloc_list /\ SameTally(R, Q)
      BY <1>3 DEF Sound, Process, SameTally
    <2> HIDE DEF Q
    <2>4. Tabled(Q)
      BY <1>4, <2>1, <2>3 DEF Plain
    <2>5. ChanInv'
      BY <2>1, ChanKept DEF CInv
    <2> QED BY <2>1, <2>2, <2>4, <2>5, HandlerCounted
  <1>6. CASE do_start(p)
    <2> DEFINE Q == [R EXCEPT !.tracing = TRUE, !.attached = TRUE]
               c == [op |-> "start", pid |-> p]
    <2>1. /\ "start" \in Ops /\ Update(p, Q) /\ ResetCheck(proc[p]) /\ Sent(c)
          /\ UNCHANGED <<call, in_realloc, chan, opt>>
      BY <1>6 DEF do_start, Prompt, program, tracer
    <2>2. UNCHANGED failed
      BY <1>3, <2>1 DEF ResetCheck
    <2> HIDE DEF R
    <2>3. Q.blocks = R.blocks /\ Q.realloc_list = R.realloc_list /\ SameTally(R, Q)
      BY <1>3 DEF Sound, Process, SameTally
    <2>4. c \in Asked
      BY <2>1 DEF Asked, Command
    <2> HIDE DEF Q, c
    <2>5. Tabled(Q)
      BY <1>4, <2>1, <2>3 DEF Plain
    <2>6. ChanInv'
      BY <2>1, <2>4, SentCounted DEF CInv
    <2> QED BY <2>1, <2>2, <2>5, <2>6, HandlerCounted
  <1>7. CASE do_stop(p)
    <2> DEFINE Q == [P EXCEPT !.tracing = FALSE]
               c == [op |-> "stop", pid |-> p]
    <2>1. /\ "stop" \in Ops /\ Update(p, Q) /\ Sent(c)
          /\ UNCHANGED <<call, in_realloc, chan, failed, opt>>
      BY <1>7 DEF do_stop, Prompt, program, tracer
    <2> HIDE DEF P
    <2>2. /\ Q.blocks = P.blocks /\ Q.realloc_list = P.realloc_list /\ SameTally(P, Q)
          /\ Q.nodes = P.nodes
      BY <1>2 DEF Sound, Process, SameTally
    <2>3. c \in Asked
      BY <2>1 DEF Asked, Command
    <2> HIDE DEF Q, c
    <2>4. Keeps(P, Q)
      BY <2>2, SameKeeps DEF SameCounts
    <2>f. Fits(P) => Fits(Q)
      BY <2>2 DEF Fits
    <2>5. Tabled(Q)
      BY <1>2, <2>2, <2>4, <2>f, KeepsTabled DEF Unflagged, Tabled
    <2>6. ChanInv'
      BY <2>1, <2>3, SentCounted DEF CInv
    <2> QED BY <2>1, <2>5, <2>6, HandlerCounted
  <1>8. ASSUME NEW mode \in opt.modes, do_scan(p, mode) PROVE CInv'
    <2> DEFINE Q == leaks_scan(P, mode)
               c == [op |-> "scan", pid |-> p, blocks |-> Starts(ScanSet(P, mode))]
    <2>1. /\ "scan" \in Ops /\ UNCHANGED <<call, in_realloc, chan, failed, opt>>
          /\ (Sent(c) /\ Update(p, Q)) \/ UNCHANGED <<cmds, proc>>
      BY <1>8 DEF do_scan, Prompt, program, tracer
    <2>2. mode \in {"all", "new", "leak"}
      BY DEF IInv, Scenario
    <2>3. Tabled(Q)
      BY <1>2, <2>1, <2>2, ScanTabled
    <2>4. c \in Asked
      <3>1. ScanSet(P, mode) \in SUBSET P.blocks /\ P.blocks \in SUBSET Block
        BY <1>2, <2>2, LeaksScanSound, Fields DEF Sound
      <3>2. Starts(ScanSet(P, mode)) \in SUBSET Nat
        BY <3>1 DEF Starts, Block
      <3> QED BY <2>1, <3>2 DEF Asked, Command
    <2> HIDE DEF Q, c
    <2>5. ChanInv'
      BY <2>1, <2>4, SentCounted, ChanKept DEF CInv
    <2> QED BY <2>1, <2>3, <2>5, HandlerCounted
  <1> QED BY <1>1, <1>5, <1>6, <1>7, <1>8

\* The tracer's side of the commands: none is a stop when the user gives none.
LEMMA ServerCounted == ASSUME IInv, CInv, Server PROVE CInv'
  <1> DEFINE p == Head(cmds).pid
  <1>1. cmds # <<>> /\ cmds' = Tail(cmds) /\ UNCHANGED <<proc, in_realloc, failed, opt>>
    BY DEF Server, CommandNoTask, start_trace, stop_trace, scan, Commanded, client, tracer
  <1>2. Head(cmds) \in Asked /\ Tail(cmds) \in Seq(Asked) /\ Head(cmds) \in Command
    BY <1>1, Queued DEF CInv, ChanInv, IInv, CmdsOK
  <1>3. p \in Procs /\ Head(cmds).op \in Ops
    BY <1>2 DEF Asked, Command
  <1>4. chan' \in Seq(Expected) => ChanInv'
    BY <1>1, <1>2, ScenarioKept DEF ChanInv
  <1>5. CASE CommandNoTask \/ start_trace
    <2>1. UNCHANGED <<call, chan>>
      BY <1>5 DEF CommandNoTask, start_trace, program
    <2>2. ChanInv'
      BY <1>4, <2>1 DEF CInv, ChanInv
    <2> QED BY <1>1, <2>1, <2>2, CallsKept, TablesKept, AssertsKept DEF CInv
  <1>6. CASE stop_trace
    <2>1. /\ call' = [t \in Threads |-> IF Owner[t] = p THEN [call[t] EXCEPT !.watched = FALSE] ELSE call[t]]
          /\ chan' = chan /\ Head(cmds).op = "stop"
      BY <1>6 DEF stop_trace, Commanded
    <2>2. ~Tracked
      BY <1>3, <2>1 DEF Tracked
    <2>3. call \in [Threads -> Call]
      BY DEF IInv, ProgramOK
    <2>4. \A t \in Threads : call'[t].fn = call[t].fn /\ call'[t].size = call[t].size
      BY <2>1, <2>3 DEF Call
    <2>5. CallsInv'
      BY <1>1, <2>2, <2>4, ScenarioKept DEF CInv, CallsInv, Succeeding
    <2>6. ChanInv'
      BY <1>4, <2>1 DEF CInv, ChanInv
    <2> QED BY <1>1, <2>5, <2>6, TablesKept, AssertsKept DEF CInv
  <1>7. CASE scan
    <2> DEFINE A == Head(cmds).blocks
               lost == A \cap Starts({c \in heap[p] : c.lost})
    <2>1. PICK X \in SUBSET A : chan' = Append(chan, [op |-> "scan", pid |-> p, leaks |-> lost \cup X])
      BY <1>7 DEF scan
    <2>2. Head(cmds).op = "scan" /\ UNCHANGED call
      BY <1>7 DEF scan, Commanded, program
    <2>3. A \in SUBSET Nat
      BY <1>2, <2>2 DEF Command
    <2>4. lost \cup X \in SUBSET Nat
      BY <2>1, <2>3
    <2> DEFINE m == [op |-> "scan", pid |-> p, leaks |-> lost \cup X]
    <2> HIDE DEF lost, p
    <2>5. m \in Sendable /\ m.op = "scan"
      BY <1>3, <2>4 DEF Sendable, Message
    <2> HIDE DEF m
    <2>6. m \in Expected
      BY <1>3, <2>2, <2>5 DEF Expected
    <2>7. chan' \in Seq(Expected)
      BY <2>1, <2>6, Queued DEF CInv, ChanInv, m
    <2>8. ChanInv'
      BY <1>4, <2>7
    <2> QED BY <1>1, <2>2, <2>8, CallsKept, TablesKept, AssertsKept DEF CInv
  <1> QED BY <1>5, <1>6, <1>7 DEF Server

\* The second invariant holds at the start, and every step keeps it.
LEMMA InitCounted == ASSUME Init PROVE CInv
  <1>1. CallsInv
    BY TableAssumption DEF Init, CallsInv, NoCall
  <1>2. ChanInv
    BY Short DEF Init, ChanInv
  <1>3. \A p \in Procs : proc[p] = process_new(p = First, p = First, FALSE)
    BY DEF Init
  <1>4. TablesInv
    <2>1. \A p \in Procs : Tabled(process_new(p = First, p = First, FALSE))
      BY NewTabled, Zenon
    <2> QED BY <1>3, <2>1 DEF TablesInv
  <1> QED BY <1>1, <1>2, <1>4 DEF Init, CInv, Asserted

\* Every step.
LEMMA NextCounted == ASSUME IInv, CInv, [Next]_vars PROVE CInv'
  <1>1. CASE UNCHANGED vars
    BY <1>1, CallsKept, ChanKept, TablesKept, AssertsKept DEF vars, CInv
  <1>2. CASE Program
    BY <1>2, ProgramCounted
  <1>3. CASE Client
    BY <1>3, HandleAllocCounted, HandleFreeCounted, HandleDoneCounted, HandleMunmapCounted, HandleForkCounted,
       HandleExitCounted, HandleScanCounted, HandleCloseCounted DEF Client
  <1>4. CASE User
    BY <1>4, UserCounted
  <1>5. CASE Server
    BY <1>5, ServerCounted
  <1> QED BY <1>1, <1>2, <1>3, <1>4, <1>5 DEF Next, Ended

\* CInv is an invariant.
LEMMA CountsInvariant == Spec => []CInv
  <1>1. Init => CInv
    BY InitCounted
  <1>2. IInv /\ CInv /\ [Next]_vars => CInv'
    BY NextCounted
  <1> QED BY <1>1, <1>2, Invariance, PTL DEF Spec

\* Counters: the counts and the bytes of a process's allocations and leaks are
\* those of its blocks, across frees, reallocs that succeed, unmappings, scans,
\* resets and exits, and forks of what was never scanned.  The conditions are
\* needed: process_release_mem takes the size as an unsigned int (process.c:636),
\* process_realloc_done brings a block back without its bytes, and
\* process_duplicate copies the flags of the leaked blocks but no leak counter.
THEOREM CountsRight ==
  Spec => [](Narrow /\ Succeeding /\ (Unscanned \/ "fork" \notin Ops) => Counters)
  <1>1. IInv /\ CInv => (Narrow /\ Succeeding /\ (Unscanned \/ "fork" \notin Ops) => Counters)
    <2> SUFFICES ASSUME IInv, CInv, Narrow, Succeeding, Unscanned \/ "fork" \notin Ops PROVE Counters
      OBVIOUS
    <2>1. \A p \in Procs : Sound(proc[p]) /\ Tabled(proc[p])
      BY DEF IInv, ClientOK, CInv, TablesInv
    <2> QED BY <2>1 DEF Counters, Sound, Tabled, Weighed, LeaksCounted
  <1> QED BY <1>1, Invariance, CountsInvariant, PTL

\* StackCounters: the numbers the dump sorts by and shows for a call stack are
\* those of the blocks made from it, where no block is too large for an unsigned
\* int, nothing is forked or reset (the code corrects them in neither) and no
\* leaked block comes back from a failed realloc.
THEOREM StackCountsRight == Spec => [](Narrow /\ Plain => StackCounters)
  <1>1. CInv => (Narrow /\ Plain => StackCounters)
    BY DEF CInv, TablesInv, Tabled, StackCounted, NodeCounts, StackCounters
  <1> QED BY <1>1, CountsInvariant, PTL
=============================================================================
