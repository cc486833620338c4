---------------------------- MODULE MirrorProofs ----------------------------
(***************************************************************************)
(* The client's picture of the program, for any processes, threads,        *)
(* addresses and scenarios of the kind Faithful describes: once every      *)
(* message has arrived the blocks of a process are the program's open      *)
(* allocations (Mirror), or no more than those (NoGhosts); no correct free *)
(* is charged to the program (NoFalseCharge); a block is marked as leaked  *)
(* only if the program has lost it (ScanSound); and no assert is reached   *)
(* (AssertsHold): that of stack_add needs a call stack that a free was     *)
(* charged to, so it rests on NoFalseCharge.                               *)
(*                                                                         *)
(* The argument.  Between the program and the client lie the messages on   *)
(* the connection.  A table is what a client knows about a process; each   *)
(* message takes the tables of all processes one step further (Step), so   *)
(* a connection of n messages is a line of n + 1 tables (Line).  The first *)
(* agrees with the client (Agrees), the last with the program, up to the   *)
(* calls in progress (Ahead): a chunk that a call holds has been reported  *)
(* as freed already, or not yet as allocated.  A report adds a table at    *)
(* the end of the line, a handler takes the first one away, and when the   *)
(* connection is empty the first and the last are the same.                *)
(***************************************************************************)
EXTENDS AllocationsProofs

\* Every process has at most one thread.
Single == \A t, u \in Threads : Owner[t] = Owner[u] => t = u

\* Tracing is never stopped, realloc(p, 0) is not called, mappings are unmapped
\* from their start and not past their end, munmap and mremap succeed, and only
\* processes of one thread fork.
Faithful ==
  /\ Ops \cap {"stop", "realloc0", "munmap_any", "munmap_past"} = {}
  /\ opt.fails \cap {"munmap", "mremap"} = {}
  /\ "fork" \in Ops => Single

\* The scan sees every pointer; what it answers about an address that is just
\* being unmapped, or about the blocks of a child, may be wrong.
Scannable == Ops \cap {"munmap", "hidden", "fork"} = {}

-----------------------------------------------------------------------------
(* Tables, and what a message does to them.                                *)

Width(n) == IF n = 0 THEN 1 ELSE n
Begins(x, a, n) == a <= x.addr /\ x.addr < a + Width(n)
Kind(map) == IF map THEN "map" ELSE "heap"

\* An open allocation, a block that a realloc has taken, and a table: what is
\* known of a process, the addresses once marked as leaked included.
Item(a, n, kind) == [addr |-> a, size |-> n, kind |-> kind]
Items == [addr : Nat, size : Nat, kind : {"map", "heap"}]
Hold(t, a, n) == [tid |-> t, addr |-> a, size |-> n]
Holds == [tid : Threads, addr : Nat, size : Nat]
Table == [known : BOOLEAN, blocks : SUBSET Items, held : SUBSET Holds, leaked : SUBSET Nat]
Tables == [Procs -> Table]

Tidy(T) == \A x, y \in T.blocks : x.addr = y.addr => x = y

AllocStep(m, T, U) ==
  /\ m.op \in {"malloc", "realloc", "mmap"} /\ T.known /\ U.known
  /\ \A x \in T.blocks : ~Begins(x, m.addr, m.size)
  /\ U.blocks = T.blocks \cup {Item(m.addr, m.size, Kind(m.op = "mmap"))}
  /\ U.held = T.held /\ U.leaked = T.leaked
FreeStep(m, T, U) ==
  /\ m.op = "free" /\ T.known /\ U.known
  /\ \E x \in T.blocks : x.addr = m.addr /\ x.kind = "heap" /\ U.blocks = T.blocks \ {x}
  /\ U.held = T.held /\ U.leaked = T.leaked
EnterStep(m, T, U) ==
  /\ m.op = "enter" /\ T.known /\ U.known
  /\ \A h \in T.held : h.tid # m.tid
  /\ \E x \in T.blocks : /\ x.addr = m.addr /\ x.kind = "heap" /\ U.blocks = T.blocks \ {x}
                         /\ U.held = T.held \cup {Hold(m.tid, x.addr, x.size)}
  /\ U.leaked = T.leaked
DoneStep(m, T, U) ==
  /\ m.op = "done" /\ T.known /\ U.known
  /\ \E h \in T.held :
       /\ h.tid = m.tid /\ \A g \in T.held : g.tid = m.tid => g = h
       /\ U.held = T.held \ {h}
       /\ m.addr # 0 => U.blocks = T.blocks
       /\ m.addr = 0 => /\ \A x \in T.blocks : x.addr # h.addr
                        /\ U.blocks = T.blocks \cup {Item(h.addr, h.size, "heap")}
  /\ U.leaked = T.leaked
UnmapStep(m, T, U) ==
  /\ m.op = "munmap" /\ T.known /\ U.known
  /\ \E x \in T.blocks :
       /\ x.addr = m.addr /\ x.kind = "map" /\ m.size <= x.size
       /\ \A y \in T.blocks : Begins(y, m.addr, m.size) => y = x
       /\ m.size = x.size => U.blocks = T.blocks \ {x}
       /\ m.size < x.size =>
            /\ m.size # 0 /\ \A y \in T.blocks : y.addr # m.addr + m.size
            /\ U.blocks = (T.blocks \ {x}) \cup {Item(m.addr + m.size, x.size - m.size, "map")}
  /\ U.held = T.held /\ U.leaked = T.leaked
ForkStep(m, T, U, V) ==
  m.op = "fork" /\ U.known /\ U.blocks = V.blocks /\ U.held = {} /\ U.leaked = T.leaked \cup V.leaked
ExitStep(i, m, T, U) ==
  /\ m.op = "exit" /\ U.leaked = T.leaked
  /\ IF i THEN U = T ELSE ~U.known /\ U.blocks = {} /\ U.held = {}
ScanStep(m, T, U) ==
  /\ m.op = "scan" /\ T.known /\ U.known /\ U.blocks = T.blocks /\ U.held = T.held
  /\ U.leaked = T.leaked \cup {a \in m.leaks : \E x \in T.blocks : x.addr = a}

\* The message m takes the table T of its process to U, the tables F to G; V is
\* that of the parent, i is options.interactive.
Follows(i, m, T, U, V) ==
  \/ AllocStep(m, T, U) \/ FreeStep(m, T, U) \/ EnterStep(m, T, U) \/ DoneStep(m, T, U)
  \/ UnmapStep(m, T, U) \/ ExitStep(i, m, T, U) \/ ScanStep(m, T, U) \/ ForkStep(m, T, U, V)
Step(i, m, F, G) ==
  /\ \A p \in Procs : p # m.pid => G[p] = F[p]
  /\ Follows(i, m, F[m.pid], G[m.pid], F[m.parent])

\* The messages ch take F to L, one after the other.
Lined(i, ch, F, L, W) ==
  /\ W[1] = F /\ W[Len(ch) + 1] = L
  /\ \A k \in 1..Len(ch) : Step(i, ch[k], W[k], W[k + 1])
  /\ \A k \in 1..(Len(ch) + 1) : \A p \in Procs : Tidy(W[k][p]) /\ W[k][p].leaked \subseteq L[p].leaked
Line(i, ch, F, L) == \E W \in [1..(Len(ch) + 1) -> Tables] : Lined(i, ch, F, L, W)

\* The ends of a line.
LEMMA LineEnds ==
  ASSUME NEW S, NEW ch \in Seq(S), NEW i, NEW F, NEW L, Line(i, ch, F, L)
  PROVE  /\ F \in Tables /\ L \in Tables
         /\ \A p \in Procs : Tidy(F[p]) /\ Tidy(L[p]) /\ F[p].leaked \subseteq L[p].leaked
         /\ ch = <<>> => F = L
  <1>1. PICK W \in [1..(Len(ch) + 1) -> Tables] : Lined(i, ch, F, L, W)
    BY DEF Line
  <1>2. Len(ch) \in Nat /\ 1 \in 1..(Len(ch) + 1) /\ Len(ch) + 1 \in 1..(Len(ch) + 1)
    OBVIOUS
  <1>3. F = W[1] /\ L = W[Len(ch) + 1] /\ F \in Tables /\ L \in Tables
    BY <1>1, <1>2 DEF Lined
  <1>4. \A p \in Procs : Tidy(F[p]) /\ Tidy(L[p]) /\ F[p].leaked \subseteq L[p].leaked
    BY <1>1, <1>2, <1>3 DEF Lined
  <1>5. ch = <<>> => F = L
    <2>1. ch = <<>> => Len(ch) + 1 = 1
      OBVIOUS
    <2> QED BY <1>3, <2>1
  <1> QED BY <1>3, <1>4, <1>5

\* No message.
LEMMA LineNone ==
  ASSUME NEW i, NEW F \in Tables, \A p \in Procs : Tidy(F[p]) PROVE Line(i, <<>>, F, F)
  <1> DEFINE W == [k \in 1..1 |-> F]
  <1>1. Len(<<>>) + 1 = 1
    OBVIOUS
  <1>2. W \in [1..(Len(<<>>) + 1) -> Tables]
    BY <1>1
  <1>3. W[1] = F
    OBVIOUS
  <1> HIDE DEF W
  <1>4. Lined(i, <<>>, F, F, W)
    BY <1>1, <1>3 DEF Lined
  <1> QED BY <1>2, <1>4 DEF Line

\* One message more: the line has one more table at its end.
LEMMA LineAppend ==
  ASSUME NEW S, NEW ch \in Seq(S), NEW i, NEW F, NEW L, Line(i, ch, F, L),
         NEW m \in S, NEW G \in Tables, Step(i, m, L, G),
         \A p \in Procs : Tidy(G[p]) /\ L[p].leaked \subseteq G[p].leaked
  PROVE  Line(i, Append(ch, m), F, G)
  <1>1. PICK W \in [1..(Len(ch) + 1) -> Tables] : Lined(i, ch, F, L, W)
    BY DEF Line
  <1> DEFINE n == Len(ch)
             c2 == Append(ch, m)
             V == [k \in 1..(n + 2) |-> IF k = n + 2 THEN G ELSE W[k]]
  <1>2. n \in Nat /\ Len(c2) = n + 1 /\ c2[n + 1] = m /\ \A k \in 1..n : c2[k] = ch[k]
    OBVIOUS
  <1> HIDE DEF n, c2
  <1>w. /\ W \in [1..(n + 1) -> Tables] /\ W[1] = F /\ W[n + 1] = L
        /\ \A k \in 1..n : Step(i, ch[k], W[k], W[k + 1])
        /\ \A k \in 1..(n + 1) : \A p \in Procs : Tidy(W[k][p]) /\ W[k][p].leaked \subseteq L[p].leaked
    BY <1>1 DEF Lined, n
  <1>3. V \in [1..(Len(c2) + 1) -> Tables]
    BY <1>2, <1>w
  <1>4. V[n + 2] = G /\ \A k \in 1..(n + 1) : V[k] = W[k]
    BY <1>2
  <1> HIDE DEF V
  <1>5. V[1] = F /\ V[Len(c2) + 1] = G
    BY <1>2, <1>4, <1>w
  <1>6. \A k \in 1..Len(c2) : Step(i, c2[k], V[k], V[k + 1])
    <2> TAKE k \in 1..Len(c2)
    <2>1. CASE k = n + 1
      BY <1>2, <1>4, <1>w, <2>1
    <2>2. CASE k # n + 1
      <3>1. k \in 1..n /\ k \in 1..(n + 1) /\ k + 1 \in 1..(n + 1)
        BY <1>2, <2>2
      <3> QED BY <1>2, <1>4, <1>w, <3>1
    <2> QED BY <2>1, <2>2
  <1>7. \A k \in 1..(Len(c2) + 1) : \A p \in Procs : Tidy(V[k][p]) /\ V[k][p].leaked \subseteq G[p].leaked
    <2> TAKE k \in 1..(Len(c2) + 1)
    <2>1. CASE k = n + 2
      BY <1>4, <2>1
    <2>2. CASE k # n + 2
      <3>1. k \in 1..(n + 1)
        BY <1>2, <2>2
      <3> QED BY <1>4, <1>w, <3>1
    <2> QED BY <2>1, <2>2
  <1>8. Lined(i, c2, F, G, V)
    BY <1>5, <1>6, <1>7 DEF Lined
  <1> QED BY <1>3, <1>8 DEF Line, c2

\* One message less: the second table is the first one now.
LEMMA LineTail ==
  ASSUME NEW S, NEW ch \in Seq(S), ch # <<>>, NEW i, NEW F, NEW L, Line(i, ch, F, L)
  PROVE  \E G \in Tables : Step(i, Head(ch), F, G) /\ Line(i, Tail(ch), G, L)
  <1>1. PICK W \in [1..(Len(ch) + 1) -> Tables] : Lined(i, ch, F, L, W)
    BY DEF Line
  <1> DEFINE n == Len(ch)
             c2 == Tail(ch)
             V == [k \in 1..n |-> W[k + 1]]
             G == W[2]
  <1>2. n \in Nat \ {0} /\ Len(c2) = n - 1 /\ Head(ch) = ch[1] /\ \A k \in 1..(n - 1) : c2[k] = ch[k + 1]
    OBVIOUS
  <1> HIDE DEF n, c2
  <1>w. /\ W \in [1..(n + 1) -> Tables] /\ W[1] = F /\ W[n + 1] = L
        /\ \A k \in 1..n : Step(i, ch[k], W[k], W[k + 1])
        /\ \A k \in 1..(n + 1) : \A p \in Procs : Tidy(W[k][p]) /\ W[k][p].leaked \subseteq L[p].leaked
    BY <1>1 DEF Lined, n
  <1>3. V \in [1..(Len(c2) + 1) -> Tables] /\ G \in Tables
    BY <1>2, <1>w
  <1>4. \A k \in 1..n : V[k] = W[k + 1]
    OBVIOUS
  <1> HIDE DEF V
  <1>5. Step(i, Head(ch), F, G)
    <2>1. Step(i, ch[1], W[1], W[1 + 1])
      BY <1>2, <1>w
    <2> QED BY <1>2, <1>w, <2>1
  <1>6. V[1] = G /\ V[Len(c2) + 1] = L
    BY <1>2, <1>4, <1>w
  <1>7. \A k \in 1..Len(c2) : Step(i, c2[k], V[k], V[k + 1])
    <2> TAKE k \in 1..Len(c2)
    <2>1. k \in 1..n /\ k + 1 \in 1..n /\ k \in 1..(n - 1)
      BY <1>2
    <2>2. Step(i, ch[k + 1], W[k + 1], W[(k + 1) + 1])
      BY <1>w, <2>1
    <2> QED BY <1>2, <1>4, <2>1, <2>2
  <1>8. \A k \in 1..(Len(c2) + 1) : \A p \in Procs : Tidy(V[k][p]) /\ V[k][p].leaked \subseteq L[p].leaked
    <2> TAKE k \in 1..(Len(c2) + 1)
    <2>1. k \in 1..n /\ k + 1 \in 1..(n + 1)
      BY <1>2
    <2> QED BY <1>4, <1>w, <2>1
  <1>9. Lined(i, c2, G, L, V)
    BY <1>6, <1>7, <1>8 DEF Lined
  <1> HIDE DEF G
  <1> QED BY <1>3, <1>5, <1>9 DEF Line, c2

-----------------------------------------------------------------------------
(* The client and the first table.                                         *)

ItemOf(b) == Item(b.addr, b.size, Kind(b.stack = "mmap"))

\* The blocks and the reallocs in progress of the client are some of those of the
\* table, all of them unless its bookkeeping was reset.
BlocksAgree(P, T) ==
  /\ \A b \in P.blocks : /\ ItemOf(b) \in T.blocks /\ b.stack \notin {"free", "enter"}
                         /\ "leaked" \in b.flags => b.addr \in T.leaked
  /\ \A b, c \in P.blocks : b.addr = c.addr => b = c
  /\ ~P.attached => \A x \in T.blocks : \E b \in P.blocks : ItemOf(b) = x
EntryAgrees(re, T) ==
  \E h \in T.held :
    /\ h.tid = re.tid
    /\ re.addr # 0 => /\ h.addr = re.addr /\ h.size = re.size /\ re.stack \in {"malloc", "realloc"}
                      /\ "leaked" \in re.flags => re.addr \in T.leaked
ReallocsAgree(L, attached, T) ==
  /\ \A i \in DOMAIN L : EntryAgrees(L[i], T)
  /\ \A i, j \in DOMAIN L : L[i].tid = L[j].tid => i = j
  /\ ~attached => \A h \in T.held : \E i \in DOMAIN L : L[i].tid = h.tid /\ L[i].addr # 0
Agrees(P, T) ==
  /\ P.known <=> T.known
  /\ P.tracing <=> T.known
  /\ BlocksAgree(P, T)
  /\ ReallocsAgree(P.realloc_list, P.attached, T)
  /\ \A s \in {"free", "enter"} : P.nodes[s].refcnt = 0

\* The blocks of a process and of a table.
LEMMA BlockIs ==
  ASSUME NEW P, Sound(P), NEW b \in P.blocks
  PROVE  /\ b \in Block /\ b.addr \in Nat /\ b.size \in Nat /\ b.stack \in {"malloc", "realloc", "mmap", "free", "enter"}
         /\ ItemOf(b) \in Items /\ ItemOf(b).addr = b.addr /\ ItemOf(b).size = b.size
         /\ ItemOf(b).kind = "map" <=> b.stack = "mmap"
         /\ ItemOf(b).kind = "heap" <=> b.stack # "mmap"
  <1>1. b \in Block
    BY Fields DEF Sound
  <1>2. b.addr \in Nat /\ b.size \in Nat /\ b.stack \in {"malloc", "realloc", "mmap", "free", "enter"}
    BY <1>1 DEF Block, Stacks
  <1> QED BY <1>1, <1>2 DEF ItemOf, Item, Items, Kind

\* process_alloc finds no block in the way.
LEMMA AllocAgrees ==
  ASSUME NEW P, Sound(P), NEW T \in Table, NEW U \in Table, Agrees(P, T), NEW m,
         m.addr \in Nat, m.size \in Nat, AllocStep(m, T, U)
  PROVE  /\ P.tracing /\ rb_search_range(P, m.addr, m.size) = {}
         /\ Agrees(alloc_insert(P, m.addr, m.size, m.op), U)
  <1> DEFINE Q == alloc_insert(P, m.addr, m.size, m.op)
             x == Item(m.addr, m.size, Kind(m.op = "mmap"))
  <1>1. /\ m.op \in {"malloc", "realloc", "mmap"} /\ T.known /\ U.known
        /\ \A y \in T.blocks : ~Begins(y, m.addr, m.size)
        /\ U.blocks = T.blocks \cup {x} /\ U.held = T.held /\ U.leaked = T.leaked
    BY DEF AllocStep
  <1>2. m.op \in Stacks /\ m.op \notin {"free", "enter"} /\ {"free", "enter"} \subseteq Stacks
    BY <1>1 DEF Stacks
  <1>3. rb_search_range(P, m.addr, m.size) = {}
    <2> SUFFICES ASSUME NEW b \in P.blocks, m.addr <= b.addr, b.addr < m.addr + (IF m.size = 0 THEN 1 ELSE m.size)
                 PROVE  FALSE
      BY DEF rb_search_range
    <2>1. ItemOf(b) \in T.blocks /\ ItemOf(b).addr = b.addr
      BY BlockIs DEF Agrees, BlocksAgree
    <2> QED BY <1>1, <2>1 DEF Begins, Width
  <1>4. Q = alloc_insert(P, m.addr, m.size, m.op)
    OBVIOUS
  <1>5. x.addr = m.addr /\ \A b : b.stack = m.op /\ b.addr = m.addr /\ b.size = m.size => ItemOf(b) = x
    BY DEF Item, ItemOf
  <1> HIDE DEF Q, x
  <1>6. /\ OneMore(P.blocks, Q.blocks, m.addr, m.size, m.op, {})
        /\ Q.realloc_list = P.realloc_list /\ SameMarks(P, Q)
        /\ \A r \in Stacks \ {m.op} : Q.nodes[r].refcnt = P.nodes[r].refcnt
    BY <1>2, <1>4, AllocIs
  <1>7. PICK b \in Block : /\ b.stack = m.op /\ b.addr = m.addr /\ b.size = m.size /\ b.flags = {}
                           /\ b \notin P.blocks /\ Q.blocks = P.blocks \cup {b}
    BY <1>6 DEF OneMore
  <1>8. ItemOf(b) = x
    BY <1>5, <1>7
  <1>9. BlocksAgree(Q, U)
    <2>1. \A c \in P.blocks : c.addr # b.addr
      BY <1>3, <1>7 DEF rb_search_range
    <2>2. \A c \in Q.blocks : /\ ItemOf(c) \in U.blocks /\ c.stack \notin {"free", "enter"}
                              /\ "leaked" \in c.flags => c.addr \in U.leaked
      BY <1>1, <1>2, <1>7, <1>8 DEF Agrees, BlocksAgree
    <2>3. \A c, d \in Q.blocks : c.addr = d.addr => c = d
      BY <1>7, <2>1 DEF Agrees, BlocksAgree
    <2>4. ~Q.attached => \A y \in U.blocks : \E c \in Q.blocks : ItemOf(c) = y
      BY <1>1, <1>6, <1>7, <1>8 DEF Agrees, BlocksAgree, SameMarks
    <2> QED BY <2>2, <2>3, <2>4 DEF BlocksAgree
  <1>10. ReallocsAgree(Q.realloc_list, Q.attached, U)
    BY <1>1, <1>6 DEF Agrees, ReallocsAgree, EntryAgrees, SameMarks
  <1>11. Agrees(Q, U) /\ P.tracing
    BY <1>1, <1>2, <1>6, <1>9, <1>10 DEF Agrees, SameMarks
  <1> QED BY <1>3, <1>11 DEF Q

\* A block goes, if the client has it, and what the table knows of it.
LEMMA GoneAgrees ==
  ASSUME NEW P, Sound(P), NEW T \in Table, NEW U \in Table, BlocksAgree(P, T), Tidy(T), NEW Q,
         NEW x \in T.blocks, U.blocks = T.blocks \ {x}, U.leaked = T.leaked,
         Q.attached = P.attached, Q.blocks = {b \in P.blocks : b.addr # x.addr}
  PROVE  BlocksAgree(Q, U)
  <1>1. \A b \in Q.blocks : /\ ItemOf(b) \in U.blocks /\ b.stack \notin {"free", "enter"}
                            /\ "leaked" \in b.flags => b.addr \in U.leaked
    BY BlockIs DEF BlocksAgree
  <1>2. \A b, c \in Q.blocks : b.addr = c.addr => b = c
    BY DEF BlocksAgree
  <1>3. ASSUME ~Q.attached, NEW y \in U.blocks PROVE \E b \in Q.blocks : ItemOf(b) = y
    <2>1. PICK b \in P.blocks : ItemOf(b) = y
      BY <1>3 DEF BlocksAgree
    <2>2. y \in T.blocks /\ y # x /\ b.addr = y.addr
      BY <2>1, BlockIs
    <2>3. b.addr # x.addr
      BY <2>2 DEF Tidy
    <2> QED BY <2>1, <2>3
  <1> QED BY <1>1, <1>2, <1>3 DEF BlocksAgree

\* process_free.
LEMMA FreeAgrees ==
  ASSUME NEW P, Sound(P), NEW T \in Table, NEW U \in Table, Agrees(P, T), Tidy(T), NEW m, FreeStep(m, T, U)
  PROVE  /\ P.tracing
         /\ \A b \in rb_search(P, m.addr) : Agrees(free_block(P, b, m.op, 0), U)
         /\ rb_search(P, m.addr) = {} => Agrees(free_unknown(P, m.op, 0), U)
  <1>1. m.op = "free" /\ T.known /\ U.known /\ U.held = T.held /\ U.leaked = T.leaked
    BY DEF FreeStep
  <1>2. PICK x \in T.blocks : x.addr = m.addr /\ x.kind = "heap" /\ U.blocks = T.blocks \ {x}
    BY DEF FreeStep
  <1>3. ASSUME NEW Q, SameMarks(P, Q), Q.realloc_list = P.realloc_list, Uncharged(P, Q),
               Q.blocks = {b \in P.blocks : b.addr # x.addr}
        PROVE  Agrees(Q, U)
    <2>1. BlocksAgree(Q, U)
      BY <1>1, <1>2, <1>3, GoneAgrees DEF Agrees, SameMarks
    <2>2. ReallocsAgree(Q.realloc_list, Q.attached, U)
      BY <1>1, <1>3 DEF Agrees, ReallocsAgree, EntryAgrees, SameMarks
    <2> QED BY <1>1, <1>3, <2>1, <2>2 DEF Agrees, SameMarks, Uncharged
  <1>4. ASSUME NEW b \in rb_search(P, m.addr) PROVE Agrees(free_block(P, b, m.op, 0), U)
    <2> DEFINE Q == free_block(P, b, m.op, 0)
    <2>1. b \in P.blocks /\ b.addr = x.addr
      BY <1>2, <1>4 DEF rb_search
    <2>2. ItemOf(b) = x
      BY <2>1, BlockIs DEF Agrees, BlocksAgree, Tidy
    <2>3. b.stack \in {"malloc", "realloc"}
      BY <1>2, <2>1, <2>2, BlockIs DEF Agrees, BlocksAgree
    <2>4. /\ Q.blocks = P.blocks \ {b} /\ SameMarks(P, Q) /\ Q.realloc_list = P.realloc_list
          /\ Uncharged(P, Q)
      BY <1>1, <2>1, <2>3, FreeIs
    <2> HIDE DEF Q
    <2>5. Q.blocks = {c \in P.blocks : c.addr # x.addr}
      BY <2>1, <2>4 DEF Agrees, BlocksAgree
    <2>6. Agrees(Q, U)
      BY <1>3, <2>4, <2>5
    <2> QED BY <2>6 DEF Q
  <1>5. ASSUME rb_search(P, m.addr) = {} PROVE Agrees(free_unknown(P, m.op, 0), U)
    <2> DEFINE Q == free_unknown(P, m.op, 0)
    <2>1. \A b \in P.blocks : b.addr # x.addr
      BY <1>2, <1>5 DEF rb_search
    <2>2. P.attached
      BY <2>1, BlockIs DEF Agrees, BlocksAgree
    <2>3. /\ Q.blocks = P.blocks /\ SameMarks(P, Q) /\ Q.realloc_list = P.realloc_list
          /\ Uncharged(P, Q)
      BY <1>1, <2>2, UnknownIs
    <2> HIDE DEF Q
    <2>4. Q.blocks = {c \in P.blocks : c.addr # x.addr}
      BY <2>1, <2>3
    <2>5. Agrees(Q, U)
      BY <1>3, <2>3, <2>4
    <2> QED BY <2>5 DEF Q
  <1> QED BY <1>1, <1>4, <1>5 DEF Agrees

\* A realloc joins those in progress.
LEMMA EntryAppended ==
  ASSUME NEW L \in Seq(ReallocEntry), NEW att, NEW T \in Table, NEW U \in Table, ReallocsAgree(L, att, T),
         NEW t, NEW h, h.tid = t, \A g \in T.held : g.tid # t, U.held = T.held \cup {h}, U.leaked = T.leaked,
         NEW e, e.tid = t, EntryAgrees(e, U), ~att => e.addr # 0
  PROVE  ReallocsAgree(Append(L, e), att, U)
  <1> DEFINE M == Append(L, e)
             n == Len(L)
  <1>1. n \in Nat /\ DOMAIN L = 1..n /\ DOMAIN M = 1..(n + 1) /\ M[n + 1] = e /\ \A i \in 1..n : M[i] = L[i]
    OBVIOUS
  <1> HIDE DEF M, n
  <1>2. \A i \in DOMAIN L : EntryAgrees(L[i], U) /\ L[i].tid # t
    BY DEF ReallocsAgree, EntryAgrees
  <1>3. \A i \in DOMAIN M : i = n + 1 \/ i \in DOMAIN L
    BY <1>1
  <1>4. \A i \in DOMAIN M : EntryAgrees(M[i], U)
    BY <1>1, <1>2, <1>3
  <1>5. \A i, j \in DOMAIN M : M[i].tid = M[j].tid => i = j
    BY <1>1, <1>2, <1>3 DEF ReallocsAgree
  <1>6. ASSUME ~att, NEW g \in U.held PROVE \E i \in DOMAIN M : M[i].tid = g.tid /\ M[i].addr # 0
    <2>1. CASE g = h
      BY <1>1, <1>6, <2>1
    <2>2. CASE g \in T.held
      <3>1. PICK i \in DOMAIN L : L[i].tid = g.tid /\ L[i].addr # 0
        BY <1>6, <2>2 DEF ReallocsAgree
      <3> QED BY <1>1, <3>1
    <2> QED BY <1>6, <2>1, <2>2
  <1> QED BY <1>4, <1>5, <1>6 DEF ReallocsAgree, M

\* process_free of MT_REALLOC_ENTER.
LEMMA EnterAgrees ==
  ASSUME NEW P, Sound(P), NEW T \in Table, NEW U \in Table, Agrees(P, T), Tidy(T), NEW m,
         m.tid \in Threads, m.addr # 0, EnterStep(m, T, U)
  PROVE  /\ P.tracing
         /\ \A b \in rb_search(P, m.addr) : Agrees(free_block(P, b, m.op, m.tid), U)
         /\ rb_search(P, m.addr) = {} => Agrees(free_unknown(P, m.op, m.tid), U)
  <1>1. m.op = "enter" /\ T.known /\ U.known /\ U.leaked = T.leaked /\ \A h \in T.held : h.tid # m.tid
    BY DEF EnterStep
  <1>2. PICK x \in T.blocks : /\ x.addr = m.addr /\ x.kind = "heap" /\ U.blocks = T.blocks \ {x}
                             /\ U.held = T.held \cup {Hold(m.tid, x.addr, x.size)}
    BY DEF EnterStep
  <1> DEFINE h == Hold(m.tid, x.addr, x.size)
  <1>h. h.tid = m.tid /\ h.addr = x.addr /\ h.size = x.size /\ U.held = T.held \cup {h}
    BY <1>2 DEF Hold
  <1> HIDE DEF h
  <1>l. P.realloc_list \in Seq(ReallocEntry)
    BY Fields DEF Sound
  <1>3. ASSUME NEW Q, SameMarks(P, Q), Uncharged(P, Q),
               Q.blocks = {b \in P.blocks : b.addr # x.addr},
               NEW e, Q.realloc_list = Append(P.realloc_list, e), e.tid = m.tid, EntryAgrees(e, U),
               ~P.attached => e.addr # 0
        PROVE  Agrees(Q, U)
    <2>1. BlocksAgree(Q, U)
      BY <1>1, <1>2, <1>3, GoneAgrees DEF Agrees, SameMarks
    <2>2. ReallocsAgree(Append(P.realloc_list, e), P.attached, U)
      BY <1>1, <1>h, <1>l, <1>3, EntryAppended DEF Agrees
    <2>3. ReallocsAgree(Q.realloc_list, Q.attached, U)
      BY <1>3, <2>2 DEF SameMarks
    <2> QED BY <1>1, <1>3, <2>1, <2>3 DEF Agrees, SameMarks, Uncharged
  <1>4. ASSUME NEW b \in rb_search(P, m.addr) PROVE Agrees(free_block(P, b, m.op, m.tid), U)
    <2> DEFINE Q == free_block(P, b, m.op, m.tid)
               e == EntryFor(b, m.tid)
    <2>1. b \in P.blocks /\ b.addr = x.addr /\ b.addr # 0
      BY <1>2, <1>4 DEF rb_search
    <2>2. ItemOf(b) = x /\ x.size = b.size
      BY <2>1, BlockIs DEF Agrees, BlocksAgree, Tidy
    <2>3. b.stack \in {"malloc", "realloc"} /\ ("leaked" \in b.flags => b.addr \in U.leaked)
      BY <1>1, <1>2, <2>1, <2>2, BlockIs DEF Agrees, BlocksAgree
    <2>4. /\ Q.blocks = P.blocks \ {b} /\ SameMarks(P, Q) /\ Q.realloc_list = Append(P.realloc_list, e)
          /\ Uncharged(P, Q)
      <3>1. Q = free_block(P, b, m.op, m.tid)
        OBVIOUS
      <3> HIDE DEF Q, e
      <3>2. /\ Q.blocks = P.blocks \ {b} /\ SameMarks(P, Q)
            /\ Q.realloc_list = IF m.op = "enter" THEN Append(P.realloc_list, EntryFor(b, m.tid)) ELSE P.realloc_list
            /\ b.stack \in {"malloc", "realloc"} => Uncharged(P, Q)
        BY <2>1, <3>1, FreeIs
      <3> QED BY <1>1, <2>3, <3>2 DEF e
    <2>5. e.tid = m.tid /\ e.addr = b.addr /\ e.size = b.size /\ e.stack = b.stack /\ e.flags = b.flags
      BY DEF EntryFor
    <2> HIDE DEF Q, e
    <2>6. Q.blocks = {c \in P.blocks : c.addr # x.addr}
      BY <2>1, <2>4 DEF Agrees, BlocksAgree
    <2>7. EntryAgrees(e, U)
      BY <1>h, <2>1, <2>2, <2>3, <2>5 DEF EntryAgrees
    <2>8. Agrees(Q, U)
      BY <1>3, <2>1, <2>4, <2>5, <2>6, <2>7
    <2> QED BY <2>8 DEF Q
  <1>5. ASSUME rb_search(P, m.addr) = {} PROVE Agrees(free_unknown(P, m.op, m.tid), U)
    <2> DEFINE Q == free_unknown(P, m.op, m.tid)
               e == EntryForNone(m.tid)
    <2>1. \A b \in P.blocks : b.addr # x.addr
      BY <1>2, <1>5 DEF rb_search
    <2>2. P.attached
      BY <2>1, BlockIs DEF Agrees, BlocksAgree
    <2>3. /\ Q.blocks = P.blocks /\ SameMarks(P, Q) /\ Q.realloc_list = Append(P.realloc_list, e)
          /\ Uncharged(P, Q)
      <3>1. Q = free_unknown(P, m.op, m.tid)
        OBVIOUS
      <3> HIDE DEF Q, e
      <3>2. /\ Q.blocks = P.blocks /\ SameMarks(P, Q)
            /\ Q.realloc_list = IF m.op = "enter" THEN Append(P.realloc_list, EntryForNone(m.tid)) ELSE P.realloc_list
            /\ P.attached => Uncharged(P, Q)
        BY <3>1, UnknownIs
      <3> QED BY <1>1, <2>2, <3>2 DEF e
    <2>4. e.tid = m.tid /\ e.addr = 0
      BY DEF EntryForNone
    <2> HIDE DEF Q, e
    <2>5. Q.blocks = {c \in P.blocks : c.addr # x.addr}
      BY <2>1, <2>3
    <2>6. EntryAgrees(e, U)
      BY <1>h, <2>4 DEF EntryAgrees
    <2>7. Agrees(Q, U)
      BY <1>3, <2>2, <2>3, <2>4, <2>5, <2>6
    <2> QED BY <2>7 DEF Q
  <1> QED BY <1>1, <1>4, <1>5 DEF Agrees

\* A realloc leaves those in progress.
LEMMA EntryRemoved ==
  ASSUME NEW L \in Seq(ReallocEntry), NEW i \in DOMAIN L, NEW att, NEW T \in Table, NEW U \in Table,
         ReallocsAgree(L, att, T), NEW h, h.tid = L[i].tid, U.held = T.held \ {h}, U.leaked = T.leaked,
         \A g \in T.held : g.tid = L[i].tid => g = h
  PROVE  ReallocsAgree(Without(L, i), att, U)
  <1> DEFINE M == Without(L, i)
             n == Len(L)
             k(j) == IF j < i THEN j ELSE j + 1
  <1>1. n \in Nat /\ DOMAIN L = 1..n /\ i \in 1..n
    OBVIOUS
  <1>2. DOMAIN M = 1..(n - 1) /\ \A j \in 1..(n - 1) : M[j] = L[k(j)]
    BY WithoutIs
  <1> HIDE DEF M, n
  <1>3. \A j \in 1..(n - 1) : k(j) \in DOMAIN L /\ k(j) # i
    BY <1>1
  <1>4. \A j, l \in 1..(n - 1) : k(j) = k(l) => j = l
    BY <1>1
  <1>5. \A l \in DOMAIN L : l # i => \E j \in 1..(n - 1) : k(j) = l
    <2> TAKE l \in DOMAIN L
    <2> HAVE l # i
    <2>1. CASE l < i
      BY <1>1, <2>1
    <2>2. CASE l > i
      <3>1. l - 1 \in 1..(n - 1) /\ k(l - 1) = l
        BY <1>1, <2>2
      <3> QED BY <3>1
    <2> QED BY <1>1, <2>1, <2>2
  <1> HIDE DEF k
  <1>6. \A l \in DOMAIN L : l # i => L[l].tid # L[i].tid
    BY DEF ReallocsAgree
  <1>7. \A l \in DOMAIN L : l # i => EntryAgrees(L[l], U)
    BY <1>6 DEF ReallocsAgree, EntryAgrees
  <1>8. \A j \in DOMAIN M : EntryAgrees(M[j], U)
    BY <1>2, <1>3, <1>7
  <1>9. \A j, l \in DOMAIN M : M[j].tid = M[l].tid => j = l
    BY <1>2, <1>3, <1>4 DEF ReallocsAgree
  <1>10. ASSUME ~att, NEW g \in U.held PROVE \E j \in DOMAIN M : M[j].tid = g.tid /\ M[j].addr # 0
    <2>1. g \in T.held /\ g # h
      BY <1>10
    <2>2. PICK l \in DOMAIN L : L[l].tid = g.tid /\ L[l].addr # 0
      BY <1>10, <2>1 DEF ReallocsAgree
    <2>3. l # i
      BY <2>1, <2>2
    <2>4. PICK j \in 1..(n - 1) : k(j) = l
      BY <1>5, <2>3
    <2> QED BY <1>2, <2>2, <2>4
  <1> QED BY <1>8, <1>9, <1>10 DEF ReallocsAgree, M

\* A block comes back.
LEMMA BackAgrees ==
  ASSUME NEW P, Sound(P), NEW T \in Table, NEW U \in Table, BlocksAgree(P, T), NEW Q,
         Q.attached = P.attached, U.leaked = T.leaked,
         NEW a \in Nat, NEW n \in Nat, NEW s \in {"malloc", "realloc"}, NEW flags,
         \A x \in T.blocks : x.addr # a, U.blocks = T.blocks \cup {Item(a, n, "heap")},
         OneMore(P.blocks, Q.blocks, a, n, s, flags), "leaked" \in flags => a \in T.leaked
  PROVE  BlocksAgree(Q, U)
  <1> DEFINE x == Item(a, n, "heap")
  <1>1. PICK b \in Block : /\ b.stack = s /\ b.addr = a /\ b.size = n /\ b.flags = flags
                           /\ b \notin P.blocks /\ Q.blocks = P.blocks \cup {b}
    BY DEF OneMore
  <1>2. ItemOf(b) = x
    BY <1>1 DEF ItemOf, Kind
  <1>3. U.blocks = T.blocks \cup {x}
    OBVIOUS
  <1> HIDE DEF x
  <1>4. \A c \in P.blocks : c.addr # b.addr
    BY <1>1, BlockIs DEF BlocksAgree
  <1>5. \A c \in Q.blocks : /\ ItemOf(c) \in U.blocks /\ c.stack \notin {"free", "enter"}
                            /\ "leaked" \in c.flags => c.addr \in U.leaked
    BY <1>1, <1>2, <1>3 DEF BlocksAgree
  <1>6. \A c, d \in Q.blocks : c.addr = d.addr => c = d
    BY <1>1, <1>4 DEF BlocksAgree
  <1>7. ~Q.attached => \A y \in U.blocks : \E c \in Q.blocks : ItemOf(c) = y
    BY <1>1, <1>2, <1>3 DEF BlocksAgree
  <1> QED BY <1>5, <1>6, <1>7 DEF BlocksAgree

\* process_realloc_done.
LEMMA DoneAgrees ==
  ASSUME NEW P, Sound(P), NEW T \in Table, NEW U \in Table, Agrees(P, T), NEW m, DoneStep(m, T, U)
  PROVE  /\ P.tracing
         /\ \A i \in EntryOf(P, m.tid) : Agrees(realloc_done(P, m.addr, i), U)
         /\ EntryOf(P, m.tid) = {} => Agrees(P, U)
  <1>1. m.op = "done" /\ T.known /\ U.known /\ U.leaked = T.leaked
    BY DEF DoneStep
  <1>2. PICK h \in T.held :
          /\ h.tid = m.tid /\ \A g \in T.held : g.tid = m.tid => g = h
          /\ U.held = T.held \ {h}
          /\ m.addr # 0 => U.blocks = T.blocks
          /\ m.addr = 0 => /\ \A x \in T.blocks : x.addr # h.addr
                           /\ U.blocks = T.blocks \cup {Item(h.addr, h.size, "heap")}
    BY DEF DoneStep
  <1> DEFINE L == P.realloc_list
  <1>3. L \in Seq(ReallocEntry) /\ ReallocsAgree(L, P.attached, T)
    BY Fields DEF Sound, Agrees
  <1> HIDE DEF L
  <1>4. ASSUME NEW Q, Q.attached = P.attached, Q.blocks = P.blocks, P.attached \/ U.blocks = T.blocks
        PROVE  BlocksAgree(Q, U)
    <2>1. T.blocks \subseteq U.blocks
      BY <1>2
    <2> QED BY <1>1, <1>4, <2>1 DEF Agrees, BlocksAgree
  <1>5. ASSUME EntryOf(P, m.tid) = {} PROVE Agrees(P, U)
    <2>1. \A i \in DOMAIN L : L[i].tid # m.tid
      <3> SUFFICES ASSUME NEW i \in DOMAIN L, L[i].tid = m.tid PROVE FALSE
        OBVIOUS
      <3>1. \A j \in 1..(i - 1) : j \in DOMAIN L /\ j # i
        BY <1>3
      <3>2. \A j \in 1..(i - 1) : L[j].tid # m.tid
        BY <1>3, <3>1 DEF ReallocsAgree
      <3> QED BY <1>5, <3>2 DEF EntryOf, L
    <2>2. P.attached
      BY <1>2, <1>3, <2>1 DEF ReallocsAgree
    <2>3. BlocksAgree(P, U)
      BY <1>4, <2>2
    <2>4. ReallocsAgree(L, P.attached, U)
      BY <1>1, <1>2, <1>3, <2>1, <2>2 DEF ReallocsAgree, EntryAgrees
    <2> QED BY <1>1, <2>3, <2>4 DEF Agrees, L
  <1>6. ASSUME NEW i \in EntryOf(P, m.tid) PROVE Agrees(realloc_done(P, m.addr, i), U)
    <2> DEFINE Q == realloc_done(P, m.addr, i)
               re == L[i]
    <2>1. i \in DOMAIN P.realloc_list /\ i \in DOMAIN L /\ re.tid = m.tid /\ re = P.realloc_list[i]
      BY <1>6 DEF EntryOf, L
    <2>2. Q = realloc_done(P, m.addr, i)
      OBVIOUS
    <2>3. re \in ReallocEntry
      BY <1>3, <2>1
    <2> HIDE DEF Q, re
    <2>4. /\ Q.realloc_list = Without(P.realloc_list, i) /\ SameMarks(P, Q)
          /\ ~(m.addr = 0 /\ re.addr # 0) => Q.blocks = P.blocks
          /\ m.addr = 0 /\ re.addr # 0 => OneMore(P.blocks, Q.blocks, re.addr, re.size, re.stack, re.flags)
          /\ re.addr = 0 \/ re.stack \notin {"free", "enter"} => Uncharged(P, Q)
      BY <2>1, <2>2, DoneIs
    <2>5. /\ re.addr # 0 => /\ h.addr = re.addr /\ h.size = re.size /\ re.stack \in {"malloc", "realloc"}
                            /\ "leaked" \in re.flags => re.addr \in T.leaked
      <3>1. EntryAgrees(re, T)
        BY <1>3, <2>1 DEF ReallocsAgree, re
      <3> QED BY <1>2, <2>1, <3>1 DEF EntryAgrees
    <2>6. re.addr = 0 => P.attached
      <3>1. \A j \in DOMAIN L : L[j].tid = m.tid => j = i
        BY <1>3, <2>1 DEF ReallocsAgree, re
      <3> QED BY <1>2, <1>3, <2>1, <3>1 DEF ReallocsAgree, re
    <2>7. BlocksAgree(Q, U)
      <3>1. CASE m.addr = 0 /\ re.addr # 0
        <4>1. re.addr \in Nat /\ re.size \in Nat
          BY <2>3 DEF ReallocEntry
        <4> QED BY <1>1, <1>2, <2>4, <2>5, <3>1, <4>1, BackAgrees DEF Agrees, SameMarks
      <3>2. CASE ~(m.addr = 0 /\ re.addr # 0)
        BY <1>2, <1>4, <2>4, <2>6, <3>2 DEF SameMarks
      <3> QED BY <3>1, <3>2
    <2>8. ReallocsAgree(Without(L, i), P.attached, U)
      BY <1>1, <1>2, <1>3, <2>1, EntryRemoved DEF re
    <2>9. ReallocsAgree(Q.realloc_list, Q.attached, U)
      BY <2>4, <2>8 DEF SameMarks, L
    <2>10. \A s \in {"free", "enter"} : Q.nodes[s].refcnt = 0
      BY <2>4, <2>5 DEF Agrees, Uncharged
    <2>11. Agrees(Q, U)
      BY <1>1, <2>4, <2>7, <2>9, <2>10 DEF Agrees, SameMarks
    <2> QED BY <2>11 DEF Q
  <1> QED BY <1>1, <1>5, <1>6 DEF Agrees

\* process_munmap: one turn of its loop.
LEMMA UnmapAgrees ==
  ASSUME NEW P, Sound(P), NEW T \in Table, NEW U \in Table, Agrees(P, T), Tidy(T), NEW m,
         m.addr \in Nat, m.size \in Nat, UnmapStep(m, T, U)
  PROVE  /\ P.tracing
         /\ rb_search_range(P, m.addr, m.size) = {} => Agrees(P, U)
         /\ \A b \in rb_search_range(P, m.addr, m.size) :
              /\ b.stack = "mmap" /\ b.addr = m.addr /\ m.size <= b.size
              /\ m.size < b.size => Agrees(munmap_prefix(P, b, m.size), U)
              /\ m.size = b.size => Agrees(rb_delete_block(P, b), U)
  <1>1. m.op = "munmap" /\ T.known /\ U.known /\ U.held = T.held /\ U.leaked = T.leaked
    BY DEF UnmapStep
  <1>2. PICK x \in T.blocks :
          /\ x.addr = m.addr /\ x.kind = "map" /\ m.size <= x.size
          /\ \A y \in T.blocks : Begins(y, m.addr, m.size) => y = x
          /\ m.size = x.size => U.blocks = T.blocks \ {x}
          /\ m.size < x.size =>
               /\ \A y \in T.blocks : y.addr # m.addr + m.size
               /\ U.blocks = (T.blocks \ {x}) \cup {Item(m.addr + m.size, x.size - m.size, "map")}
    BY DEF UnmapStep
  <1> DEFINE D == rb_search_range(P, m.addr, m.size)
  <1>x. x.addr \in Nat /\ x.size \in Nat
    BY DEF Table, Items
  <1>3. \A b \in P.blocks : b \in D <=> Begins(b, m.addr, m.size)
    BY DEF rb_search_range, Begins, Width
  <1>4. \A b \in P.blocks : b \in D => ItemOf(b) = x
    <2> TAKE b \in P.blocks
    <2> HAVE b \in D
    <2>1. Begins(ItemOf(b), m.addr, m.size)
      BY <1>3, BlockIs DEF Begins
    <2> QED BY <1>2, <2>1 DEF Agrees, BlocksAgree
  <1>5. \A b \in P.blocks : b.addr = x.addr => b \in D
    BY <1>2, <1>3, BlockIs DEF Begins, Width
  <1>d. D \subseteq P.blocks
    BY DEF rb_search_range
  <1> HIDE DEF D
  <1>6. ReallocsAgree(P.realloc_list, P.attached, U)
    BY <1>1 DEF Agrees, ReallocsAgree, EntryAgrees
  <1>7. ASSUME D = {} PROVE Agrees(P, U)
    <2>1. P.attached
      BY <1>5, <1>7, BlockIs DEF Agrees, BlocksAgree
    <2>2. \A b \in P.blocks : ItemOf(b) # x
      BY <1>5, <1>7, BlockIs
    <2>3. T.blocks \ {x} \subseteq U.blocks
      BY <1>2, <1>x
    <2>4. BlocksAgree(P, U)
      BY <1>1, <2>1, <2>2, <2>3 DEF Agrees, BlocksAgree
    <2> QED BY <1>1, <1>6, <2>4 DEF Agrees
  <1>8. ASSUME NEW b \in D
        PROVE  /\ b.stack = "mmap" /\ b.addr = m.addr /\ m.size <= b.size
               /\ m.size < b.size => Agrees(munmap_prefix(P, b, m.size), U)
               /\ m.size = b.size => Agrees(rb_delete_block(P, b), U)
    <2>1. b \in P.blocks /\ ItemOf(b) = x
      BY <1>d, <1>4, <1>8
    <2>2. b.stack = "mmap" /\ b.addr = x.addr /\ b.size = x.size /\ b.addr \in Nat /\ b.size \in Nat
      BY <1>2, <2>1, BlockIs
    <2>3. ASSUME m.size = b.size PROVE Agrees(rb_delete_block(P, b), U)
      <3> DEFINE Q == rb_delete_block(P, b)
      <3>1. Q = rb_delete_block(P, b) /\ P \in Process /\ {"free", "enter"} \subseteq Stacks
        BY DEF Sound, Stacks
      <3> HIDE DEF Q
      <3>2. Q.realloc_list = P.realloc_list /\ Q.blocks = P.blocks \ {b} /\ SameMarks(P, Q)
        BY <2>1, <3>1, DeleteIs
      <3>3. \A r \in Stacks : Q.nodes[r].refcnt = P.nodes[r].refcnt - (IF r = b.stack THEN 1 ELSE 0)
        BY <2>1, <3>1, DeleteIs
      <3>4. \A s \in {"free", "enter"} : Q.nodes[s].refcnt = 0
        BY <2>2, <3>1, <3>3 DEF Agrees
      <3>5. Q.blocks = {c \in P.blocks : c.addr # x.addr}
        BY <2>1, <2>2, <3>2 DEF Agrees, BlocksAgree
      <3>6. BlocksAgree(Q, U)
        BY <1>1, <1>2, <2>2, <2>3, <3>2, <3>5, GoneAgrees DEF Agrees, SameMarks
      <3>7. Agrees(Q, U)
        BY <1>1, <1>6, <3>2, <3>4, <3>6 DEF Agrees, SameMarks
      <3> QED BY <3>7 DEF Q
    <2>4. ASSUME m.size < b.size PROVE Agrees(munmap_prefix(P, b, m.size), U)
      <3> DEFINE Q == munmap_prefix(P, b, m.size)
                 y == Item(m.addr + m.size, x.size - m.size, "map")
      <3>1. Q = munmap_prefix(P, b, m.size) /\ {"free", "enter"} \subseteq Stacks
        BY DEF Stacks
      <3> HIDE DEF Q
      <3>2. PICK c \in Block : /\ c.id = b.id /\ c.stack = b.stack /\ c.addr = b.addr + m.size
                               /\ c.size = b.size - m.size /\ c.flags = b.flags \ {"leaked"}
                               /\ Q.blocks = (P.blocks \ {b}) \cup {c}
        BY <2>1, <2>4, <3>1, PrefixIs
      <3>3. SameMarks(P, Q) /\ SameRefs(P, Q) /\ Q.realloc_list = P.realloc_list
        BY <2>1, <2>4, <3>1, PrefixIs
      <3>4. ItemOf(c) = y /\ U.blocks = (T.blocks \ {x}) \cup {y} /\ \A z \in T.blocks : z.addr # c.addr
        BY <1>2, <2>2, <2>4, <3>2 DEF ItemOf, Kind
      <3> HIDE DEF y
      <3>5. \A d \in P.blocks : d.addr # c.addr /\ (d # b => ItemOf(d) # x /\ ItemOf(d) \in T.blocks)
        BY <2>1, <2>2, <3>4, BlockIs DEF Agrees, BlocksAgree
      <3>6. \A d \in Q.blocks : /\ ItemOf(d) \in U.blocks /\ d.stack \notin {"free", "enter"}
                                /\ "leaked" \in d.flags => d.addr \in U.leaked
        BY <1>1, <2>2, <3>2, <3>4, <3>5 DEF Agrees, BlocksAgree
      <3>7. \A d, e \in Q.blocks : d.addr = e.addr => d = e
        BY <3>2, <3>5 DEF Agrees, BlocksAgree
      <3>8. ASSUME ~Q.attached, NEW z \in U.blocks PROVE \E d \in Q.blocks : ItemOf(d) = z
        <4>1. CASE z = y
          BY <3>2, <3>4, <4>1
        <4>2. CASE z \in T.blocks /\ z # x
          <5>1. PICK d \in P.blocks : ItemOf(d) = z
            BY <3>3, <3>8, <4>2 DEF Agrees, BlocksAgree, SameMarks
          <5> QED BY <2>1, <3>2, <4>2, <5>1
        <4> QED BY <3>4, <3>8, <4>1, <4>2
      <3>9. BlocksAgree(Q, U)
        BY <3>6, <3>7, <3>8 DEF BlocksAgree
      <3>10. \A s \in {"free", "enter"} : Q.nodes[s].refcnt = 0
        BY <3>1, <3>3 DEF Agrees, SameRefs
      <3>11. Agrees(Q, U)
        BY <1>1, <1>6, <3>3, <3>9, <3>10 DEF Agrees, SameMarks
      <3> QED BY <3>11 DEF Q
    <2> QED BY <1>2, <2>2, <2>3, <2>4
  <1> QED BY <1>1, <1>7, <1>8 DEF Agrees, D

\* Blocks that are flagged.
LEMMA FlagAgrees ==
  ASSUME NEW P, Sound(P), NEW T \in Table, NEW U \in Table, BlocksAgree(P, T), NEW Q,
         Q.attached = P.attached, U.blocks = T.blocks, T.leaked \subseteq U.leaked,
         NEW flag \in {"leaked", "scanned"}, NEW D \in SUBSET P.blocks, Q.blocks = Flagged(P.blocks, D, flag),
         flag = "leaked" => \A b \in D : b.addr \in U.leaked
  PROVE  BlocksAgree(Q, U)
  <1>1. P.blocks \in SUBSET Block
    BY Fields DEF Sound
  <1>2. PICK f \in [P.blocks -> Block] : Flags(f, P.blocks, D, flag) /\ Flagged(P.blocks, D, flag) = Image(f, P.blocks)
    BY <1>1, FlaggedBy
  <1>3. \A c \in Q.blocks : \E b \in P.blocks : c = f[b]
    BY <1>2 DEF Image
  <1>4. \A b \in P.blocks : f[b] \in Q.blocks
    BY <1>2 DEF Image
  <1>5. \A b \in P.blocks : /\ f[b].stack = b.stack /\ f[b].addr = b.addr /\ f[b].size = b.size
                            /\ f[b].flags = IF b \in D THEN b.flags \cup {flag} ELSE b.flags
    BY <1>2 DEF Flags
  <1>6. \A b \in P.blocks : ItemOf(f[b]) = ItemOf(b)
    BY <1>5 DEF ItemOf
  <1>7. \A b \in P.blocks : ItemOf(b) \in T.blocks /\ b.stack \notin {"free", "enter"} /\ ("leaked" \in b.flags => b.addr \in T.leaked)
    BY DEF BlocksAgree
  <1>8. ASSUME NEW c \in Q.blocks
        PROVE  /\ ItemOf(c) \in U.blocks /\ c.stack \notin {"free", "enter"}
               /\ "leaked" \in c.flags => c.addr \in U.leaked
    <2>1. PICK b \in P.blocks : c = f[b]
      BY <1>3, <1>8
    <2>2. /\ c.stack = b.stack /\ c.addr = b.addr /\ ItemOf(c) = ItemOf(b)
          /\ c.flags = IF b \in D THEN b.flags \cup {flag} ELSE b.flags
      BY <1>5, <1>6, <2>1
    <2>3. ItemOf(c) \in U.blocks /\ c.stack \notin {"free", "enter"}
      BY <1>7, <2>2
    <2>4. ASSUME "leaked" \in c.flags PROVE c.addr \in U.leaked
      <3>1. CASE "leaked" \in b.flags
        BY <1>7, <2>2, <3>1
      <3>2. CASE "leaked" \notin b.flags
        BY <2>2, <2>4, <3>2
      <3> QED BY <3>1, <3>2
    <2> QED BY <2>3, <2>4
  <1>9. ASSUME NEW c \in Q.blocks, NEW d \in Q.blocks, c.addr = d.addr PROVE c = d
    <2>1. PICK b \in P.blocks : c = f[b]
      BY <1>3, <1>9
    <2>2. PICK e \in P.blocks : d = f[e]
      BY <1>3, <1>9
    <2>3. b.addr = e.addr
      BY <1>5, <1>9, <2>1, <2>2
    <2> QED BY <2>1, <2>2, <2>3 DEF BlocksAgree
  <1>10. ASSUME ~Q.attached, NEW x \in U.blocks PROVE \E c \in Q.blocks : ItemOf(c) = x
    <2>1. PICK b \in P.blocks : ItemOf(b) = x
      BY <1>10 DEF BlocksAgree
    <2> QED BY <1>4, <1>6, <2>1
  <1> QED BY <1>8, <1>9, <1>10 DEF BlocksAgree

\* process_scan.
LEMMA ScanAgrees ==
  ASSUME NEW P, Sound(P), NEW T \in Table, NEW U \in Table, Agrees(P, T), NEW m, ScanStep(m, T, U)
  PROVE  Agrees(process_scan(P, m.leaks), U)
  <1> DEFINE Q == process_scan(P, m.leaks)
             D == Missed(P, m.leaks)
  <1>1. Q = process_scan(P, m.leaks) /\ D = Missed(P, m.leaks)
    OBVIOUS
  <1>2. \A b \in D : b \in P.blocks /\ b.addr \in m.leaks
    BY DEF Missed
  <1> HIDE DEF Q, D
  <1>3. /\ Q.blocks = Flagged(P.blocks, D, "leaked") /\ Q.realloc_list = P.realloc_list
        /\ SameMarks(P, Q) /\ SameRefs(P, Q) /\ D \in SUBSET P.blocks
    BY <1>1, ScanIs
  <1>4. /\ T.known /\ U.known /\ U.blocks = T.blocks /\ U.held = T.held
        /\ U.leaked = T.leaked \cup {a \in m.leaks : \E x \in T.blocks : x.addr = a}
    BY DEF ScanStep
  <1>5. \A b \in D : b.addr \in U.leaked
    BY <1>2, <1>4, BlockIs DEF Agrees, BlocksAgree
  <1>6. BlocksAgree(Q, U)
    BY <1>3, <1>4, <1>5, FlagAgrees DEF Agrees, SameMarks
  <1>7. ReallocsAgree(Q.realloc_list, Q.attached, U)
    BY <1>3, <1>4 DEF Agrees, ReallocsAgree, EntryAgrees, SameMarks
  <1>8. \A s \in {"free", "enter"} : Q.nodes[s].refcnt = 0
    BY <1>3 DEF Agrees, SameRefs, Stacks
  <1>9. Agrees(Q, U)
    BY <1>3, <1>4, <1>6, <1>7, <1>8 DEF Agrees, SameMarks
  <1> QED BY <1>9 DEF Q

\* process_leaks_scan.
LEMMA LeaksScanAgrees ==
  ASSUME NEW P, Sound(P), NEW T \in Table, Agrees(P, T), NEW mode \in {"all", "new", "leak"}
  PROVE  Agrees(leaks_scan(P, mode), T)
  <1> DEFINE Q == leaks_scan(P, mode)
             D == ScanSet(P, mode)
  <1>1. Q = leaks_scan(P, mode)
    OBVIOUS
  <1> HIDE DEF Q
  <1>2. /\ Q.blocks = Flagged(P.blocks, D, "scanned") /\ Q.nodes = P.nodes
        /\ Q.realloc_list = P.realloc_list /\ SameMarks(P, Q) /\ D \in SUBSET P.blocks
    BY <1>1, LeaksScanIs
  <1> HIDE DEF D
  <1>3. BlocksAgree(Q, T)
    BY <1>2, FlagAgrees DEF Agrees, SameMarks
  <1>4. Agrees(Q, T)
    BY <1>2, <1>3 DEF Agrees, SameMarks
  <1> QED BY <1>4 DEF Q

\* process_new: nothing is known of the process, the one that is traced from its
\* start or one that is gone.
LEMMA NewAgrees ==
  ASSUME NEW k \in BOOLEAN, NEW T \in Table, T.known <=> k, T.blocks = {}, T.held = {}
  PROVE  Agrees(process_new(k, k, FALSE), T)
  <1> DEFINE Q == process_new(k, k, FALSE)
  <1>1. /\ Q.known = k /\ Q.tracing = k /\ Q.attached = FALSE /\ Q.blocks = {} /\ Q.realloc_list = <<>>
        /\ \A s \in {"free", "enter"} : Q.nodes[s].refcnt = 0
    BY DEF process_new, Stacks, NoNode
  <1>2. DOMAIN <<>> = {}
    OBVIOUS
  <1> HIDE DEF Q
  <1>3. BlocksAgree(Q, T) /\ ReallocsAgree(Q.realloc_list, Q.attached, T)
    BY <1>1, <1>2 DEF BlocksAgree, ReallocsAgree
  <1>4. Agrees(Q, T)
    BY <1>1, <1>3 DEF Agrees
  <1> QED BY <1>4 DEF Q

\* process_duplicate, for a new process or one that had the same pid.
LEMMA ForkAgrees ==
  ASSUME NEW P, Sound(P), NEW copy, Sound(copy), NEW T \in Table, NEW U \in Table, NEW V \in Table,
         Agrees(P, T), Agrees(copy, V), NEW m, ForkStep(m, T, U, V),
         NEW old, old = IF P.known THEN P ELSE process_new(TRUE, TRUE, FALSE)
  PROVE  Agrees(process_duplicate(old, copy), U)
  <1> DEFINE Q == process_duplicate(old, copy)
  <1>1. U.known /\ U.blocks = V.blocks /\ U.held = {} /\ V.leaked \subseteq U.leaked
    BY DEF ForkStep
  <1>2. old.tracing
    BY DEF Agrees, process_new
  <1>3. \A s \in {"free", "enter"} : On(copy.blocks, s) = {}
    BY DEF On, Agrees, BlocksAgree
  <1>4. /\ Q.known = TRUE /\ Q.tracing = old.tracing /\ Q.attached = copy.attached /\ Q.blocks = copy.blocks
        /\ Q.realloc_list = <<>> /\ Q.nodes = ClonedNodes(copy)
    BY DEF process_duplicate, process_new
  <1> HIDE DEF Q
  <1>5. \A s \in {"free", "enter"} : Q.nodes[s].refcnt = 0
    BY <1>3, <1>4 DEF ClonedNodes, Stacks, NoNode
  <1>6. DOMAIN <<>> = {}
    OBVIOUS
  <1>7. BlocksAgree(Q, U)
    BY <1>1, <1>4 DEF Agrees, BlocksAgree
  <1>8. ReallocsAgree(Q.realloc_list, Q.attached, U)
    BY <1>1, <1>4, <1>6 DEF ReallocsAgree
  <1>9. Agrees(Q, U)
    BY <1>1, <1>2, <1>4, <1>5, <1>7, <1>8 DEF Agrees
  <1> QED BY <1>9 DEF Q

\* process_reset_allocations, after which the process counts as attached.
LEMMA ResetAgrees ==
  ASSUME NEW P, Sound(P), NEW T \in Table, Agrees(P, T), NEW Q,
         Q.nodes = reset_allocations(P).nodes, Q.blocks = {}, Q.realloc_list = <<>>, Q.attached,
         Q.known <=> T.known, Q.tracing <=> T.known
  PROVE  Agrees(Q, T)
  <1> DEFINE R == reset_allocations(P)
  <1>1. R = reset_allocations(P)
    OBVIOUS
  <1> HIDE DEF R
  <1>2. ASSUME NEW s \in {"free", "enter"} PROVE Q.nodes[s].refcnt = 0
    <2> DEFINE u == Users(P, s)
    <2>1. s \in Stacks /\ P.nodes[s].refcnt = 0
      BY DEF Stacks, Agrees
    <2>2. R.nodes[s].refcnt = 0 - u
      BY <1>1, <2>1, ResetIs
    <2>3. u \in Nat
      BY <2>1, UsersNat
    <2> HIDE DEF u
    <2>4. 0 \in {1 + u} \cup (IF u = 0 THEN {0} ELSE {})
      BY <2>1 DEF Sound, Referenced, u
    <2>5. u = 0
      BY <2>3, <2>4
    <2> QED BY <1>1, <2>2, <2>5
  <1>3. DOMAIN <<>> = {}
    OBVIOUS
  <1>4. BlocksAgree(Q, T) /\ ReallocsAgree(Q.realloc_list, Q.attached, T)
    BY <1>3 DEF BlocksAgree, ReallocsAgree
  <1> QED BY <1>2, <1>4 DEF Agrees

-----------------------------------------------------------------------------
(* The program and the last table.                                         *)

Shape(k) == Item(k.addr, k.size, Kind(k.map))

\* The chunks of a process are apart.
Apart(c, d) == c.addr + Width(c.size) <= d.addr \/ d.addr + Width(d.size) <= c.addr
Spread(H) == \A c, d \in H : c # d => Apart(c, d)

\* The address of the chunk that a call holds, 0 if it holds none: the one it has
\* made, or its argument.  An munmap in progress has reported what it leaves.
Mask(c) == IF c.ret \in Addrs THEN c.ret ELSE c.addr
Cuts(c, k) == c.fn = "munmap" /\ c.st = "entered" /\ k.addr = c.addr /\ c.size < k.size
Rest(c, k) == Item(c.addr + c.size, k.size - c.size, "map")
Grips(c, k) ==
  /\ k.addr = Mask(c) /\ ~k.lost
  /\ c.ret \in Addrs => k.size = c.size /\ (k.map <=> c.fn \in {"mmap", "mremap"})
  /\ c.ret \notin Addrs => (k.map <=> c.fn \in {"munmap", "mremap"})
  /\ c.fn = "munmap" => c.size # 0 /\ c.size <= k.size

\* A call c in progress; r is the in_realloc of its task.
Calling(c, r, H) ==
  /\ IF c.fn = "none" THEN c = NoCall ELSE c.watched
  /\ c.st = "entered" => c.ret = 0
  /\ c.fn \in {"malloc", "mmap", "fork"} => c.addr = 0
  /\ c.fn \in {"free", "munmap", "fork"} => c.ret = 0
  /\ c.fn \in {"free", "munmap"} => (c.st = "done" <=> c.addr = 0)
  /\ c.fn = "mremap" => IF c.st = "entered" THEN c.addr # 0 ELSE c.ret \in Addrs
  /\ c.fn \in {"malloc", "realloc"} => c.ret \in Addrs \cup {0}
  /\ c.fn = "mmap" /\ c.st = "done" => c.ret \in Addrs \cup {MapFailed}
  /\ r => c.fn = "realloc" /\ (c.ret = 0 => c.addr # 0)
  /\ c.fn = "realloc" /\ c.addr # 0 => r
  /\ c.fn = "realloc" /\ c.st = "entered" /\ c.size = 0 => c.addr = 0
  /\ Mask(c) # 0 => \E k \in H : Grips(c, k)

\* A process that runs: its heap, and the calls of its threads S, which hold
\* different chunks.
Living(H, K, R, S) ==
  /\ Spread(H)
  /\ \A t \in S : Calling(K[t], R[t], H)
  /\ \A t, u \in S : Mask(K[t]) # 0 /\ Mask(K[t]) = Mask(K[u]) => t = u

\* What the client is to know of it.
Shown(x, H, K, S) ==
  \/ \E k \in H : x = Shape(k) /\ \A t \in S : Mask(K[t]) # k.addr
  \/ \E k \in H, t \in S : Cuts(K[t], k) /\ x = Rest(K[t], k)
Holding(X, H, K, R, S) ==
  /\ \A t \in S : R[t] => \E h \in X : h.tid = t
  /\ \A h \in X :
       /\ h.tid \in S /\ R[h.tid]
       /\ K[h.tid].ret = 0 => h.addr = K[h.tid].addr /\ \E k \in H : k.addr = h.addr /\ k.size = h.size
  /\ \A g, h \in X : g.tid = h.tid => g = h
Ahead(T, H, K, R, S) ==
  T.known /\ (\A x : x \in T.blocks <=> Shown(x, H, K, S)) /\ Holding(T.held, H, K, R, S)

\* A fork that the tracer has not seen: the child is a copy of its parent.
Alike(G, H) == \A x : (\E k \in G : x = Shape(k)) <=> (\E k \in H : x = Shape(k))
Forking(t) == call[t].fn = "fork" /\ call[t].st = "done"
ForkInv == \A t \in Threads : Forking(t) =>
  LET q == call[t].child
  IN /\ ~alive[q] /\ Spread(heap[q]) /\ Alike(heap[q], heap[Owner[t]])
     /\ \A u \in Threads : Forking(u) /\ call[u].child = q => u = t

LivesInv == \A p \in Procs : alive[p] => traced[p] /\ Living(heap[p], call, in_realloc, ThreadsOf(p))
DeadInv == \A t \in Threads : /\ ~alive[Owner[t]] => call[t] = NoCall /\ ~in_realloc[t]
                              /\ call[t].fn \in Ops \cup {"none"}
ProgramInv == LivesInv /\ DeadInv /\ ForkInv

\* The line of tables between the client and the program.
Lost(H) == {a \in Nat : \E k \in H : k.addr = a /\ k.lost}
Linked(F, L) ==
  /\ Line(opt.interactive, chan, F, L)
  /\ \A p \in Procs : Agrees(proc[p], F[p])
  /\ \A p \in Procs : alive[p] => Ahead(L[p], heap[p], call, in_realloc, ThreadsOf(p))
  /\ Scannable => \A p \in Procs : L[p].leaked \subseteq Lost(heap[p])
Mirrored == ProgramInv /\ \E F, L : Linked(F, L)
MInv == Faithful => Mirrored

\* The addresses of chunks, and what is no address.
LEMMA ChunkIs ==
  ASSUME NEW k \in Chunk
  PROVE  /\ k.addr \in Nat /\ k.addr # 0 /\ k.addr \in Addrs /\ k.size \in Nat
         /\ Width(k.size) \in Nat /\ Width(k.size) > 0 /\ k.size <= Width(k.size)
         /\ Shape(k) \in Items /\ Shape(k).addr = k.addr /\ Shape(k).size = k.size
         /\ (Shape(k).kind = "map" <=> k.map) /\ (Shape(k).kind = "heap" <=> ~k.map)
  <1>1. k.addr \in Nat /\ k.addr # 0 /\ k.addr \in Addrs /\ k.size \in Nat /\ k.map \in BOOLEAN
    BY AddrsAre DEF Chunk
  <1>2. Width(k.size) \in Nat /\ Width(k.size) > 0 /\ k.size <= Width(k.size)
    BY <1>1 DEF Width
  <1> QED BY <1>1, <1>2 DEF Shape, Item, Items, Kind

\* What a call holds.
LEMMA MaskIs ==
  ASSUME NEW c \in Call
  PROVE  /\ c.addr \in Nat /\ c.size \in Nat /\ c.ret \in Nat /\ Mask(c) \in Nat
         /\ c.ret = 0 => Mask(c) = c.addr /\ c.ret \notin Addrs
         /\ c.ret \in Addrs => Mask(c) = c.ret /\ Mask(c) # 0 /\ c.ret # MapFailed
         /\ c.ret = MapFailed => Mask(c) = c.addr /\ c.ret \notin Addrs
         /\ Mask(NoCall) = 0
  <1>1. Addrs = 1..Cardinality(Addrs) /\ Cardinality(Addrs) \in Nat
    BY ProgramAssumption, AddrsAre
  <1>2. MapFailed \notin Addrs /\ 0 \notin Addrs
    BY <1>1 DEF MapFailed
  <1>3. c.addr \in Nat /\ c.size \in Nat /\ c.ret \in Nat
    BY CallIs
  <1>4. NoCall.ret = 0 /\ NoCall.addr = 0
    BY DEF NoCall
  <1> QED BY <1>2, <1>3, <1>4 DEF Mask

\* Nothing begins in two chunks.
LEMMA SpreadBegins ==
  ASSUME NEW H \in SUBSET Chunk, Spread(H), NEW j \in H, NEW k \in H, NEW x, x.addr \in Nat,
         Begins(x, j.addr, j.size), Begins(x, k.addr, k.size)
  PROVE  j = k
  <1>1. j.addr \in Nat /\ k.addr \in Nat /\ Width(j.size) \in Nat /\ Width(k.size) \in Nat
    BY ChunkIs
  <1> QED BY <1>1 DEF Spread, Apart, Begins

\* Two chunks begin at different addresses.
LEMMA SpreadAddr ==
  ASSUME NEW H \in SUBSET Chunk, Spread(H), NEW j \in H, NEW k \in H, j.addr = k.addr PROVE j = k
  <1>1. Begins(k, j.addr, j.size) /\ Begins(k, k.addr, k.size)
    BY ChunkIs DEF Begins
  <1> QED BY <1>1, ChunkIs, SpreadBegins

\* A chunk that a call holds.
LEMMA Gripped ==
  ASSUME NEW H \in SUBSET Chunk, NEW K, NEW R, NEW S, Living(H, K, R, S), NEW t \in S, Mask(K[t]) # 0
  PROVE  \E k \in H : Grips(K[t], k) /\ k.addr = Mask(K[t])
  BY DEF Living, Calling, Grips

\* What is left of a mapping begins inside it.
LEMMA CutIs ==
  ASSUME NEW H \in SUBSET Chunk, NEW K \in [Threads -> Call], NEW R, NEW S \in SUBSET Threads,
         Living(H, K, R, S), NEW t \in S, NEW k \in H, Cuts(K[t], k)
  PROVE  /\ Mask(K[t]) = k.addr /\ K[t].addr = k.addr /\ K[t].size \in Nat /\ K[t].size # 0 /\ K[t].size < k.size
         /\ Rest(K[t], k) \in Items /\ Rest(K[t], k).addr = k.addr + K[t].size
         /\ Begins(Rest(K[t], k), k.addr, k.size)
  <1> DEFINE c == K[t]
  <1>1. c \in Call /\ Calling(c, R[t], H)
    BY DEF Living
  <1> HIDE DEF c
  <1>2. Cuts(c, k)
    BY DEF c
  <1>3. c.ret = 0 /\ c.fn = "munmap" /\ c.addr = k.addr /\ c.size < k.size
    BY <1>1, <1>2 DEF Calling, Cuts
  <1>4. Mask(c) = k.addr /\ c.size \in Nat /\ c.ret \notin Addrs
    BY <1>1, <1>3, MaskIs
  <1>5. k.addr \in Nat /\ k.size \in Nat /\ k.addr # 0 /\ k.size <= Width(k.size) /\ Width(k.size) \in Nat
    BY ChunkIs
  <1>6. c.size # 0
    BY <1>1, <1>3, <1>4, <1>5 DEF Calling, Grips
  <1>7. Rest(c, k) \in Items /\ Rest(c, k).addr = k.addr + c.size
    BY <1>3, <1>4, <1>5 DEF Rest, Item, Items
  <1>8. Begins(Rest(c, k), k.addr, k.size)
    BY <1>3, <1>4, <1>5, <1>7 DEF Begins
  <1> QED BY <1>3, <1>4, <1>6, <1>7, <1>8 DEF c

\* A chunk of which the client is to know something: it is not held, or it is
\* being cut.
From(x, k, K, S) ==
  \/ x = Shape(k) /\ \A t \in S : Mask(K[t]) # k.addr
  \/ \E t \in S : Cuts(K[t], k) /\ x = Rest(K[t], k)

\* Every item is one of a chunk, and begins in it.
LEMMA ShownFrom ==
  ASSUME NEW H \in SUBSET Chunk, NEW K \in [Threads -> Call], NEW R, NEW S \in SUBSET Threads,
         Living(H, K, R, S)
  PROVE  /\ \A x : Shown(x, H, K, S) <=> \E k \in H : From(x, k, K, S)
         /\ \A x : \A k \in H : From(x, k, K, S) => x \in Items /\ x.addr \in Nat /\ Begins(x, k.addr, k.size)
  <1>1. \A x : Shown(x, H, K, S) <=> \E k \in H : From(x, k, K, S)
    BY DEF Shown, From
  <1>2. ASSUME NEW x, NEW k \in H, From(x, k, K, S) PROVE x \in Items /\ x.addr \in Nat /\ Begins(x, k.addr, k.size)
    <2>1. CASE x = Shape(k)
      BY <2>1, ChunkIs DEF Begins
    <2>2. CASE x # Shape(k)
      <3>1. PICK t \in S : Cuts(K[t], k) /\ x = Rest(K[t], k)
        BY <1>2, <2>2 DEF From
      <3>2. x \in Items /\ Begins(x, k.addr, k.size)
        BY <3>1, CutIs
      <3> QED BY <3>2 DEF Items
    <2> QED BY <2>1, <2>2
  <1> QED BY <1>1, <1>2

\* A chunk makes one item.
LEMMA FromUnique ==
  ASSUME NEW H \in SUBSET Chunk, NEW K \in [Threads -> Call], NEW R, NEW S \in SUBSET Threads,
         Living(H, K, R, S), NEW k \in H, NEW x, From(x, k, K, S), NEW y, From(y, k, K, S)
  PROVE  x = y
  <1>1. ASSUME NEW t \in S, Cuts(K[t], k) PROVE Mask(K[t]) = k.addr /\ k.addr # 0
    BY <1>1, CutIs, ChunkIs
  <1>2. \A t, u \in S : Mask(K[t]) = k.addr /\ Mask(K[u]) = k.addr /\ k.addr # 0 => t = u
    BY DEF Living
  <1> QED BY <1>1, <1>2 DEF From

\* The items are tidy, and those of other chunks are apart from a chunk.
LEMMA ShownTidy ==
  ASSUME NEW H \in SUBSET Chunk, NEW K \in [Threads -> Call], NEW R, NEW S \in SUBSET Threads,
         Living(H, K, R, S), NEW x, Shown(x, H, K, S)
  PROVE  /\ x \in Items
         /\ \A y : Shown(y, H, K, S) /\ x.addr = y.addr => x = y
         /\ \A k \in H : Begins(x, k.addr, k.size) => From(x, k, K, S)
  <1>0. Spread(H)
    BY DEF Living
  <1>1. PICK k \in H : From(x, k, K, S)
    BY ShownFrom
  <1>2. x \in Items /\ x.addr \in Nat /\ Begins(x, k.addr, k.size)
    BY <1>1, ShownFrom
  <1>3. ASSUME NEW y, Shown(y, H, K, S), x.addr = y.addr PROVE x = y
    <2>1. PICK j \in H : From(y, j, K, S)
      BY <1>3, ShownFrom
    <2>2. Begins(y, j.addr, j.size)
      BY <2>1, ShownFrom
    <2>3. Begins(x, j.addr, j.size)
      BY <1>3, <2>2 DEF Begins
    <2>4. j = k
      BY <1>0, <1>2, <2>3, SpreadBegins
    <2> QED BY <1>1, <2>1, <2>4, FromUnique
  <1>4. ASSUME NEW j \in H, Begins(x, j.addr, j.size) PROVE From(x, j, K, S)
    <2>1. j = k
      BY <1>0, <1>2, <1>4, SpreadBegins
    <2> QED BY <1>1, <2>1
  <1> QED BY <1>2, <1>3, <1>4

-----------------------------------------------------------------------------
(* A thread t of a process takes a step: its call and in_realloc become    *)
(* K2[t] and R2[t], the heap H2.                                           *)

Moves(t, S, K, R, K2, R2) == \A u \in S \ {t} : K2[u] = K[u] /\ R2[u] = R[u]
Unmaps(c) == c.fn = "munmap" /\ c.st = "entered"

\* The chunks of the other threads stay.
LEMMA OthersGrip ==
  ASSUME NEW H \in SUBSET Chunk, NEW K, NEW R, NEW S, Living(H, K, R, S), NEW t \in S, NEW u \in S, u # t,
         Mask(K[u]) # 0
  PROVE  Mask(K[u]) # Mask(K[t]) /\ \E k \in H : Grips(K[u], k) /\ k.addr = Mask(K[u])
  BY Gripped DEF Living

\* The process lives on.
LEMMA LivingMoved ==
  ASSUME NEW H \in SUBSET Chunk, NEW H2 \in SUBSET Chunk, NEW K, NEW K2, NEW R, NEW R2, NEW S,
         Living(H, K, R, S), NEW t \in S, Moves(t, S, K, R, K2, R2),
         Spread(H2), \A k \in H : k.addr # Mask(K[t]) => k \in H2,
         Calling(K2[t], R2[t], H2),
         Mask(K2[t]) # 0 => \A u \in S \ {t} : Mask(K[u]) # Mask(K2[t])
  PROVE  Living(H2, K2, R2, S)
  <1>1. ASSUME NEW u \in S PROVE Calling(K2[u], R2[u], H2)
    <2>1. CASE u = t
      BY <2>1
    <2>2. CASE u # t
      <3>1. Calling(K[u], R[u], H) /\ K2[u] = K[u] /\ R2[u] = R[u]
        BY <2>2 DEF Living, Moves
      <3>2. ASSUME Mask(K[u]) # 0 PROVE \E k \in H2 : Grips(K[u], k)
        <4>1. PICK k \in H : Grips(K[u], k) /\ k.addr = Mask(K[u])
          BY <3>2, Gripped
        <4>2. Mask(K[u]) # Mask(K[t])
          BY <2>2, <3>2 DEF Living
        <4> QED BY <4>1, <4>2
      <3> QED BY <3>1, <3>2 DEF Calling
    <2> QED BY <2>1, <2>2
  <1>2. ASSUME NEW u \in S, NEW v \in S, Mask(K2[u]) # 0, Mask(K2[u]) = Mask(K2[v]) PROVE u = v
    <2>1. CASE u = t \/ v = t
      BY <1>2, <2>1 DEF Moves
    <2>2. CASE u # t /\ v # t
      BY <1>2, <2>2 DEF Moves, Living
    <2> QED BY <2>1, <2>2
  <1> QED BY <1>1, <1>2 DEF Living

\* What the client is to know stays.
LEMMA ShownKept ==
  ASSUME NEW H \in SUBSET Chunk, NEW H2 \in SUBSET Chunk, NEW K \in [Threads -> Call], NEW K2, NEW R, NEW R2,
         NEW S \in SUBSET Threads, Living(H, K, R, S), NEW t \in S, \A u \in S \ {t} : K2[u] = K[u],
         \A k \in H : k.addr # Mask(K[t]) => k \in H2 /\ k.addr # Mask(K2[t]),
         ~Unmaps(K[t]), NEW x, Shown(x, H, K, S)
  PROVE  Shown(x, H2, K2, S)
  <1>1. PICK k \in H : From(x, k, K, S)
    BY ShownFrom
  <1>2. CASE x = Shape(k) /\ \A u \in S : Mask(K[u]) # k.addr
    <2>1. k \in H2 /\ k.addr # Mask(K2[t])
      BY <1>2
    <2>2. \A u \in S : Mask(K2[u]) # k.addr
      BY <1>2, <2>1
    <2> QED BY <1>2, <2>1, <2>2 DEF Shown
  <1>3. ASSUME NEW u \in S, Cuts(K[u], k), x = Rest(K[u], k) PROVE Shown(x, H2, K2, S)
    <2>1. u # t
      BY <1>3 DEF Cuts, Unmaps
    <2>2. Mask(K[u]) = k.addr /\ k.addr # 0
      BY <1>3, CutIs, ChunkIs
    <2>3. k \in H2
      BY <2>1, <2>2, OthersGrip
    <2> QED BY <1>3, <2>1, <2>3 DEF Shown
  <1> QED BY <1>1, <1>2, <1>3 DEF From

\* A chunk that was lost stays.
LEMMA LostKept ==
  ASSUME NEW H \in SUBSET Chunk, NEW H2, NEW K, NEW R, NEW S, Living(H, K, R, S), NEW t \in S,
         \A k \in H : k.addr # Mask(K[t]) => k \in H2
  PROVE  Lost(H) \subseteq Lost(H2)
  <1> SUFFICES ASSUME NEW k \in H, k.lost PROVE k \in H2
    BY DEF Lost
  <1>1. Mask(K[t]) # k.addr
    <2> SUFFICES ASSUME Mask(K[t]) = k.addr PROVE FALSE
      OBVIOUS
    <2>1. PICK j \in H : Grips(K[t], j) /\ j.addr = Mask(K[t])
      BY ChunkIs, Gripped
    <2>2. j = k
      BY <2>1, SpreadAddr DEF Living
    <2> QED BY <2>1, <2>2 DEF Grips
  <1> QED BY <1>1

\* The reallocs in progress stay.
LEMMA HoldingKept ==
  ASSUME NEW H \in SUBSET Chunk, NEW H2, NEW K \in [Threads -> Call], NEW K2, NEW R, NEW R2,
         NEW S \in SUBSET Threads, Living(H, K, R, S), NEW t \in S, Moves(t, S, K, R, K2, R2), R2[t] <=> R[t],
         \A k \in H : k.addr # Mask(K[t]) => k \in H2,
         R[t] /\ K2[t].ret = 0 => K[t].ret = 0 /\ K2[t].addr = K[t].addr /\ H \subseteq H2,
         NEW X, Holding(X, H, K, R, S)
  PROVE  Holding(X, H2, K2, R2, S)
  <1>1. \A u \in S : R2[u] <=> R[u]
    BY DEF Moves
  <1>2. ASSUME NEW h \in X, K2[h.tid].ret = 0
        PROVE  h.addr = K2[h.tid].addr /\ \E k \in H2 : k.addr = h.addr /\ k.size = h.size
    <2> DEFINE u == h.tid
    <2>1. u \in S /\ R[u]
      BY DEF Holding
    <2>2. K[u].ret = 0 => h.addr = K[u].addr /\ \E k \in H : k.addr = h.addr /\ k.size = h.size
      BY DEF Holding
    <2> HIDE DEF u
    <2>3. CASE u = t
      BY <1>2, <2>1, <2>2, <2>3 DEF u
    <2>4. CASE u # t
      <3>1. K2[u] = K[u] /\ K[u].ret = 0
        BY <1>2, <2>1, <2>4 DEF Moves, u
      <3>2. PICK k \in H : k.addr = h.addr /\ k.size = h.size /\ h.addr = K[u].addr
        BY <2>2, <3>1
      <3>3. Mask(K[u]) = K[u].addr /\ K[u].addr # 0
        BY <2>1, <3>1, MaskIs DEF Living, Calling
      <3>4. k \in H2
        BY <2>1, <2>4, <3>2, <3>3, OthersGrip
      <3> QED BY <3>1, <3>2, <3>4 DEF u
    <2> QED BY <2>3, <2>4
  <1> QED BY <1>1, <1>2 DEF Holding

\* A step that the tracer does not report.
LEMMA Silent ==
  ASSUME NEW H \in SUBSET Chunk, NEW H2 \in SUBSET Chunk, NEW K \in [Threads -> Call], NEW K2 \in [Threads -> Call],
         NEW R, NEW R2, NEW S \in SUBSET Threads,
         Living(H, K, R, S), NEW t \in S, Moves(t, S, K, R, K2, R2), R2[t] <=> R[t],
         Spread(H2), Calling(K2[t], R2[t], H2),
         \A k \in H : k.addr # Mask(K[t]) => k \in H2 /\ k.addr # Mask(K2[t]),
         \A k \in H2 : k.addr # Mask(K2[t]) => k \in H /\ k.addr # Mask(K[t]),
         ~Unmaps(K[t]), ~Unmaps(K2[t]),
         R[t] /\ K2[t].ret = 0 => K[t].ret = 0 /\ K2[t].addr = K[t].addr /\ H \subseteq H2
  PROVE  /\ Living(H2, K2, R2, S) /\ Lost(H) \subseteq Lost(H2)
         /\ \A T : Ahead(T, H, K, R, S) => Ahead(T, H2, K2, R2, S)
  <1>1. Mask(K2[t]) # 0 => \A u \in S \ {t} : Mask(K[u]) # Mask(K2[t])
    BY OthersGrip
  <1>2. Living(H2, K2, R2, S)
    BY <1>1, LivingMoved
  <1>3. \A u \in S \ {t} : K2[u] = K[u] /\ K[u] = K2[u]
    BY DEF Moves
  <1>4. \A x : Shown(x, H, K, S) => Shown(x, H2, K2, S)
    BY <1>3, ShownKept
  <1>5. \A x : Shown(x, H2, K2, S) => Shown(x, H, K, S)
    BY <1>2, <1>3, ShownKept
  <1>6. Lost(H) \subseteq Lost(H2)
    BY LostKept
  <1>7. ASSUME NEW T, Ahead(T, H, K, R, S) PROVE Ahead(T, H2, K2, R2, S)
    <2>1. Holding(T.held, H2, K2, R2, S)
      BY <1>7, HoldingKept DEF Ahead
    <2> QED BY <1>4, <1>5, <1>7, <2>1 DEF Ahead
  <1> QED BY <1>2, <1>6, <1>7

\* A call takes a chunk that no call held (K to K2), seen from both sides.
LEMMA MaskedShown ==
  ASSUME NEW H \in SUBSET Chunk, NEW K \in [Threads -> Call], NEW K2 \in [Threads -> Call], NEW R, NEW R2,
         NEW S \in SUBSET Threads, Living(H, K, R, S), Living(H, K2, R2, S),
         NEW t \in S, Moves(t, S, K, R, K2, R2), Mask(K[t]) = 0, ~Unmaps(K[t]),
         NEW k \in H, Mask(K2[t]) = k.addr
  PROVE  /\ Shown(Shape(k), H, K, S)
         /\ \A x : Shown(x, H, K2, S) <=> \/ Shown(x, H, K, S) /\ x # Shape(k)
                                          \/ Cuts(K2[t], k) /\ x = Rest(K2[t], k)
  <1>1. k.addr # 0 /\ Spread(H)
    BY ChunkIs DEF Living
  <1>2. \A u \in S : Mask(K[u]) # k.addr
    <2> TAKE u \in S
    <2>1. CASE u = t
      BY <1>1, <2>1
    <2>2. CASE u # t
      BY <1>1, <2>2 DEF Moves, Living
    <2> QED BY <2>1, <2>2
  <1>3. Shown(Shape(k), H, K, S) /\ From(Shape(k), k, K, S)
    BY <1>2 DEF Shown, From
  <1>4. ASSUME NEW x, NEW j \in H, j # k PROVE From(x, j, K, S) <=> From(x, j, K2, S)
    <2>1. j.addr # k.addr /\ j.addr # 0
      BY <1>1, <1>4, SpreadAddr, ChunkIs
    <2>2. (\A u \in S : Mask(K[u]) # j.addr) <=> (\A u \in S : Mask(K2[u]) # j.addr)
      BY <2>1 DEF Moves
    <2>3. \A u \in S : Cuts(K[u], j) => u # t
      BY DEF Cuts, Unmaps
    <2>4. \A u \in S : Cuts(K2[u], j) => u # t
      BY <2>1, CutIs
    <2>5. (\E u \in S : Cuts(K[u], j) /\ x = Rest(K[u], j)) <=> (\E u \in S : Cuts(K2[u], j) /\ x = Rest(K2[u], j))
      BY <2>3, <2>4 DEF Moves
    <2> QED BY <2>2, <2>5 DEF From
  <1>5. \A x : From(x, k, K, S) <=> x = Shape(k)
    BY <1>3, FromUnique
  <1>6. \A x : From(x, k, K2, S) <=> Cuts(K2[t], k) /\ x = Rest(K2[t], k)
    <2>1. ASSUME NEW u \in S, Cuts(K2[u], k) PROVE u = t
      <3>1. Mask(K2[u]) = k.addr
        BY <2>1, CutIs
      <3> QED BY <1>1, <3>1 DEF Living
    <2> QED BY <2>1 DEF From
  <1>7. \A j \in H : From(Shape(k), j, K, S) => j = k
    BY <1>1, <1>3, ShownFrom, SpreadBegins
  <1>8. ASSUME NEW x
        PROVE  Shown(x, H, K2, S) <=> \/ Shown(x, H, K, S) /\ x # Shape(k)
                                      \/ Cuts(K2[t], k) /\ x = Rest(K2[t], k)
    <2>1. Shown(x, H, K2, S) <=> (\E j \in H \ {k} : From(x, j, K, S)) \/ (Cuts(K2[t], k) /\ x = Rest(K2[t], k))
      BY <1>4, <1>6, ShownFrom
    <2>2. (\E j \in H \ {k} : From(x, j, K, S)) <=> Shown(x, H, K, S) /\ x # Shape(k)
      BY <1>5, <1>7, ShownFrom
    <2> QED BY <2>1, <2>2
  <1> QED BY <1>3, <1>8

\* A thread without a call enters one that takes the chunk k.
LEMMA Taken ==
  ASSUME NEW H \in SUBSET Chunk, NEW K \in [Threads -> Call], NEW K2 \in [Threads -> Call], NEW R, NEW R2,
         NEW S \in SUBSET Threads, Living(H, K, R, S), NEW t \in S, Moves(t, S, K, R, K2, R2), K[t] = NoCall,
         NEW k \in H, \A u \in S : Mask(K[u]) # k.addr, Mask(K2[t]) = k.addr, Calling(K2[t], R2[t], H)
  PROVE  /\ Living(H, K2, R2, S)
         /\ Shown(Shape(k), H, K, S)
         /\ \A x : Shown(x, H, K2, S) <=> \/ Shown(x, H, K, S) /\ x # Shape(k)
                                          \/ Cuts(K2[t], k) /\ x = Rest(K2[t], k)
         /\ \A x : Shown(x, H, K, S) /\ Begins(x, k.addr, k.size) => x = Shape(k)
  <1>1. Living(H, K2, R2, S)
    BY LivingMoved DEF Living
  <1>2. Mask(K[t]) = 0 /\ ~Unmaps(K[t])
    BY MaskIs, NoCallIs DEF Unmaps, NoCall
  <1>3. ASSUME NEW x, Shown(x, H, K, S), Begins(x, k.addr, k.size) PROVE x = Shape(k)
    <2>1. From(x, k, K, S) /\ From(Shape(k), k, K, S)
      BY <1>3, ShownTidy DEF From
    <2> QED BY <2>1, FromUnique
  <1> QED BY <1>1, <1>2, <1>3, MaskedShown

\* A thread leaves a call that holds the chunk k.
LEMMA Given ==
  ASSUME NEW H \in SUBSET Chunk, NEW K \in [Threads -> Call], NEW K2 \in [Threads -> Call], NEW R, NEW R2,
         NEW S \in SUBSET Threads, Living(H, K, R, S), NEW t \in S, Moves(t, S, K, R, K2, R2), K2[t] = NoCall, ~R2[t],
         NEW k \in H, Mask(K[t]) = k.addr, ~Unmaps(K[t])
  PROVE  /\ Living(H, K2, R2, S)
         /\ \A x : Shown(x, H, K2, S) <=> Shown(x, H, K, S) \/ x = Shape(k)
         /\ \A x : Shown(x, H, K, S) => ~Begins(x, k.addr, k.size)
  <1>1. Mask(K2[t]) = 0 /\ ~Unmaps(K2[t]) /\ Calling(K2[t], R2[t], H)
    BY MaskIs, NoCallIs DEF Unmaps, NoCall, Calling
  <1>2. Living(H, K2, R2, S)
    BY <1>1, LivingMoved DEF Living
  <1>3. Moves(t, S, K2, R2, K, R)
    BY DEF Moves
  <1>4. ~Cuts(K[t], k)
    BY DEF Cuts, Unmaps
  <1>5. Shown(Shape(k), H, K2, S) /\ \A x : Shown(x, H, K, S) <=> Shown(x, H, K2, S) /\ x # Shape(k)
    BY <1>1, <1>2, <1>3, <1>4, MaskedShown
  <1>6. ASSUME NEW x, Shown(x, H, K, S), Begins(x, k.addr, k.size) PROVE FALSE
    <2>1. From(x, k, K, S)
      BY <1>6, ShownTidy
    <2>2. PICK u \in S : Cuts(K[u], k)
      BY <2>1 DEF From
    <2>3. Mask(K[u]) = k.addr /\ k.addr # 0
      BY <2>2, CutIs, ChunkIs
    <2>4. u = t
      BY <2>3 DEF Living
    <2> QED BY <1>4, <2>2, <2>4
  <1> QED BY <1>2, <1>5, <1>6

\* A realloc of the chunk k begins, or any other call.
LEMMA HoldingAdded ==
  ASSUME NEW H, NEW K, NEW K2, NEW R, NEW R2, NEW S, NEW t \in S, Moves(t, S, K, R, K2, R2),
         ~R[t], R2[t], NEW k \in H, K2[t].addr = k.addr,
         NEW X, Holding(X, H, K, R, S)
  PROVE  (\A h \in X : h.tid # t) /\ Holding(X \cup {Hold(t, k.addr, k.size)}, H, K2, R2, S)
  <1> DEFINE g == Hold(t, k.addr, k.size)
             Y == X \cup {g}
  <1>1. g.tid = t /\ g.addr = k.addr /\ g.size = k.size
    BY DEF Hold
  <1> HIDE DEF g
  <1>2. \A h \in X : h.tid \in S /\ h.tid # t
    BY DEF Holding
  <1>3. ASSUME NEW u \in S, R2[u] PROVE \E h \in Y : h.tid = u
    BY <1>1, <1>3 DEF Holding, Moves
  <1>4. ASSUME NEW h \in Y
        PROVE  /\ h.tid \in S /\ R2[h.tid]
               /\ K2[h.tid].ret = 0 => h.addr = K2[h.tid].addr /\ \E j \in H : j.addr = h.addr /\ j.size = h.size
    <2>1. CASE h = g
      BY <1>1, <2>1
    <2>2. CASE h \in X
      BY <1>2, <2>2 DEF Holding, Moves
    <2> QED BY <2>1, <2>2
  <1>5. \A f, h \in Y : f.tid = h.tid => f = h
    BY <1>1, <1>2 DEF Holding
  <1>6. Holding(Y, H, K2, R2, S)
    BY <1>3, <1>4, <1>5 DEF Holding
  <1> QED BY <1>2, <1>6 DEF g

\* A thread without a realloc in progress takes a step.
LEMMA HoldingSame ==
  ASSUME NEW H, NEW K, NEW K2, NEW R, NEW R2, NEW S, NEW t \in S, Moves(t, S, K, R, K2, R2), ~R[t], ~R2[t],
         NEW X, Holding(X, H, K, R, S)
  PROVE  Holding(X, H, K2, R2, S)
  BY DEF Holding, Moves

\* What is held without h.
Unheld(X, h) == X \ {h}

\* A realloc ends.
LEMMA HoldingRemoved ==
  ASSUME NEW H, NEW K, NEW K2, NEW R, NEW R2, NEW S, NEW t \in S, Moves(t, S, K, R, K2, R2), R[t], ~R2[t],
         NEW X, Holding(X, H, K, R, S)
  PROVE  \E h \in X : /\ h.tid = t /\ \A g \in X : g.tid = t => g = h
                      /\ K[t].ret = 0 => h.addr = K[t].addr /\ \E k \in H : k.addr = h.addr /\ k.size = h.size
                      /\ Holding(Unheld(X, h), H, K2, R2, S)
  <1>1. PICK h \in X : h.tid = t
    BY DEF Holding
  <1>2. \A g \in X : g.tid = t => g = h
    BY <1>1 DEF Holding
  <1>3. K[t].ret = 0 => h.addr = K[t].addr /\ \E k \in H : k.addr = h.addr /\ k.size = h.size
    BY <1>1 DEF Holding
  <1>4. Holding(Unheld(X, h), H, K2, R2, S)
    BY <1>1, <1>2 DEF Holding, Moves, Unheld
  <1> QED BY <1>1, <1>2, <1>3, <1>4

-----------------------------------------------------------------------------
(* The program takes a step: one of its processes changes, and the line of *)
(* tables may grow.                                                        *)

\* What a process is depends on its own threads only.
LEMMA LivingSame ==
  ASSUME NEW H, NEW K, NEW K2, NEW R, NEW R2, NEW S, \A u \in S : K2[u] = K[u] /\ R2[u] = R[u]
  PROVE  /\ Living(H, K, R, S) => Living(H, K2, R2, S)
         /\ \A T : Ahead(T, H, K, R, S) => Ahead(T, H, K2, R2, S)
  <1>1. Living(H, K, R, S) => Living(H, K2, R2, S)
    BY DEF Living
  <1>2. \A x : Shown(x, H, K, S) <=> Shown(x, H, K2, S)
    BY DEF Shown
  <1>3. \A X : Holding(X, H, K, R, S) => Holding(X, H, K2, R2, S)
    BY DEF Holding
  <1> QED BY <1>1, <1>2, <1>3 DEF Ahead

\* A thread t takes a step: the heap of its process is H2, its call c2.
Steps(t, H2, c2) ==
  /\ heap' = [heap EXCEPT ![Owner[t]] = H2] /\ call' = [call EXCEPT ![t] = c2]
  /\ \A u \in Threads \ {t} : in_realloc'[u] = in_realloc[u]
  /\ UNCHANGED <<alive, traced, proc, opt>>

\* The state that a step changes.
LEMMA StepsIs ==
  ASSUME ProgramOK, opt \in Scenario, NEW t \in Threads, NEW H2, NEW c2, Steps(t, H2, c2)
  PROVE  /\ Owner[t] \in Procs /\ t \in ThreadsOf(Owner[t])
         /\ heap'[Owner[t]] = H2 /\ \A q \in Procs : q # Owner[t] => heap'[q] = heap[q]
         /\ call'[t] = c2 /\ \A u \in Threads : u # t => call'[u] = call[u]
         /\ Moves(t, ThreadsOf(Owner[t]), call, in_realloc, call', in_realloc')
         /\ \A q \in Procs : ThreadsOf(q) \subseteq Threads /\ ThreadsOf(q)' = ThreadsOf(q)
         /\ \A u \in Threads : Owner'[u] = Owner[u]
  <1>1. Owner[t] \in Procs /\ t \in ThreadsOf(Owner[t])
    BY OwnerIs DEF ThreadsOf
  <1>2. heap'[Owner[t]] = H2 /\ \A q \in Procs : q # Owner[t] => heap'[q] = heap[q]
    BY <1>1 DEF Steps, ProgramOK
  <1>3. call'[t] = c2 /\ \A u \in Threads : u # t => call'[u] = call[u]
    BY DEF Steps, ProgramOK
  <1>4. Moves(t, ThreadsOf(Owner[t]), call, in_realloc, call', in_realloc')
    BY <1>3 DEF Moves, Steps, ThreadsOf
  <1> QED BY <1>1, <1>2, <1>3, <1>4 DEF Steps, ThreadsOf, Owner

\* The rest of the program stays as it is.
LEMMA StepsProgram ==
  ASSUME ProgramOK, opt \in Scenario, Faithful, ProgramInv, NEW t \in Threads, alive[Owner[t]],
         NEW H2, NEW c2, Steps(t, H2, c2), ~Forking(t), ~(c2.fn = "fork" /\ c2.st = "done"),
         c2.fn \in Ops \cup {"none"},
         Living(H2, call', in_realloc', ThreadsOf(Owner[t]))
  PROVE  ProgramInv'
  <1> DEFINE p == Owner[t]
  <1>1. /\ p \in Procs /\ heap'[p] = H2 /\ \A q \in Procs : q # p => heap'[q] = heap[q]
        /\ call'[t] = c2 /\ \A u \in Threads : u # t => call'[u] = call[u]
        /\ \A q \in Procs : ThreadsOf(q) \subseteq Threads /\ ThreadsOf(q)' = ThreadsOf(q)
        /\ \A u \in Threads : Owner'[u] = Owner[u]
    BY StepsIs
  <1>2. alive' = alive /\ traced' = traced /\ Ops' = Ops /\ \A u \in Threads \ {t} : in_realloc'[u] = in_realloc[u]
    BY DEF Steps, Ops
  <1>3. alive[p] /\ Living(H2, call', in_realloc', ThreadsOf(p))
    OBVIOUS
  <1> HIDE DEF p
  <1>4. LivesInv'
    <2> SUFFICES ASSUME NEW q \in Procs, alive[q]
                 PROVE  traced[q] /\ Living(heap'[q], call', in_realloc', ThreadsOf(q))
      BY <1>1, <1>2 DEF LivesInv
    <2>1. traced[q] /\ Living(heap[q], call, in_realloc, ThreadsOf(q))
      BY DEF ProgramInv, LivesInv
    <2>2. CASE q = p
      BY <1>1, <1>3, <2>1, <2>2
    <2>3. CASE q # p
      <3>1. \A u \in ThreadsOf(q) : call'[u] = call[u] /\ in_realloc'[u] = in_realloc[u]
        BY <1>1, <1>2, <2>3 DEF ThreadsOf, p
      <3> QED BY <1>1, <2>1, <2>3, <3>1, LivingSame
    <2> QED BY <2>2, <2>3
  <1>5. DeadInv'
    <2> SUFFICES ASSUME NEW u \in Threads
                 PROVE  /\ ~alive[Owner[u]] => call'[u] = NoCall /\ ~in_realloc'[u]
                        /\ call'[u].fn \in Ops \cup {"none"}
      BY <1>1, <1>2 DEF DeadInv
    <2>1. CASE u = t
      BY <1>1, <1>3, <2>1 DEF p
    <2>2. CASE u # t
      BY <1>1, <1>2, <2>2 DEF ProgramInv, DeadInv
    <2> QED BY <2>1, <2>2
  <1>6. \A u \in Threads : Forking(u)' => u # t /\ Forking(u) /\ call'[u] = call[u]
    BY <1>1 DEF Forking
  <1>7. ASSUME NEW u \in Threads, Forking(u)'
        PROVE  /\ ~alive'[call'[u].child] /\ Spread(heap'[call'[u].child])
               /\ Alike(heap'[call'[u].child], heap'[Owner[u]])
               /\ \A v \in Threads : Forking(v)' /\ call'[v].child = call'[u].child => v = u
    <2> DEFINE q == call[u].child
    <2>1. u # t /\ Forking(u) /\ call'[u] = call[u]
      BY <1>6, <1>7
    <2>2. q \in Procs /\ Owner[u] \in Procs
      BY CallIs, OwnerIs DEF ProgramOK
    <2>3. /\ ~alive[q] /\ Spread(heap[q]) /\ Alike(heap[q], heap[Owner[u]])
          /\ \A v \in Threads : Forking(v) /\ call[v].child = q => v = u
      BY <2>1 DEF ProgramInv, ForkInv
    <2>4. "fork" \in Ops
      BY <2>1 DEF ProgramInv, DeadInv, Forking
    <2>5. Owner[u] # p
      BY <2>1, <2>4 DEF Faithful, Single, p
    <2>6. q # p
      BY <1>3, <2>3
    <2> HIDE DEF q
    <2>7. call'[u].child = q
      BY <2>1 DEF q
    <2> QED BY <1>1, <1>2, <1>6, <2>2, <2>3, <2>5, <2>6, <2>7
  <1>8. ForkInv'
    BY <1>1, <1>7 DEF ForkInv
  <1> QED BY <1>4, <1>5, <1>8 DEF ProgramInv

\* The line reaches the new state.
LEMMA StepsLinked ==
  ASSUME ProgramOK, opt \in Scenario, NEW F, NEW L, Linked(F, L), NEW t \in Threads, NEW H2, NEW c2, Steps(t, H2, c2),
         NEW G, Line(opt.interactive, chan', F, G), \A q \in Procs : q # Owner[t] => G[q] = L[q],
         Ahead(G[Owner[t]], H2, call', in_realloc', ThreadsOf(Owner[t])),
         Scannable => G[Owner[t]].leaked \subseteq Lost(H2)
  PROVE  Linked(F, G)'
  <1> DEFINE p == Owner[t]
  <1>1. /\ p \in Procs /\ heap'[p] = H2 /\ \A q \in Procs : q # p => heap'[q] = heap[q]
        /\ \A u \in Threads : u # t => call'[u] = call[u]
        /\ \A q \in Procs : ThreadsOf(q) \subseteq Threads /\ ThreadsOf(q)' = ThreadsOf(q)
    BY StepsIs
  <1>2. /\ alive' = alive /\ proc' = proc /\ opt' = opt
        /\ \A u \in Threads \ {t} : in_realloc'[u] = in_realloc[u]
    BY DEF Steps
  <1> HIDE DEF p
  <1>3. ASSUME NEW q \in Procs, alive'[q] PROVE Ahead(G[q], heap'[q], call', in_realloc', ThreadsOf(q)')
    <2>1. CASE q = p
      BY <1>1, <2>1 DEF p
    <2>2. CASE q # p
      <3>1. Ahead(L[q], heap[q], call, in_realloc, ThreadsOf(q))
        BY <1>2, <1>3 DEF Linked
      <3>2. \A u \in ThreadsOf(q) : call'[u] = call[u] /\ in_realloc'[u] = in_realloc[u]
        BY <1>1, <1>2, <2>2 DEF ThreadsOf, p
      <3>3. Ahead(L[q], heap[q], call', in_realloc', ThreadsOf(q))
        BY <3>1, <3>2, LivingSame
      <3> QED BY <1>1, <2>2, <3>3 DEF p
    <2> QED BY <2>1, <2>2
  <1>4. Scannable' => \A q \in Procs : G[q].leaked \subseteq Lost(heap'[q])
    <2>1. Scannable' <=> Scannable
      BY <1>2 DEF Scannable, Ops
    <2> QED BY <1>1, <2>1 DEF Linked, p
  <1> QED BY <1>2, <1>3, <1>4 DEF Linked

\* A step that the tracer does not report leaves the line as it is.
LEMMA SilentMirrored ==
  ASSUME IInv, Faithful, Mirrored, NEW t \in Threads, alive[Owner[t]],
         NEW H2, NEW c2, Steps(t, H2, c2), chan' = chan, ~Forking(t), ~(c2.fn = "fork" /\ c2.st = "done"),
         c2.fn \in Ops \cup {"none"},
         Living(H2, call', in_realloc', ThreadsOf(Owner[t])), Lost(heap[Owner[t]]) \subseteq Lost(H2),
         \A T : Ahead(T, heap[Owner[t]], call, in_realloc, ThreadsOf(Owner[t]))
                => Ahead(T, H2, call', in_realloc', ThreadsOf(Owner[t]))
  PROVE  Mirrored'
  <1>1. PICK F, L : Linked(F, L)
    BY DEF Mirrored
  <1>2. ProgramOK /\ opt \in Scenario /\ ProgramInv /\ Owner[t] \in Procs
    BY OwnerIs DEF IInv, Mirrored
  <1>3. ProgramInv'
    BY <1>2, StepsProgram
  <1>4. Line(opt.interactive, chan', F, L)
    BY <1>1 DEF Linked
  <1>5. Ahead(L[Owner[t]], H2, call', in_realloc', ThreadsOf(Owner[t]))
    BY <1>1, <1>2 DEF Linked
  <1>6. Scannable => L[Owner[t]].leaked \subseteq Lost(H2)
    BY <1>1, <1>2 DEF Linked
  <1>7. Linked(F, L)'
    BY <1>1, <1>2, <1>4, <1>5, <1>6, StepsLinked
  <1> QED BY <1>3, <1>7 DEF Mirrored

\* A call that takes effect.
LEMMA ReturnsIs ==
  ASSUME IInv, Mirrored, NEW t \in Threads, call[t].fn # "none", call[t].st = "entered",
         NEW H2, NEW r \in Nat, Returns(t, H2, r)
  PROVE  \E c2 \in Call :
           /\ Steps(t, H2, c2) /\ chan' = chan /\ in_realloc' = in_realloc /\ call' \in [Threads -> Call]
           /\ c2.fn = call[t].fn /\ c2.st = "done" /\ c2.size = call[t].size /\ c2.watched = call[t].watched
           /\ c2.ret = r /\ c2.addr = IF H2 = heap[Owner[t]] THEN call[t].addr ELSE 0
           /\ c2.fn \in Ops \cup {"none"}
  <1> DEFINE c == call[t]
             a == IF H2 = heap[Owner[t]] THEN c.addr ELSE 0
             d == Back(c, r, a)
  <1>1. c \in Call /\ call \in [Threads -> Call] /\ ProgramOK /\ c.fn \in Ops \cup {"none"}
    BY DEF IInv, ProgramOK, Mirrored, ProgramInv, DeadInv
  <1>2. a \in Nat
    BY <1>1, CallIs
  <1>3. heap' = [heap EXCEPT ![Owner[t]] = H2] /\ call' = [call EXCEPT ![t] = d]
    BY DEF Returns, Back
  <1>4. UNCHANGED <<alive, traced, in_realloc, chan, proc, opt>>
    BY DEF Returns, tracer, client
  <1> HIDE DEF a
  <1>5. d \in Call
    BY <1>1, <1>2, CallIs
  <1>6. d.fn = c.fn /\ d.st = "done" /\ d.size = c.size /\ d.watched = c.watched /\ d.ret = r /\ d.addr = a
    BY <1>1 DEF Back, Call
  <1> HIDE DEF d
  <1>7. Steps(t, H2, d)
    BY <1>3, <1>4 DEF Steps
  <1>8. call' \in [Threads -> Call]
    BY <1>1, <1>3, <1>5
  <1> QED BY <1>1, <1>4, <1>5, <1>6, <1>7, <1>8 DEF a

\* A thread in a call, and its process.
LEMMA InCall ==
  ASSUME IInv, Mirrored, NEW t \in Threads, call[t].fn # "none"
  PROVE  /\ Owner[t] \in Procs /\ alive[Owner[t]] /\ traced[Owner[t]] /\ call[t] \in Call
         /\ heap[Owner[t]] \in SUBSET Chunk /\ t \in ThreadsOf(Owner[t]) /\ ThreadsOf(Owner[t]) \subseteq Threads
         /\ Living(heap[Owner[t]], call, in_realloc, ThreadsOf(Owner[t]))
         /\ Calling(call[t], in_realloc[t], heap[Owner[t]])
  <1>1. Owner[t] \in Procs /\ t \in ThreadsOf(Owner[t]) /\ ThreadsOf(Owner[t]) \subseteq Threads
    BY OwnerIs DEF IInv, ThreadsOf
  <1>2. alive[Owner[t]]
    BY DEF Mirrored, ProgramInv, DeadInv, NoCall
  <1>3. traced[Owner[t]] /\ Living(heap[Owner[t]], call, in_realloc, ThreadsOf(Owner[t]))
    BY <1>1, <1>2 DEF Mirrored, ProgramInv, LivesInv
  <1> QED BY <1>1, <1>2, <1>3 DEF Living, IInv, ProgramOK

\* Chunks whose bytes are different are apart.
LEMMA ExtentApart ==
  ASSUME NEW k \in Chunk, NEW j \in Chunk, Extent(k.addr, k.size) \cap Extent(j.addr, j.size) = {}
  PROVE  Apart(k, j)
  <1>1. /\ k.addr \in Nat /\ j.addr \in Nat /\ Width(k.size) \in Nat /\ Width(j.size) \in Nat
        /\ Width(k.size) > 0 /\ Width(j.size) > 0
    BY ChunkIs
  <1>2. Extent(k.addr, k.size) = k.addr..(k.addr + Width(k.size) - 1)
        /\ Extent(j.addr, j.size) = j.addr..(j.addr + Width(j.size) - 1)
    BY DEF Extent, Width
  <1> DEFINE x == k.addr
             y == j.addr
             v == Width(k.size)
             w == Width(j.size)
  <1>3. x \in Nat /\ y \in Nat /\ v \in Nat /\ w \in Nat /\ v > 0 /\ w > 0
        /\ (x..(x + v - 1)) \cap (y..(y + w - 1)) = {}
    BY <1>1, <1>2
  <1> HIDE DEF x, y, v, w
  <1>4. ~(x \in y..(y + w - 1)) /\ ~(y \in x..(x + v - 1))
    BY <1>3
  <1>5. x + v <= y \/ y + w <= x
    BY <1>3, <1>4
  <1> QED BY <1>5 DEF Apart, x, y, v, w

\* malloc, mmap, realloc and mremap: the new chunk is held at once, as the old one
\* was.
LEMMA ExecAllocMirrored == ASSUME IInv, Faithful, Mirrored, NEW t \in Threads, ExecAlloc(t) PROVE Mirrored'
  <1> DEFINE c == call[t]
             p == Owner[t]
             S == ThreadsOf(p)
             H == {k \in heap[p] : k.addr # c.addr}
             n(r) == [addr |-> r, size |-> c.size, map |-> c.fn \in {"mmap", "mremap"}, lost |-> FALSE]
  <1>1. c.fn \in {"malloc", "mmap", "realloc", "mremap"} /\ c.st = "entered"
    BY DEF ExecAlloc, Entered
  <1>2. PICK r \in Addrs : Room(H, r, c.size) /\ Returns(t, H \cup {n(r)}, r)
    BY DEF ExecAlloc
  <1> DEFINE j == n(r)
             H2 == H \cup {j}
  <1>3. /\ p \in Procs /\ alive[p] /\ c \in Call /\ heap[p] \in SUBSET Chunk /\ t \in S /\ S \subseteq Threads
        /\ Living(heap[p], call, in_realloc, S) /\ Calling(c, in_realloc[t], heap[p])
    BY <1>1, InCall
  <1>4. c.ret = 0 /\ Mask(c) = c.addr /\ r \in Nat /\ r # 0
    BY <1>1, <1>3, MaskIs, AddrsAre DEF Calling
  <1>5. /\ j \in Chunk /\ j.addr = r /\ j.size = c.size /\ ~j.lost
        /\ j.map <=> c.fn \in {"mmap", "mremap"}
    <2> DEFINE b == c.fn \in {"mmap", "mremap"}
    <2>1. c.size \in Nat /\ b \in BOOLEAN
      BY <1>3, MaskIs
    <2>2. j = [addr |-> r, size |-> c.size, map |-> b, lost |-> FALSE]
      OBVIOUS
    <2> HIDE DEF b, j
    <2>3. j \in Chunk /\ j.addr = r /\ j.size = c.size /\ ~j.lost
      BY <2>1, <2>2 DEF Chunk
    <2>4. j.map = b
      BY <2>2
    <2> QED BY <2>3, <2>4, Zenon DEF b
  <1>6. Returns(t, H2, r)
    BY <1>2
  <1>7. H2 \in SUBSET Chunk /\ H \subseteq heap[p]
    BY <1>3, <1>5
  <1>8. \A k \in H : Apart(k, j)
    <2> TAKE k \in H
    <2>1. Extent(k.addr, k.size) \cap Extent(j.addr, j.size) = {}
      BY <1>2, <1>5 DEF Room
    <2> QED BY <1>3, <1>5, <1>7, <2>1, ExtentApart
  <1>h. \A k : k \in H <=> k \in heap[p] /\ k.addr # c.addr
    OBVIOUS
  <1>i. \A k : k \in H2 <=> k \in H \/ k = j
    OBVIOUS
  <1> HIDE DEF H2, j, n, H
  <1>9. Spread(H2)
    BY <1>3, <1>h, <1>i, <1>8 DEF Living, Spread, Apart
  <1>10. \A k \in H : k.addr # r
    <2> TAKE k \in H
    <2>1. Apart(k, j) /\ Width(k.size) \in Nat /\ Width(k.size) > 0 /\ Width(j.size) \in Nat /\ Width(j.size) > 0
      BY <1>3, <1>5, <1>7, <1>8, ChunkIs
    <2>2. k.addr \in Nat
      BY <1>3, <1>7, ChunkIs
    <2> QED BY <1>4, <1>5, <2>1, <2>2 DEF Apart
  <1>11. PICK d \in Call :
           /\ Steps(t, H2, d) /\ chan' = chan /\ in_realloc' = in_realloc /\ call' \in [Threads -> Call]
           /\ d.fn = c.fn /\ d.st = "done" /\ d.size = c.size /\ d.watched = c.watched
           /\ d.ret = r /\ d.addr = IF H2 = heap[p] THEN c.addr ELSE 0
           /\ d.fn \in Ops \cup {"none"}
    BY <1>1, <1>4, <1>6, ReturnsIs
  <1>12. Mask(d) = r
    BY <1>11, MaskIs
  <1>13. Calling(d, in_realloc'[t], H2)
    <2>1. j \in H2 /\ Grips(d, j)
      BY <1>1, <1>5, <1>11, <1>12, <1>i DEF Grips
    <2> QED BY <1>1, <1>3, <1>4, <1>11, <1>12, <2>1 DEF Calling
  <1>14. call'[t] = d /\ Moves(t, S, call, in_realloc, call', in_realloc')
    BY <1>11, StepsIs DEF IInv
  <1>15. /\ \A k \in heap[p] : k.addr # Mask(call[t]) => k \in H2 /\ k.addr # Mask(call'[t])
         /\ \A k \in H2 : k.addr # Mask(call'[t]) => k \in heap[p] /\ k.addr # Mask(call[t])
    BY <1>4, <1>5, <1>10, <1>12, <1>14, <1>h, <1>i
  <1>16. ~Unmaps(call[t]) /\ ~Unmaps(call'[t]) /\ call'[t].ret # 0 /\ (in_realloc'[t] <=> in_realloc[t])
    BY <1>1, <1>4, <1>11, <1>14 DEF Unmaps
  <1>17. call \in [Threads -> Call] /\ ~Forking(t)
    BY <1>1 DEF IInv, ProgramOK, Forking
  <1> HIDE DEF c, p, S
  <1>18. /\ Living(H2, call', in_realloc', S) /\ Lost(heap[p]) \subseteq Lost(H2)
         /\ \A T : Ahead(T, heap[p], call, in_realloc, S) => Ahead(T, H2, call', in_realloc', S)
    BY <1>3, <1>7, <1>9, <1>11, <1>13, <1>14, <1>15, <1>16, <1>17, Silent
  <1> QED BY <1>1, <1>3, <1>11, <1>17, <1>18, SilentMirrored DEF p, S, c

\* free: the chunk was reported as freed when the call began.
LEMMA ExecFreeMirrored == ASSUME IInv, Faithful, Mirrored, NEW t \in Threads, ExecFree(t) PROVE Mirrored'
  <1> DEFINE c == call[t]
             p == Owner[t]
             S == ThreadsOf(p)
             H2 == {k \in heap[p] : k.addr # c.addr}
  <1>1. c.fn \in {"free", "realloc"} /\ c.st = "entered" /\ c.addr # 0 /\ c.size = 0 /\ Returns(t, H2, 0)
    BY DEF ExecFree, Entered
  <1>2. /\ p \in Procs /\ alive[p] /\ c \in Call /\ heap[p] \in SUBSET Chunk /\ t \in S /\ S \subseteq Threads
        /\ Living(heap[p], call, in_realloc, S) /\ Calling(c, in_realloc[t], heap[p])
    BY <1>1, InCall
  <1>3. c.fn = "free" /\ c.ret = 0 /\ Mask(c) = c.addr /\ ~in_realloc[t]
    BY <1>1, <1>2, MaskIs DEF Calling
  <1>4. H2 # heap[p]
    <2>1. PICK k \in heap[p] : k.addr = c.addr
      BY <1>1, <1>2, <1>3, Gripped
    <2> QED BY <2>1
  <1>5. H2 \in SUBSET Chunk /\ Spread(H2)
    BY <1>2 DEF Living, Spread
  <1>h. \A k : k \in H2 <=> k \in heap[p] /\ k.addr # c.addr
    OBVIOUS
  <1> HIDE DEF H2
  <1>6. PICK d \in Call :
           /\ Steps(t, H2, d) /\ chan' = chan /\ in_realloc' = in_realloc /\ call' \in [Threads -> Call]
           /\ d.fn = c.fn /\ d.st = "done" /\ d.size = c.size /\ d.watched = c.watched
           /\ d.ret = 0 /\ d.addr = IF H2 = heap[p] THEN c.addr ELSE 0
           /\ d.fn \in Ops \cup {"none"}
    BY <1>1, <1>3, ReturnsIs
  <1>7. d.addr = 0 /\ Mask(d) = 0
    BY <1>4, <1>6, MaskIs
  <1>8. Calling(d, in_realloc'[t], H2)
    BY <1>2, <1>3, <1>6, <1>7 DEF Calling
  <1>9. call'[t] = d /\ Moves(t, S, call, in_realloc, call', in_realloc')
    BY <1>6, StepsIs DEF IInv
  <1>10. /\ \A k \in heap[p] : k.addr # Mask(call[t]) => k \in H2 /\ k.addr # Mask(call'[t])
         /\ \A k \in H2 : k.addr # Mask(call'[t]) => k \in heap[p] /\ k.addr # Mask(call[t])
    BY <1>2, <1>3, <1>7, <1>9, <1>h, ChunkIs
  <1>11. ~Unmaps(call[t]) /\ ~Unmaps(call'[t]) /\ ~in_realloc[t] /\ (in_realloc'[t] <=> in_realloc[t])
    BY <1>3, <1>6, <1>9 DEF Unmaps
  <1>12. call \in [Threads -> Call] /\ ~Forking(t)
    BY <1>1 DEF IInv, ProgramOK, Forking
  <1> HIDE DEF c, p, S
  <1>13. /\ Living(H2, call', in_realloc', S) /\ Lost(heap[p]) \subseteq Lost(H2)
         /\ \A T : Ahead(T, heap[p], call, in_realloc, S) => Ahead(T, H2, call', in_realloc', S)
    BY <1>2, <1>5, <1>6, <1>8, <1>9, <1>10, <1>11, <1>12, Silent
  <1> QED BY <1>2, <1>3, <1>6, <1>12, <1>13, SilentMirrored DEF p, S, c

\* malloc, realloc and mmap that fail.
LEMMA ExecFailMirrored == ASSUME IInv, Faithful, Mirrored, NEW t \in Threads, ExecFail(t) PROVE Mirrored'
  <1> DEFINE c == call[t]
             p == Owner[t]
             S == ThreadsOf(p)
             H == heap[p]
             r == IF c.fn \in {"mmap", "mremap"} THEN MapFailed ELSE 0
  <1>1. /\ c.fn \in {"malloc", "realloc", "mmap", "munmap", "mremap"} /\ c.st = "entered"
        /\ c.fn \in opt.fails \/ (c.fn # "munmap" /\ c.addr = 0)
        /\ Returns(t, H, r)
    BY DEF ExecFail, Entered
  <1>2. /\ p \in Procs /\ alive[p] /\ c \in Call /\ H \in SUBSET Chunk /\ t \in S /\ S \subseteq Threads
        /\ Living(H, call, in_realloc, S) /\ Calling(c, in_realloc[t], H)
    BY <1>1, InCall
  <1>3. c.fn \in {"malloc", "realloc", "mmap"}
    BY <1>1, <1>2 DEF Faithful, Calling
  <1>4. c.ret = 0 /\ c.ret \notin Addrs /\ Mask(c) = c.addr
    BY <1>1, <1>2, MaskIs DEF Calling
  <1>5. r \in Nat /\ (c.fn = "mmap" => r = MapFailed) /\ (c.fn # "mmap" => r = 0)
    BY <1>3, AddrsAre
  <1> HIDE DEF r
  <1>6. PICK d \in Call :
           /\ Steps(t, H, d) /\ chan' = chan /\ in_realloc' = in_realloc /\ call' \in [Threads -> Call]
           /\ d.fn = c.fn /\ d.st = "done" /\ d.size = c.size /\ d.watched = c.watched
           /\ d.ret = r /\ d.addr = IF H = heap[p] THEN c.addr ELSE 0
           /\ d.fn \in Ops \cup {"none"}
    BY <1>1, <1>3, <1>5, ReturnsIs
  <1>7. d.addr = c.addr /\ Mask(d) = c.addr /\ d.ret \notin Addrs
    BY <1>3, <1>5, <1>6, MaskIs
  <1>8. Calling(d, in_realloc'[t], H)
    <2>1. Mask(d) # 0 => \E k \in H : Grips(d, k)
      BY <1>2, <1>3, <1>4, <1>6, <1>7 DEF Calling, Grips
    <2> QED BY <1>2, <1>3, <1>4, <1>5, <1>6, <1>7, <2>1 DEF Calling
  <1>9. call'[t] = d /\ Moves(t, S, call, in_realloc, call', in_realloc')
    BY <1>6, StepsIs DEF IInv
  <1>10. \A k \in H : k.addr # Mask(call[t]) <=> k.addr # Mask(call'[t])
    BY <1>4, <1>7, <1>9
  <1>11. /\ ~Unmaps(call[t]) /\ ~Unmaps(call'[t]) /\ (in_realloc'[t] <=> in_realloc[t])
         /\ call[t].ret = 0 /\ call'[t].addr = call[t].addr /\ Spread(H)
    BY <1>2, <1>3, <1>4, <1>6, <1>7, <1>9 DEF Unmaps, Living
  <1>12. call \in [Threads -> Call] /\ ~Forking(t)
    BY <1>3 DEF IInv, ProgramOK, Forking
  <1>13. Calling(call'[t], in_realloc'[t], H)
    BY <1>8, <1>9
  <1> HIDE DEF c, p, S, H
  <1>14. /\ Living(H, call', in_realloc', S) /\ Lost(H) \subseteq Lost(H)
         /\ \A T : Ahead(T, H, call, in_realloc, S) => Ahead(T, H, call', in_realloc', S)
    BY <1>2, <1>6, <1>9, <1>10, <1>11, <1>12, <1>13, Silent
  <1> QED BY <1>2, <1>3, <1>6, <1>12, <1>14, SilentMirrored DEF p, S, c, H

\* The bytes that an munmap meets are those of one mapping.
LEMMA UnmapMeets ==
  ASSUME NEW H \in SUBSET Chunk, Spread(H), NEW k \in H, NEW n \in Nat, n # 0, n <= k.size, NEW j \in H
  PROVE  Extent(j.addr, j.size) \cap Extent(k.addr, n) # {} <=> j = k
  <1> DEFINE x == k.addr
             y == j.addr
             v == Width(k.size)
             w == Width(j.size)
  <1>1. x \in Nat /\ y \in Nat /\ v \in Nat /\ w \in Nat /\ v > 0 /\ w > 0 /\ n <= v
    BY ChunkIs DEF Width
  <1>2. Extent(k.addr, n) = x..(x + n - 1) /\ Extent(j.addr, j.size) = y..(y + w - 1)
    BY DEF Extent, Width
  <1>3. j # k => x + v <= y \/ y + w <= x
    BY DEF Spread, Apart
  <1>4. j = k => x = y
    OBVIOUS
  <1> HIDE DEF x, y, v, w
  <1>5. CASE j = k
    <2>1. x \in x..(x + n - 1) /\ x \in y..(y + w - 1)
      BY <1>1, <1>4, <1>5
    <2> QED BY <1>2, <1>5, <2>1
  <1>6. CASE j # k
    <2>1. \A z : z \in x..(x + n - 1) => ~(z \in y..(y + w - 1))
      BY <1>1, <1>3, <1>6
    <2> QED BY <1>2, <1>6, <2>1
  <1> QED BY <1>5, <1>6

\* munmap: what is left of the mapping k becomes a chunk, and was reported as one
\* when the call c began; the heap becomes H2.
Cutting(H, H2, c, k, E) ==
  /\ k \in H /\ Grips(c, k) /\ H2 = (H \ {k}) \cup E
  /\ E \in SUBSET Chunk /\ (\A e, f \in E : e = f) /\ (c.size < k.size <=> E # {})
  /\ \A e \in E : e.addr = k.addr + c.size /\ e.size = k.size - c.size /\ e.map

\* The client's picture is not changed by it.
LEMMA Unmapped ==
  ASSUME NEW H \in SUBSET Chunk, NEW H2 \in SUBSET Chunk, NEW K \in [Threads -> Call], NEW K2 \in [Threads -> Call],
         NEW R, NEW R2, NEW S \in SUBSET Threads,
         Living(H, K, R, S), NEW t \in S, Moves(t, S, K, R, K2, R2), ~R[t], ~R2[t],
         Unmaps(K[t]), K[t].ret = 0, Mask(K2[t]) = 0, Calling(K2[t], R2[t], H2),
         NEW k, NEW E, Cutting(H, H2, K[t], k, E)
  PROVE  /\ Living(H2, K2, R2, S) /\ Lost(H) \subseteq Lost(H2)
         /\ \A T : Ahead(T, H, K, R, S) => Ahead(T, H2, K2, R2, S)
  <1>e. /\ k \in H /\ Grips(K[t], k) /\ H2 = (H \ {k}) \cup E
        /\ E \in SUBSET Chunk /\ (\A e, f \in E : e = f) /\ (K[t].size < k.size <=> E # {})
        /\ \A e \in E : e.addr = k.addr + K[t].size /\ e.size = k.size - K[t].size /\ e.map
    BY DEF Cutting
  <1> USE <1>e
  <1> DEFINE n == K[t].size
  <1>1. /\ Mask(K[t]) = k.addr /\ K[t].addr = k.addr /\ n \in Nat /\ n # 0 /\ n <= k.size
        /\ k.addr \in Nat /\ k.addr # 0 /\ k.size \in Nat /\ Width(k.size) = k.size
    BY ChunkIs, MaskIs DEF Grips, Unmaps, Width
  <1>2. \A e \in E : /\ e.addr = k.addr + n /\ e.size = k.size - n /\ e.size \in Nat /\ e.size > 0
                     /\ Width(e.size) = k.size - n /\ Begins(e, k.addr, k.size) /\ e.addr # k.addr
                     /\ Shape(e) = Rest(K[t], k) /\ Cuts(K[t], k)
    <2> TAKE e \in E
    <2>1. e.addr = k.addr + n /\ e.size = k.size - n /\ n < k.size /\ e.map
      OBVIOUS
    <2> HIDE DEF n
    <2>2. e.size \in Nat /\ e.size > 0 /\ Width(e.size) = k.size - n /\ e.addr # k.addr
      BY <1>1, <2>1 DEF Width
    <2>3. Begins(e, k.addr, k.size)
      BY <1>1, <2>1 DEF Begins
    <2>4. Shape(e) = Item(e.addr, e.size, "map") /\ Rest(K[t], k) = Item(k.addr + n, k.size - n, "map")
      BY <1>1, <2>1 DEF Shape, Kind, Rest, n
    <2>5. Cuts(K[t], k)
      BY <1>1, <2>1 DEF Cuts, Unmaps, n
    <2> QED BY <2>1, <2>2, <2>3, <2>4, <2>5
  <1> HIDE DEF n
  <1>3. Spread(H2)
    <2>1. \A e \in E, j \in H : j # k => Apart(e, j) /\ Apart(j, e)
      <3> SUFFICES ASSUME NEW e \in E, NEW j \in H, j # k PROVE Apart(e, j) /\ Apart(j, e)
        OBVIOUS
      <3>1. Apart(k, j)
        BY DEF Living, Spread
      <3>2. j.addr \in Nat /\ Width(j.size) \in Nat /\ Width(e.size) = k.size - n /\ e.addr = k.addr + n
        BY <1>2, ChunkIs
      <3> QED BY <1>1, <3>1, <3>2 DEF Apart
    <2> QED BY <2>1 DEF Living, Spread
  <1>4. \A j \in H : j.addr # Mask(K[t]) => j \in H2
    BY <1>1
  <1>5. Living(H2, K2, R2, S)
    BY <1>3, <1>4, LivingMoved
  <1>6. \A u \in S \ {t} : /\ Mask(K[u]) # k.addr /\ K2[u] = K[u]
                           /\ \A e \in E : Mask(K[u]) # e.addr
    <2> TAKE u \in S \ {t}
    <2>1. Mask(K[u]) # k.addr /\ K2[u] = K[u]
      BY <1>1 DEF Living, Moves
    <2>2. ASSUME NEW e \in E, Mask(K[u]) = e.addr PROVE FALSE
      <3>1. e.addr # 0 /\ e.addr \in Nat
        BY ChunkIs
      <3>2. PICK j \in H : j.addr = e.addr
        BY <2>2, <3>1, Gripped
      <3>3. Begins(j, j.addr, j.size) /\ Begins(j, k.addr, k.size)
        BY <1>2, <3>2, ChunkIs DEF Begins
      <3>4. j = k
        BY <3>1, <3>2, <3>3, SpreadBegins DEF Living
      <3> QED BY <1>2, <3>2, <3>4
    <2> QED BY <2>1, <2>2
  <1>7. \A j \in H : j # k => j \in H2 /\ j.addr # k.addr
    BY SpreadAddr DEF Living
  <1>8. ASSUME NEW j \in H, j # k, NEW x PROVE From(x, j, K, S) <=> From(x, j, K2, S)
    <2>1. j.addr # 0 /\ j.addr # k.addr
      BY <1>7, <1>8, ChunkIs
    <2>2. ~Cuts(K[t], j) /\ Mask(K[t]) # j.addr
      BY <1>1, <2>1 DEF Cuts
    <2>3. ~Cuts(K2[t], j) /\ Mask(K2[t]) # j.addr
      <3>1. Mask(K2[t]) # j.addr
        BY <2>1
      <3>2. j \in H2
        BY <1>7, <1>8
      <3> QED BY <1>5, <3>1, <3>2, CutIs
    <2> QED BY <1>6, <2>2, <2>3 DEF From
  <1>9. ASSUME NEW x, From(x, k, K, S) PROVE \E e \in E : From(x, e, K2, S)
    <2>1. PICK u \in S : Cuts(K[u], k) /\ x = Rest(K[u], k)
      BY <1>1, <1>9 DEF From
    <2>2. u = t
      BY <1>6, <2>1, CutIs
    <2>3. K[t].size < k.size
      BY <2>1, <2>2 DEF Cuts
    <2>4. PICK e \in E : TRUE
      BY <2>3
    <2>5. x = Shape(e) /\ e.addr # 0
      BY <1>2, <2>1, <2>2, ChunkIs
    <2>6. \A v \in S : Mask(K2[v]) # e.addr
      BY <1>6, <2>5
    <2> QED BY <2>5, <2>6 DEF From
  <1>10. ASSUME NEW e \in E, NEW x, From(x, e, K2, S) PROVE From(x, k, K, S)
    <2>1. e.addr # 0 /\ e \in H2
      BY ChunkIs
    <2>2. \A v \in S : ~Cuts(K2[v], e)
      <3>1. \A v \in S : Mask(K2[v]) # e.addr
        BY <1>6, <2>1
      <3> QED BY <1>5, <2>1, <3>1, CutIs
    <2>3. x = Shape(e)
      BY <1>10, <2>2 DEF From
    <2> QED BY <1>2, <2>3 DEF From
  <1>11. \A x : Shown(x, H, K, S) <=> Shown(x, H2, K2, S)
    <2> TAKE x
    <2>1. Shown(x, H, K, S) <=> \E j \in H : From(x, j, K, S)
      BY ShownFrom
    <2>2. Shown(x, H2, K2, S) <=> \E j \in H2 : From(x, j, K2, S)
      BY <1>5, ShownFrom
    <2>3. (\E j \in H : From(x, j, K, S)) => \E j \in H2 : From(x, j, K2, S)
      BY <1>7, <1>8, <1>9
    <2>4. (\E j \in H2 : From(x, j, K2, S)) => \E j \in H : From(x, j, K, S)
      BY <1>8, <1>10
    <2> QED BY <2>1, <2>2, <2>3, <2>4
  <1>12. Lost(H) \subseteq Lost(H2)
    BY <1>4, LostKept
  <1>13. ASSUME NEW T, Ahead(T, H, K, R, S) PROVE Ahead(T, H2, K2, R2, S)
    <2>1. Holding(T.held, H2, K2, R2, S)
      BY <1>4, <1>13, HoldingKept DEF Ahead
    <2> QED BY <1>11, <1>13, <2>1 DEF Ahead
  <1> QED BY <1>5, <1>12, <1>13

\* munmap takes effect.
LEMMA ExecUnmapMirrored == ASSUME IInv, Faithful, Mirrored, NEW t \in Threads, ExecUnmap(t) PROVE Mirrored'
  <1> DEFINE c == call[t]
             p == Owner[t]
             S == ThreadsOf(p)
             H == heap[p]
             n == c.size
             end == c.addr + n
             C == {k \in H : Extent(k.addr, k.size) \cap Extent(c.addr, n) # {}}
             before == {[k EXCEPT !.size = c.addr - k.addr] : k \in {k \in C : k.addr < c.addr}}
             after == {[k EXCEPT !.addr = end, !.size = k.addr + k.size - end] :
                         k \in {k \in C : k.addr + k.size > end}}
             H2 == (H \ C) \cup before \cup after
  <1>1. c.fn = "munmap" /\ c.st = "entered" /\ Returns(t, H2, 0)
    BY DEF ExecUnmap, Entered
  <1>2. /\ p \in Procs /\ alive[p] /\ c \in Call /\ H \in SUBSET Chunk /\ t \in S /\ S \subseteq Threads
        /\ Living(H, call, in_realloc, S) /\ Calling(c, in_realloc[t], H)
    BY <1>1, InCall
  <1>3. c.ret = 0 /\ Mask(c) = c.addr /\ c.addr # 0 /\ ~in_realloc[t] /\ n \in Nat /\ c.addr \in Nat
    BY <1>1, <1>2, MaskIs DEF Calling
  <1>4. PICK k \in H : Grips(c, k)
    BY <1>2, <1>3 DEF Calling
  <1>5. /\ k.addr = c.addr /\ k.map /\ n # 0 /\ n <= k.size /\ k.addr \in Nat /\ k.size \in Nat /\ k \in Chunk
        /\ c.ret \notin Addrs
    BY <1>1, <1>2, <1>3, <1>4, ChunkIs, MaskIs DEF Grips
  <1>6. C = {k}
    <2> HIDE DEF n
    <2>1. \A j \in H : Extent(j.addr, j.size) \cap Extent(k.addr, n) # {} <=> j = k
      BY <1>2, <1>3, <1>5, UnmapMeets DEF Living
    <2> QED BY <1>5, <2>1
  <1>7. before = {}
    BY <1>5, <1>6
  <1> DEFINE e == [k EXCEPT !.addr = end, !.size = k.addr + k.size - end]
  <1>8. after = IF n < k.size THEN {e} ELSE {}
    <2>1. k.addr + k.size > end <=> n < k.size
      <3> HIDE DEF n
      <3> QED BY <1>3, <1>5
    <2>2. after = {[j EXCEPT !.addr = end, !.size = j.addr + j.size - end] : j \in {j \in {k} : j.addr + j.size > end}}
      BY <1>6
    <2> HIDE DEF n, end, C
    <2> QED BY <2>1, <2>2
  <1>9. e.addr = k.addr + n /\ e.size = k.size - n /\ e.map
    <2>1. e.addr = end /\ e.size = k.addr + k.size - end /\ e.map = k.map
      BY <1>5 DEF Chunk
    <2>2. end = k.addr + n
      BY <1>5
    <2> HIDE DEF e, n, end
    <2> QED BY <1>3, <1>5, <2>1, <2>2
  <1>10. H2 = (H \ {k}) \cup after
    BY <1>6, <1>7
  <1> HIDE DEF C, before, e
  <1>11. H2 # H
    <2>1. after # {} => \A j \in after : j.addr # k.addr
      <3> HIDE DEF n, after
      <3> QED BY <1>3, <1>5, <1>8, <1>9
    <2>2. k \notin H2
      BY <1>10, <2>1
    <2> QED BY <2>2
  <1>12. ProgramOK' /\ heap'[p] = H2
    <2>1. ProgramOK' /\ heap \in [Procs -> SUBSET Chunk]
      BY ExecUnmapOK DEF IInv, ProgramOK
    <2>2. heap' = [heap EXCEPT ![p] = H2]
      BY <1>1 DEF Returns
    <2> QED BY <1>2, <2>1, <2>2
  <1>13. H2 \in SUBSET Chunk
    BY <1>2, <1>12 DEF ProgramOK
  <1> HIDE DEF H2
  <1>14. PICK d \in Call :
           /\ Steps(t, H2, d) /\ chan' = chan /\ in_realloc' = in_realloc /\ call' \in [Threads -> Call]
           /\ d.fn = c.fn /\ d.st = "done" /\ d.size = c.size /\ d.watched = c.watched
           /\ d.ret = 0 /\ d.addr = IF H2 = heap[p] THEN c.addr ELSE 0
           /\ d.fn \in Ops \cup {"none"}
    BY <1>1, <1>3, ReturnsIs
  <1>15. d.addr = 0 /\ Mask(d) = 0
    BY <1>11, <1>14, MaskIs
  <1>16. Calling(d, in_realloc'[t], H2)
    BY <1>1, <1>2, <1>3, <1>14, <1>15 DEF Calling
  <1>17. call'[t] = d /\ Moves(t, S, call, in_realloc, call', in_realloc')
    BY <1>14, StepsIs DEF IInv
  <1>18. call \in [Threads -> Call] /\ ~Forking(t)
    BY <1>1 DEF IInv, ProgramOK, Forking
  <1>19. /\ after \in SUBSET Chunk /\ (\A x, y \in after : x = y) /\ (n < k.size <=> after # {})
         /\ \A x \in after : x.addr = k.addr + n /\ x.size = k.size - n /\ x.map
    <2> HIDE DEF n, after
    <2> QED BY <1>8, <1>9, <1>10, <1>13
  <1>20. Unmaps(call[t]) /\ ~in_realloc'[t]
    BY <1>1, <1>3, <1>14 DEF Unmaps
  <1>21. /\ Cutting(H, H2, call[t], k, after) /\ call[t].ret = 0
         /\ Mask(call'[t]) = 0 /\ Calling(call'[t], in_realloc'[t], H2)
    BY <1>3, <1>4, <1>10, <1>15, <1>16, <1>17, <1>19 DEF Cutting
  <1> HIDE DEF after, n, c, S, H, p
  <1>22. /\ Living(H2, call', in_realloc', S) /\ Lost(H) \subseteq Lost(H2)
         /\ \A T : Ahead(T, H, call, in_realloc, S) => Ahead(T, H2, call', in_realloc', S)
    <2>1. /\ H \in SUBSET Chunk /\ S \in SUBSET Threads /\ t \in S /\ call' \in [Threads -> Call]
          /\ Living(H, call, in_realloc, S) /\ ~in_realloc[t] /\ Moves(t, S, call, in_realloc, call', in_realloc')
      BY <1>2, <1>3, <1>14, <1>17
    <2> QED BY <1>13, <1>18, <1>20, <1>21, <2>1, Unmapped
  <1> QED BY <1>1, <1>2, <1>14, <1>18, <1>22, SilentMirrored DEF p, S, c, H

\* fork: the child is a copy, of which the client does not know yet.
LEMMA ExecForkMirrored ==
  ASSUME IInv, Faithful, Mirrored, NEW t \in Threads, NEW q \in Procs, ExecFork(t, q)
  PROVE  Mirrored'
  <1> DEFINE c == call[t]
             p == Owner[t]
             S == ThreadsOf(p)
             H == heap[p]
             d == [c EXCEPT !.st = "done", !.child = q]
  <1>1. /\ c.fn = "fork" /\ c.st = "entered" /\ q \in Unborn
        /\ heap' = [heap EXCEPT ![q] = H] /\ call' = [call EXCEPT ![t] = d]
        /\ UNCHANGED <<alive, traced, in_realloc, chan, proc, opt>>
    BY DEF ExecFork, Entered, tracer, client
  <1>2. /\ p \in Procs /\ alive[p] /\ c \in Call /\ H \in SUBSET Chunk /\ t \in S /\ S \in SUBSET Threads
        /\ Living(H, call, in_realloc, S) /\ Calling(c, in_realloc[t], H)
    BY <1>1, InCall
  <1>3. ~alive[q] /\ (\A u \in Threads : call[u].child # q) /\ p # q
    BY <1>1, <1>2 DEF Unborn
  <1>4. c.ret = 0 /\ c.addr = 0 /\ Mask(c) = 0 /\ ~in_realloc[t] /\ c.watched
    BY <1>1, <1>2, MaskIs DEF Calling
  <1>5. /\ d \in Call /\ d.fn = "fork" /\ d.st = "done" /\ d.child = q /\ d.ret = 0 /\ d.addr = 0
        /\ d.watched /\ d.size = c.size
    BY <1>1, <1>2, <1>4 DEF Call
  <1> HIDE DEF d
  <1>6. Mask(d) = 0 /\ Calling(d, in_realloc[t], H)
    BY <1>4, <1>5, MaskIs DEF Calling
  <1>7. /\ heap \in [Procs -> SUBSET Chunk] /\ call \in [Threads -> Call] /\ call' \in [Threads -> Call]
        /\ ProgramInv /\ call[t].fn \in Ops \cup {"none"}
    BY <1>1, <1>5 DEF IInv, ProgramOK, Mirrored, ProgramInv, DeadInv
  <1>8. /\ heap'[q] = H /\ \A r \in Procs : r # q => heap'[r] = heap[r]
        /\ call'[t] = d /\ \A u \in Threads : u # t => call'[u] = call[u]
        /\ alive' = alive /\ in_realloc' = in_realloc
        /\ \A r \in Procs : ThreadsOf(r)' = ThreadsOf(r) /\ ThreadsOf(r) \in SUBSET Threads
        /\ Owner' = Owner /\ Ops' = Ops
    BY <1>1, <1>2, <1>7 DEF ThreadsOf, Owner, Ops
  <1>9. ~Scannable /\ ~Scannable'
    BY <1>1, <1>7, <1>8 DEF Scannable
  <1>10. \A u \in Threads : u # t => \A r \in Procs : u \in ThreadsOf(r) => call'[u] = call[u]
    BY <1>8
  <1>11. Moves(t, S, call, in_realloc, call', in_realloc')
    BY <1>2, <1>8 DEF Moves
  <1>12. /\ Living(H, call', in_realloc', S)
         /\ \A T : Ahead(T, H, call, in_realloc, S) => Ahead(T, H, call', in_realloc', S)
    <2>1. /\ Spread(H) /\ Calling(call'[t], in_realloc'[t], H)
          /\ \A k \in H : k.addr # Mask(call[t]) /\ k.addr # Mask(call'[t])
          /\ ~Unmaps(call[t]) /\ ~Unmaps(call'[t]) /\ ~in_realloc[t] /\ (in_realloc'[t] <=> in_realloc[t])
      BY <1>1, <1>2, <1>4, <1>5, <1>6, <1>8, ChunkIs DEF Living, Unmaps
    <2> HIDE DEF H, S
    <2> QED BY <1>2, <1>7, <1>11, <2>1, Silent
  <1>13. ASSUME NEW r \in Procs, r # p
         PROVE  /\ Living(heap[r], call, in_realloc, ThreadsOf(r)) => Living(heap[r], call', in_realloc', ThreadsOf(r))
                /\ \A T : Ahead(T, heap[r], call, in_realloc, ThreadsOf(r))
                          => Ahead(T, heap[r], call', in_realloc', ThreadsOf(r))
    <2>1. \A u \in ThreadsOf(r) : call'[u] = call[u] /\ in_realloc'[u] = in_realloc[u]
      BY <1>8, <1>13 DEF ThreadsOf
    <2> QED BY <2>1, LivingSame
  <1>14. LivesInv'
    <2> SUFFICES ASSUME NEW r \in Procs, alive[r]
                 PROVE  traced'[r] /\ Living(heap'[r], call', in_realloc', ThreadsOf(r))
      BY <1>8 DEF LivesInv
    <2>1. traced'[r] /\ heap'[r] = heap[r] /\ Living(heap[r], call, in_realloc, ThreadsOf(r))
      BY <1>1, <1>3, <1>7, <1>8 DEF ProgramInv, LivesInv
    <2> QED BY <1>12, <1>13, <2>1
  <1>15. DeadInv'
    BY <1>1, <1>2, <1>5, <1>7, <1>8 DEF ProgramInv, DeadInv
  <1>16. ForkInv'
    <2> SUFFICES ASSUME NEW u \in Threads, Forking(u)'
                 PROVE  LET r == call'[u].child
                        IN /\ ~alive[r] /\ Spread(heap'[r]) /\ Alike(heap'[r], heap'[Owner[u]])
                           /\ \A v \in Threads : Forking(v)' /\ call'[v].child = r => v = u
      BY <1>8 DEF ForkInv
    <2>1. \A v \in Threads : v # t => (Forking(v)' <=> Forking(v)) /\ call'[v].child # q
      BY <1>3, <1>8 DEF Forking
    <2>2. CASE u = t
      <3>1. heap'[p] = H /\ Alike(H, H) /\ Spread(H)
        BY <1>2, <1>3, <1>8 DEF Alike, Living
      <3> QED BY <1>3, <1>5, <1>8, <2>1, <2>2, <3>1
    <2>3. CASE u # t
      <3> DEFINE r == call[u].child
      <3>1. Forking(u) /\ call'[u] = call[u] /\ call[u] \in Call
        BY <1>7, <1>8, <2>1, <2>3
      <3>2. /\ ~alive[r] /\ Spread(heap[r]) /\ Alike(heap[r], heap[Owner[u]])
            /\ \A v \in Threads : Forking(v) /\ call[v].child = r => v = u
        BY <1>7, <3>1 DEF ProgramInv, ForkInv
      <3>3. alive[Owner[u]] /\ Owner[u] \in Procs
        BY <1>7, <3>1, OwnerIs DEF ProgramInv, DeadInv, Forking, NoCall, IInv
      <3>4. r # q /\ r \in Procs
        BY <1>3, <3>1 DEF Call
      <3>5. heap'[r] = heap[r] /\ heap'[Owner[u]] = heap[Owner[u]]
        BY <1>3, <1>8, <3>3, <3>4
      <3>6. \A v \in Threads : Forking(v)' /\ call'[v].child = r => v = u
        BY <1>5, <1>8, <2>1, <3>2, <3>4
      <3> QED BY <3>1, <3>2, <3>5, <3>6
    <2> QED BY <2>2, <2>3
  <1>17. PICK F, L : Linked(F, L)
    BY DEF Mirrored
  <1>18. Linked(F, L)'
    <2>1. \A r \in Procs : alive[r] => Ahead(L[r], heap'[r], call', in_realloc', ThreadsOf(r))
      <3> SUFFICES ASSUME NEW r \in Procs, alive[r] PROVE Ahead(L[r], heap'[r], call', in_realloc', ThreadsOf(r))
        OBVIOUS
      <3>1. heap'[r] = heap[r] /\ Ahead(L[r], heap[r], call, in_realloc, ThreadsOf(r))
        BY <1>3, <1>8, <1>17 DEF Linked
      <3> QED BY <1>12, <1>13, <3>1
    <2> QED BY <1>1, <1>8, <1>9, <1>17, <2>1 DEF Linked
  <1> QED BY <1>14, <1>15, <1>16, <1>18 DEF ProgramInv, Mirrored

\* The chunk k becomes j, which is lost, and keeps its place.
Loses(H, H2, k, j) ==
  /\ k \in H /\ j \in Chunk /\ H2 = (H \ {k}) \cup {j}
  /\ j.addr = k.addr /\ j.size = k.size /\ (j.map <=> k.map) /\ j.lost

\* The client's picture is not changed by it.
LEMMA Losing ==
  ASSUME NEW H \in SUBSET Chunk, NEW K \in [Threads -> Call], NEW R, NEW S, Living(H, K, R, S),
         NEW H2, NEW k, NEW j, Loses(H, H2, k, j), \A u \in S : k.addr # K[u].addr /\ k.addr # K[u].ret
  PROVE  /\ Living(H2, K, R, S) /\ Lost(H) \subseteq Lost(H2) /\ \A G : Alike(G, H) => Alike(G, H2)
         /\ \A T : Ahead(T, H, K, R, S) => Ahead(T, H2, K, R, S)
  <1> USE DEF Loses
  <1>1. \A u \in S : Mask(K[u]) # k.addr
    BY DEF Mask
  <1>2. Shape(j) = Shape(k)
    BY DEF Shape, Kind
  <1>3. Spread(H2)
    BY DEF Living, Spread, Apart
  <1>4. \A u \in S : Calling(K[u], R[u], H2)
    <2> TAKE u \in S
    <2>1. Calling(K[u], R[u], H)
      BY DEF Living
    <2>2. Mask(K[u]) # 0 => \E i \in H2 : Grips(K[u], i)
      BY <1>1, <2>1 DEF Calling, Grips
    <2> QED BY <2>1, <2>2 DEF Calling
  <1>5. Living(H2, K, R, S)
    BY <1>3, <1>4 DEF Living
  <1>6. \A x : (\E i \in H : x = Shape(i)) <=> (\E i \in H2 : x = Shape(i))
    BY <1>2
  <1>7. \A x : Shown(x, H, K, S) <=> Shown(x, H2, K, S)
    <2> TAKE x
    <2>1. \A u \in S : ~Cuts(K[u], k) /\ ~Cuts(K[u], j)
      BY DEF Cuts
    <2> QED BY <1>2, <2>1 DEF Shown
  <1>8. \A X : Holding(X, H, K, R, S) => Holding(X, H2, K, R, S)
    <2>1. \A a, n : (\E i \in H : i.addr = a /\ i.size = n) => \E i \in H2 : i.addr = a /\ i.size = n
      OBVIOUS
    <2> HIDE DEF Holding
    <2> QED BY <2>1 DEF Holding
  <1>9. Lost(H) \subseteq Lost(H2)
    BY DEF Lost
  <1>10. \A T : Ahead(T, H, K, R, S) => Ahead(T, H2, K, R, S)
    BY <1>7, <1>8 DEF Ahead
  <1>11. \A G : Alike(G, H) => Alike(G, H2)
    BY <1>6 DEF Alike
  <1> QED BY <1>5, <1>9, <1>10, <1>11

\* The program forgets a chunk: the client is not told.
LEMMA LoseMirrored ==
  ASSUME IInv, Faithful, Mirrored, NEW t \in Threads, NEW k \in heap[Owner[t]], Lose(Owner[t], k)
  PROVE  Mirrored'
  <1> DEFINE p == Owner[t]
             S == ThreadsOf(p)
             H == heap[p]
             j == [k EXCEPT !.lost = TRUE]
             H2 == (H \ {k}) \cup {j}
  <1>1. /\ alive[p] /\ k \in Usable(p) /\ heap' = [heap EXCEPT ![p] = H2]
        /\ UNCHANGED <<alive, call, traced, in_realloc, chan, proc, opt>>
    BY DEF Lose, tracer, client
  <1>2. /\ p \in Procs /\ heap \in [Procs -> SUBSET Chunk] /\ H \in SUBSET Chunk /\ k \in H
        /\ call \in [Threads -> Call] /\ t \in S /\ S \in SUBSET Threads /\ ProgramInv
    BY OwnerIs DEF IInv, ProgramOK, ThreadsOf, Mirrored
  <1>3. Living(H, call, in_realloc, S)
    BY <1>1, <1>2 DEF ProgramInv, LivesInv
  <1>4. \A u \in S : k.addr # call[u].addr /\ k.addr # call[u].ret
    BY <1>1 DEF Usable
  <1>5. j \in Chunk /\ j.addr = k.addr /\ j.size = k.size /\ (j.map <=> k.map) /\ j.lost
    BY <1>2 DEF Chunk
  <1> HIDE DEF j
  <1>6. Loses(H, H2, k, j)
    BY <1>2, <1>5 DEF Loses
  <1> HIDE DEF H2, H, S
  <1>7. /\ Living(H2, call, in_realloc, S) /\ Lost(H) \subseteq Lost(H2) /\ (\A G : Alike(G, H) => Alike(G, H2))
        /\ \A T : Ahead(T, H, call, in_realloc, S) => Ahead(T, H2, call, in_realloc, S)
    BY <1>2, <1>3, <1>4, <1>6, Losing
  <1>8. Steps(t, H2, call[t]) /\ call' = call /\ in_realloc' = in_realloc /\ chan' = chan
    BY <1>1, <1>2 DEF Steps
  <1>9. /\ heap'[p] = H2 /\ \A q \in Procs : q # p => heap'[q] = heap[q]
        /\ \A q \in Procs : ThreadsOf(q)' = ThreadsOf(q)
        /\ alive' = alive /\ traced' = traced /\ Owner' = Owner /\ Ops' = Ops
    BY <1>1, <1>2 DEF ThreadsOf, Owner, Ops
  <1>10. LivesInv'
    BY <1>2, <1>7, <1>8, <1>9 DEF ProgramInv, LivesInv, S
  <1>11. DeadInv'
    BY <1>2, <1>8, <1>9 DEF ProgramInv, DeadInv
  <1>12. ForkInv'
    <2> SUFFICES ASSUME NEW u \in Threads, Forking(u)
                 PROVE  LET r == call[u].child
                        IN /\ ~alive[r] /\ Spread(heap'[r]) /\ Alike(heap'[r], heap'[Owner[u]])
                           /\ \A v \in Threads : Forking(v) /\ call[v].child = r => v = u
      BY <1>8, <1>9 DEF ForkInv, Forking
    <2> DEFINE r == call[u].child
    <2>1. /\ ~alive[r] /\ Spread(heap[r]) /\ Alike(heap[r], heap[Owner[u]]) /\ r \in Procs
          /\ \A v \in Threads : Forking(v) /\ call[v].child = r => v = u
      BY <1>2 DEF ProgramInv, ForkInv, Call
    <2>2. heap'[r] = heap[r] /\ Owner[u] \in Procs
      BY <1>1, <1>9, <2>1, OwnerIs DEF IInv
    <2>3. Alike(heap[r], heap'[Owner[u]])
      BY <1>7, <1>9, <2>1, <2>2 DEF H
    <2> QED BY <2>1, <2>2, <2>3
  <1>13. PICK F, L : Linked(F, L)
    BY DEF Mirrored
  <1>14. /\ Line(opt.interactive, chan', F, L) /\ Ahead(L[p], H2, call', in_realloc', S)
         /\ Scannable => L[p].leaked \subseteq Lost(H2)
    BY <1>1, <1>2, <1>7, <1>8, <1>13 DEF Linked, H, S
  <1>15. Linked(F, L)'
    BY <1>8, <1>13, <1>14, StepsLinked DEF IInv, S
  <1> QED BY <1>10, <1>11, <1>12, <1>15 DEF ProgramInv, Mirrored

\* A message is sent that takes the table of its process to U.
LEMMA LineSent ==
  ASSUME NEW i, NEW ch \in Seq(Sendable), NEW F, NEW L, Line(i, ch, F, L), NEW m \in Sendable, NEW U \in Table,
         Follows(i, m, L[m.pid], U, L[m.parent]), Tidy(U), L[m.pid].leaked \subseteq U.leaked
  PROVE  Line(i, Append(ch, m), F, [L EXCEPT ![m.pid] = U])
  <1> DEFINE G == [L EXCEPT ![m.pid] = U]
  <1>1. L \in Tables /\ m.pid \in Procs /\ \A p \in Procs : Tidy(L[p])
    BY LineEnds, MessageFields
  <1>2. G \in Tables /\ G[m.pid] = U /\ \A p \in Procs : p # m.pid => G[p] = L[p]
    BY <1>1 DEF Tables
  <1> HIDE DEF G
  <1>3. Step(i, m, L, G)
    BY <1>2 DEF Step
  <1>4. \A p \in Procs : Tidy(G[p]) /\ L[p].leaked \subseteq G[p].leaked
    BY <1>1, <1>2
  <1>5. Line(i, Append(ch, m), F, G)
    BY <1>2, <1>3, <1>4, LineAppend
  <1> QED BY <1>5 DEF G

\* The last table has one item at an address.
LEMMA AheadTidy ==
  ASSUME NEW H \in SUBSET Chunk, NEW K \in [Threads -> Call], NEW R, NEW S \in SUBSET Threads,
         Living(H, K, R, S), NEW T, Ahead(T, H, K, R, S)
  PROVE  Tidy(T) /\ T.blocks \subseteq Items
  BY ShownTidy DEF Ahead, Tidy

\* A step of a thread that the tracer reports.
LEMMA ReportMirrored ==
  ASSUME IInv, Faithful, Mirrored, NEW t \in Threads, alive[Owner[t]],
         NEW H2, NEW c2, Steps(t, H2, c2), ~Forking(t), ~(c2.fn = "fork" /\ c2.st = "done"),
         c2.fn \in Ops \cup {"none"},
         Living(H2, call', in_realloc', ThreadsOf(Owner[t])), Lost(heap[Owner[t]]) \subseteq Lost(H2),
         NEW F, NEW L, Linked(F, L), NEW U, Line(opt.interactive, chan', F, [L EXCEPT ![Owner[t]] = U]),
         U.leaked = L[Owner[t]].leaked, Ahead(U, H2, call', in_realloc', ThreadsOf(Owner[t]))
  PROVE  Mirrored'
  <1> DEFINE p == Owner[t]
  <1>g. PICK G : G = [L EXCEPT ![p] = U]
    OBVIOUS
  <1>1. ProgramOK /\ opt \in Scenario /\ ProgramInv /\ p \in Procs /\ chan \in Seq(Sendable)
    BY OwnerIs DEF IInv, Mirrored, ChanOK
  <1>2. ProgramInv'
    BY <1>1, StepsProgram
  <1>3. L \in Tables
    BY <1>1, LineEnds DEF Linked
  <1>4. G[p] = U /\ \A q \in Procs : q # p => G[q] = L[q]
    BY <1>1, <1>3, <1>g DEF Tables
  <1>5. Line(opt.interactive, chan', F, G)
    BY <1>g
  <1>6. Ahead(G[p], H2, call', in_realloc', ThreadsOf(p)) /\ (Scannable => G[p].leaked \subseteq Lost(H2))
    BY <1>1, <1>4 DEF Linked
  <1>7. Linked(F, G)'
    BY <1>1, <1>4, <1>5, <1>6, StepsLinked
  <1> QED BY <1>2, <1>7 DEF Mirrored

\* The message m with which the thread t gives up the chunk k in the call c.
Takes(m, t, c, k) ==
  /\ m.addr = k.addr
  /\ c.fn = "free" => m.op = "free"
  /\ c.fn = "realloc" => m.op = "enter" /\ m.tid = t
  /\ c.fn = "munmap" => m.op = "munmap" /\ m.size = c.size
  /\ c.fn = "mremap" => m.op = "munmap" /\ m.size = k.size

\* The table after such a message.
TakenFrom(T, t, c, k) ==
  [known |-> TRUE,
   blocks |-> (T.blocks \ {Shape(k)}) \cup (IF Cuts(c, k) THEN {Rest(c, k)} ELSE {}),
   held |-> T.held \cup (IF c.fn = "realloc" THEN {Hold(t, k.addr, k.size)} ELSE {}),
   leaked |-> T.leaked]

\* A call of t begins that gives up k, which is reported as m.
Taking(t, m, k, H, K, R, K2, R2, S) ==
  /\ t \in S /\ Moves(t, S, K, R, K2, R2) /\ K[t] = NoCall
  /\ k \in H /\ Takes(m, t, K2[t], k) /\ Grips(K2[t], k) /\ \A u \in S : Mask(K[u]) # k.addr
  /\ Calling(K2[t], R2[t], H) /\ ~R[t] /\ (R2[t] <=> K2[t].fn = "realloc")
  /\ K2[t].st = "entered" /\ K2[t].fn \in {"free", "realloc", "munmap", "mremap"}

\* The message takes the last table to one that agrees with the program again.
LEMMA EnterTaken ==
  ASSUME NEW H \in SUBSET Chunk, NEW K \in [Threads -> Call], NEW K2 \in [Threads -> Call], NEW R, NEW R2,
         NEW S \in SUBSET Threads, Living(H, K, R, S), NEW t, NEW m, NEW k, Taking(t, m, k, H, K, R, K2, R2, S),
         NEW T \in Table, Ahead(T, H, K, R, S)
  PROVE  /\ Living(H, K2, R2, S)
         /\ \E U \in Table : /\ Ahead(U, H, K2, R2, S) /\ U.leaked = T.leaked
                             /\ FreeStep(m, T, U) \/ EnterStep(m, T, U) \/ UnmapStep(m, T, U)
  <1>t. /\ t \in S /\ Moves(t, S, K, R, K2, R2) /\ K[t] = NoCall
        /\ k \in H /\ Takes(m, t, K2[t], k) /\ Grips(K2[t], k) /\ \A u \in S : Mask(K[u]) # k.addr
        /\ Calling(K2[t], R2[t], H) /\ ~R[t] /\ (R2[t] <=> K2[t].fn = "realloc")
        /\ K2[t].st = "entered" /\ K2[t].fn \in {"free", "realloc", "munmap", "mremap"}
    BY DEF Taking
  <1> USE <1>t
  <1> DEFINE c == K2[t]
             x == Shape(k)
             U == TakenFrom(T, t, c, k)
  <1>1. Mask(c) = k.addr /\ c \in Call
    BY DEF Grips
  <1>2. /\ Living(H, K2, R2, S)
        /\ Shown(x, H, K, S)
        /\ \A y : Shown(y, H, K2, S) <=> \/ Shown(y, H, K, S) /\ y # x
                                         \/ Cuts(c, k) /\ y = Rest(c, k)
        /\ \A y : Shown(y, H, K, S) /\ Begins(y, k.addr, k.size) => y = x
    BY <1>1, Taken
  <1>3. /\ T.known /\ (\A y : y \in T.blocks <=> Shown(y, H, K, S)) /\ Holding(T.held, H, K, R, S)
    BY DEF Ahead
  <1>4. c.ret = 0 /\ c.addr = k.addr /\ c.size \in Nat /\ c.ret \notin Addrs
    BY <1>1, MaskIs DEF Calling
  <1>5. /\ x.addr = k.addr /\ x.size = k.size /\ (x.kind = "map" <=> k.map) /\ (x.kind = "heap" <=> ~k.map)
        /\ k.addr \in Nat /\ k.size \in Nat /\ x \in Items /\ Width(k.size) \in Nat
    BY ChunkIs
  <1>6. k.map <=> c.fn \in {"munmap", "mremap"}
    BY <1>4 DEF Grips
  <1>7. /\ U.known /\ U.leaked = T.leaked
        /\ U.blocks = (T.blocks \ {x}) \cup (IF Cuts(c, k) THEN {Rest(c, k)} ELSE {})
        /\ U.held = T.held \cup (IF c.fn = "realloc" THEN {Hold(t, k.addr, k.size)} ELSE {})
        /\ U = [known |-> TRUE, blocks |-> U.blocks, held |-> U.held, leaked |-> U.leaked]
    BY DEF TakenFrom
  <1> HIDE DEF U, c, x
  <1>8. \A y : y \in U.blocks <=> Shown(y, H, K2, S)
    BY <1>2, <1>3, <1>7
  <1>9. Holding(U.held, H, K2, R2, S) /\ (c.fn = "realloc" => \A h \in T.held : h.tid # t)
    <2>1. CASE c.fn = "realloc"
      <3>1. R2[t] /\ K2[t].addr = k.addr
        BY <1>4, <2>1 DEF c
      <3>2. (\A h \in T.held : h.tid # t) /\ Holding(T.held \cup {Hold(t, k.addr, k.size)}, H, K2, R2, S)
        BY <1>3, <3>1, HoldingAdded
      <3> QED BY <1>7, <2>1, <3>2
    <2>2. CASE c.fn # "realloc"
      <3>1. Holding(T.held, H, K2, R2, S)
        BY <1>3, <2>2, HoldingSame DEF c
      <3>2. U.held = T.held
        BY <1>7, <2>2
      <3> QED BY <2>2, <3>1, <3>2
    <2> QED BY <2>1, <2>2
  <1>10. Ahead(U, H, K2, R2, S)
    BY <1>7, <1>8, <1>9 DEF Ahead
  <1>11. U \in Table
    <2>1. U.blocks \subseteq Items
      BY <1>2, <1>10, AheadTidy
    <2>2. T.held \subseteq Holds /\ T.leaked \subseteq Nat
      BY DEF Table
    <2>3. Hold(t, k.addr, k.size) \in Holds
      BY <1>5 DEF Hold, Holds
    <2>4. U.held \subseteq Holds
      BY <1>7, <2>2, <2>3
    <2> QED BY <1>7, <2>1, <2>2, <2>4 DEF Table
  <1>12. x \in T.blocks
    BY <1>2, <1>3
  <1>13. CASE c.fn = "free"
    <2>1. ~Cuts(c, k) /\ x.kind = "heap" /\ m.op = "free" /\ m.addr = k.addr
      BY <1>5, <1>6, <1>13 DEF Cuts, Takes, c
    <2>2. U.blocks = T.blocks \ {x} /\ U.held = T.held
      BY <1>7, <1>13, <2>1
    <2>3. FreeStep(m, T, U)
      BY <1>3, <1>5, <1>7, <1>12, <2>1, <2>2 DEF FreeStep
    <2> QED BY <1>2, <1>7, <1>10, <1>11, <2>3
  <1>14. CASE c.fn = "realloc"
    <2>1. ~Cuts(c, k) /\ x.kind = "heap" /\ m.op = "enter" /\ m.addr = k.addr /\ m.tid = t
      BY <1>5, <1>6, <1>14 DEF Cuts, Takes, c
    <2>2. U.blocks = T.blocks \ {x} /\ U.held = T.held \cup {Hold(m.tid, x.addr, x.size)}
      BY <1>5, <1>7, <1>14, <2>1
    <2>3. EnterStep(m, T, U)
      BY <1>3, <1>5, <1>7, <1>9, <1>12, <1>14, <2>1, <2>2 DEF EnterStep
    <2> QED BY <1>2, <1>7, <1>10, <1>11, <2>3
  <1>15. CASE c.fn \in {"munmap", "mremap"}
    <2>1. /\ x.kind = "map" /\ m.op = "munmap" /\ m.addr = k.addr /\ U.held = T.held
          /\ c.fn = "munmap" => m.size = c.size /\ c.size # 0 /\ c.size <= k.size
          /\ c.fn = "mremap" => m.size = k.size
      BY <1>5, <1>6, <1>7, <1>15 DEF Takes, Grips, c
    <2>2. m.size \in Nat /\ m.size <= k.size
      BY <1>4, <1>5, <1>15, <2>1
    <2>3. m.size < k.size => c.fn = "munmap" /\ m.size = c.size /\ c.size # 0
      BY <1>5, <1>15, <2>1
    <2>4. Cuts(c, k) <=> m.size < k.size
      BY <1>4, <1>5, <1>15, <2>1, <2>3 DEF Cuts, c
    <2>5. \A y \in T.blocks : Begins(y, m.addr, m.size) => y = x
      <3> TAKE y \in T.blocks
      <3> HAVE Begins(y, m.addr, m.size)
      <3>1. y.addr \in Nat
        BY DEF Table, Items
      <3>2. Begins(y, k.addr, k.size)
        BY <1>5, <2>1, <2>2, <3>1 DEF Begins, Width
      <3> QED BY <1>2, <1>3, <3>2
    <2>6. m.size = x.size => U.blocks = T.blocks \ {x}
      BY <1>5, <1>7, <2>2, <2>4
    <2>7. ASSUME m.size < x.size
          PROVE  /\ m.size # 0 /\ \A y \in T.blocks : y.addr # m.addr + m.size
                 /\ U.blocks = (T.blocks \ {x}) \cup {Item(m.addr + m.size, x.size - m.size, "map")}
      <3>1. m.size < k.size /\ c.fn = "munmap" /\ m.size = c.size /\ c.size # 0 /\ Cuts(c, k)
        BY <1>5, <2>3, <2>4, <2>7
      <3>2. Rest(c, k) = Item(m.addr + m.size, x.size - m.size, "map")
        BY <1>4, <1>5, <2>1, <3>1 DEF Rest
      <3>3. \A y \in T.blocks : y.addr # m.addr + m.size
        <4> SUFFICES ASSUME NEW y \in T.blocks, y.addr = m.addr + m.size PROVE FALSE
          OBVIOUS
        <4>1. Begins(y, k.addr, k.size)
          BY <1>5, <2>1, <2>2, <3>1 DEF Begins, Width
        <4>2. y = x
          BY <1>2, <1>3, <4>1
        <4> QED BY <1>5, <2>1, <2>2, <3>1, <4>2
      <3> QED BY <1>7, <3>1, <3>2, <3>3
    <2>8. UnmapStep(m, T, U)
      <3>1. x.addr = m.addr /\ m.size <= x.size
        BY <1>5, <2>1, <2>2
      <3> QED BY <1>3, <1>7, <1>12, <2>1, <2>5, <2>6, <2>7, <3>1 DEF UnmapStep
    <2> QED BY <1>2, <1>7, <1>10, <1>11, <2>8
  <1> QED BY <1>13, <1>14, <1>15 DEF c

\* A thread calls the allocator.
LEMMA EnterIs ==
  ASSUME IInv, Mirrored, NEW t \in Threads,
         NEW fn \in Calls, NEW a \in Nat, NEW n \in Nat, Enter(t, fn, a, n)
  PROVE  /\ Owner[t] \in Procs /\ alive[Owner[t]] /\ t \in ThreadsOf(Owner[t]) /\ ThreadsOf(Owner[t]) \in SUBSET Threads
         /\ heap[Owner[t]] \in SUBSET Chunk /\ call \in [Threads -> Call] /\ call' \in [Threads -> Call]
         /\ Living(heap[Owner[t]], call, in_realloc, ThreadsOf(Owner[t]))
         /\ call[t] = NoCall /\ ~in_realloc[t] /\ (in_realloc'[t] <=> fn = "realloc" /\ a # 0)
         /\ chan' = chan \o EntryReport(t, Owner[t], fn, a, n)
         /\ Legal(Owner[t], fn, a, n) /\ fn \in Ops
         /\ \E c \in Call : /\ Steps(t, heap[Owner[t]], c) /\ call'[t] = c
                            /\ c.fn = fn /\ c.st = "entered" /\ c.addr = a /\ c.size = n /\ c.ret = 0 /\ c.watched
         /\ Moves(t, ThreadsOf(Owner[t]), call, in_realloc, call', in_realloc')
  <1> DEFINE p == Owner[t]
             c == [fn |-> fn, st |-> "entered", addr |-> a, size |-> n, ret |-> 0, watched |-> TRUE, child |-> First]
  <1>1. /\ fn \in Ops /\ alive[p] /\ call[t] = NoCall /\ Legal(p, fn, a, n)
        /\ call' = [call EXCEPT ![t] = [fn |-> fn, st |-> "entered", addr |-> a, size |-> n,
                                        ret |-> 0, watched |-> traced[p], child |-> First]]
        /\ chan' = IF traced[p] THEN chan \o EntryReport(t, p, fn, a, n) ELSE chan
        /\ in_realloc' = [in_realloc EXCEPT ![t] = in_realloc[t] \/ (traced[p] /\ fn = "realloc" /\ a # 0)]
        /\ UNCHANGED <<heap, alive, traced, proc, opt>>
    BY DEF Enter, client
  <1>2. /\ p \in Procs /\ t \in ThreadsOf(p) /\ ThreadsOf(p) \in SUBSET Threads /\ heap[p] \in SUBSET Chunk
        /\ call \in [Threads -> Call] /\ heap \in [Procs -> SUBSET Chunk]
        /\ traced \in [Procs -> BOOLEAN] /\ in_realloc \in [Threads -> BOOLEAN]
    BY OwnerIs DEF IInv, ProgramOK, ThreadsOf
  <1>3. traced[p] /\ Living(heap[p], call, in_realloc, ThreadsOf(p))
    BY <1>1, <1>2 DEF Mirrored, ProgramInv, LivesInv
  <1>4. Calling(NoCall, in_realloc[t], heap[p])
    BY <1>1, <1>2, <1>3 DEF Living
  <1>5. ~in_realloc[t]
    BY <1>4 DEF Calling, NoCall
  <1>6. traced[p] = TRUE
    BY <1>2, <1>3
  <1>7. call' = [call EXCEPT ![t] = c]
    BY <1>1, <1>6
  <1>8. c \in Call
    BY ProgramAssumption DEF Call, Calls
  <1>9. c.fn = fn /\ c.st = "entered" /\ c.addr = a /\ c.size = n /\ c.ret = 0 /\ c.watched
    OBVIOUS
  <1> HIDE DEF c
  <1>10. call'[t] = c /\ call' \in [Threads -> Call]
    BY <1>2, <1>7, <1>8
  <1>11. in_realloc'[t] <=> fn = "realloc" /\ a # 0
    <2>1. in_realloc'[t] = (in_realloc[t] \/ (traced[p] /\ fn = "realloc" /\ a # 0))
      BY <1>1, <1>2, Zenon
    <2> QED BY <1>3, <1>5, <2>1
  <1>12. \A u \in Threads \ {t} : in_realloc'[u] = in_realloc[u]
    BY <1>1, <1>2, Zenon
  <1>13. heap' = [heap EXCEPT ![p] = heap[p]]
    BY <1>1, <1>2
  <1>14. Steps(t, heap[p], c)
    BY <1>1, <1>7, <1>12, <1>13 DEF Steps
  <1>15. Moves(t, ThreadsOf(p), call, in_realloc, call', in_realloc')
    BY <1>14, StepsIs DEF IInv
  <1> QED BY <1>1, <1>2, <1>3, <1>5, <1>8, <1>9, <1>10, <1>11, <1>14, <1>15

\* A call that holds nothing.
LEMMA EnterNone ==
  ASSUME IInv, Faithful, Mirrored, NEW t \in Threads,
         NEW fn \in {"malloc", "mmap", "fork", "realloc"}, NEW a \in Nat, a = 0, NEW n \in Nat, Enter(t, fn, a, n)
  PROVE  Mirrored'
  <1> DEFINE p == Owner[t]
             S == ThreadsOf(p)
             H == heap[p]
  <1>0. fn \in Calls
    BY DEF Calls
  <1>1. /\ p \in Procs /\ alive[p] /\ t \in S /\ S \in SUBSET Threads
        /\ H \in SUBSET Chunk /\ call \in [Threads -> Call] /\ call' \in [Threads -> Call]
        /\ Living(H, call, in_realloc, S)
        /\ call[t] = NoCall /\ ~in_realloc[t] /\ (in_realloc'[t] <=> fn = "realloc" /\ a # 0)
        /\ chan' = chan \o EntryReport(t, p, fn, a, n) /\ fn \in Ops
        /\ Moves(t, S, call, in_realloc, call', in_realloc')
    BY <1>0, EnterIs
  <1>2. PICK c \in Call : /\ Steps(t, H, c) /\ call'[t] = c
                          /\ c.fn = fn /\ c.st = "entered" /\ c.addr = a /\ c.size = n /\ c.ret = 0 /\ c.watched
    BY <1>0, EnterIs
  <1>3. chan' = chan
    <2>1. EntryReport(t, p, fn, a, n) = <<>>
      BY DEF EntryReport
    <2>2. chan \in Seq(Sendable)
      BY DEF IInv, ChanOK
    <2> QED BY <1>1, <2>1, <2>2
  <1>4. Mask(c) = 0 /\ Mask(NoCall) = 0
    BY <1>2, MaskIs
  <1>5. Calling(call'[t], in_realloc'[t], H)
    BY <1>1, <1>2, <1>4 DEF Calling
  <1>6. /\ Spread(H) /\ (\A k \in H : k.addr # Mask(call[t]) /\ k.addr # Mask(call'[t]))
        /\ ~Unmaps(call[t]) /\ ~Unmaps(call'[t]) /\ ~Forking(t)
    BY <1>1, <1>2, <1>4, ChunkIs DEF Living, Unmaps, NoCall, Forking
  <1> HIDE DEF H, S
  <1>7. /\ Living(H, call', in_realloc', S) /\ Lost(H) \subseteq Lost(H)
        /\ \A T : Ahead(T, H, call, in_realloc, S) => Ahead(T, H, call', in_realloc', S)
    BY <1>1, <1>5, <1>6, Silent
  <1>8. ~(c.fn = "fork" /\ c.st = "done") /\ c.fn \in Ops \cup {"none"}
    BY <1>1, <1>2
  <1> QED BY <1>1, <1>2, <1>3, <1>6, <1>7, <1>8, SilentMirrored DEF H, S

\* The chunk that a correct program gives up.
LEMMA LegalChunk ==
  ASSUME IInv, Faithful, NEW p \in Procs, Spread(heap[p]),
         NEW fn \in {"free", "realloc", "munmap", "mremap"}, NEW a \in Nat, NEW n \in Nat, a # 0, Legal(p, fn, a, n)
  PROVE  /\ fn = "realloc" => n # 0
         /\ \E k \in heap[p] : /\ k \in Usable(p) /\ k.addr = a /\ (k.map <=> fn \in {"munmap", "mremap"})
                               /\ fn = "munmap" => n # 0 /\ n <= k.size
  <1>1. CASE fn = "free"
    <2>1. a \in Starts({c \in Usable(p) : ~c.map})
      BY <1>1 DEF Legal
    <2> QED BY <1>1, <2>1 DEF Starts, Usable
  <1>2. CASE fn = "realloc"
    <2>1. a \in {0} \cup Starts({c \in Usable(p) : ~c.map}) /\ (n = 0 /\ a # 0 => "realloc0" \in Ops)
      BY <1>2 DEF Legal
    <2> QED BY <1>2, <2>1 DEF Starts, Usable, Faithful
  <1>3. CASE fn = "mremap"
    <2>1. a \in Starts({c \in Usable(p) : c.map})
      BY <1>3 DEF Legal
    <2> QED BY <1>3, <2>1 DEF Starts, Usable
  <1>4. CASE fn = "munmap"
    <2> DEFINE C == {c \in heap[p] : Extent(c.addr, c.size) \cap Extent(a, n) # {}}
    <2>1. /\ n # 0 /\ C \subseteq {c \in Usable(p) : c.map}
          /\ \/ "munmap_any" \in Ops
             \/ \E c \in C : c.addr = a /\ (n <= c.size \/ ("munmap_past" \in Ops /\ C = {c}))
      BY <1>4 DEF Legal
    <2>2. PICK k \in C : k.addr = a /\ n <= k.size
      BY <2>1 DEF Faithful
    <2> QED BY <1>4, <2>1, <2>2
  <1> QED BY <1>1, <1>2, <1>3, <1>4

\* What the tracer reports of it.
LEMMA EntryTakes ==
  ASSUME IInv, NEW t \in Threads, NEW p \in Procs, Spread(heap[p]),
         NEW fn \in {"free", "realloc", "munmap", "mremap"}, NEW a \in Nat, NEW n \in Nat, a # 0,
         NEW k \in heap[p], k.addr = a, NEW c, c.fn = fn, c.size = n
  PROVE  \E m \in Sendable : EntryReport(t, p, fn, a, n) = <<m>> /\ m.pid = p /\ Takes(m, t, c, k)
  <1> DEFINE h == CHOOSE j \in heap[p] : j.addr = a
             m1 == [op |-> "free", pid |-> p, addr |-> a, size |-> 0]
             m2 == [op |-> "enter", pid |-> p, addr |-> a, tid |-> t]
             m3 == [op |-> "munmap", pid |-> p, addr |-> a, size |-> n]
             m4 == [op |-> "munmap", pid |-> p, addr |-> a, size |-> k.size]
  <1>1. heap[p] \in SUBSET Chunk /\ k.size \in Nat
    BY ChunkIs DEF IInv, ProgramOK
  <1>2. h = k
    <2>1. h \in heap[p] /\ h.addr = a
      OBVIOUS
    <2> HIDE DEF h
    <2> QED BY <1>1, <2>1, SpreadAddr
  <1>3. EntryReport(t, p, fn, a, n) = CASE fn = "free" -> <<m1>> [] fn = "realloc" /\ a # 0 -> <<m2>>
              [] fn = "munmap" -> <<m3>> [] fn = "mremap" -> <<m4>> [] OTHER -> <<>>
    BY <1>2 DEF EntryReport
  <1>4. m1 \in Sendable /\ m2 \in Sendable /\ m3 \in Sendable /\ m4 \in Sendable
    BY <1>1, MessageMade
  <1>5. /\ m1.op = "free" /\ m1.addr = a /\ m1.pid = p
        /\ m2.op = "enter" /\ m2.addr = a /\ m2.pid = p /\ m2.tid = t
        /\ m3.op = "munmap" /\ m3.addr = a /\ m3.pid = p /\ m3.size = n
        /\ m4.op = "munmap" /\ m4.addr = a /\ m4.pid = p /\ m4.size = k.size
    OBVIOUS
  <1> HIDE DEF m1, m2, m3, m4
  <1>6. CASE fn = "free"
    BY <1>3, <1>4, <1>5, <1>6 DEF Takes
  <1>7. CASE fn = "realloc"
    BY <1>3, <1>4, <1>5, <1>7 DEF Takes
  <1>8. CASE fn = "munmap"
    BY <1>3, <1>4, <1>5, <1>8 DEF Takes
  <1>9. CASE fn = "mremap"
    BY <1>3, <1>4, <1>5, <1>9 DEF Takes
  <1> QED BY <1>6, <1>7, <1>8, <1>9

\* A call that gives up a chunk.
LEMMA EnterSome ==
  ASSUME IInv, Faithful, Mirrored, NEW t \in Threads,
         NEW fn \in {"free", "realloc", "munmap", "mremap"}, NEW a \in Nat, NEW n \in Nat, a # 0, Enter(t, fn, a, n)
  PROVE  Mirrored'
  <1> DEFINE p == Owner[t]
             S == ThreadsOf(p)
             H == heap[p]
  <1>1. /\ p \in Procs /\ alive[p] /\ t \in S /\ S \in SUBSET Threads
        /\ H \in SUBSET Chunk /\ call \in [Threads -> Call] /\ call' \in [Threads -> Call]
        /\ Living(H, call, in_realloc, S) /\ Spread(H)
        /\ call[t] = NoCall /\ ~in_realloc[t] /\ (in_realloc'[t] <=> fn = "realloc")
        /\ chan' = chan \o EntryReport(t, p, fn, a, n) /\ fn \in Ops /\ Legal(p, fn, a, n)
        /\ Moves(t, S, call, in_realloc, call', in_realloc')
    BY EnterIs DEF Calls, Living
  <1>2. PICK c \in Call : /\ Steps(t, H, c) /\ call'[t] = c
                          /\ c.fn = fn /\ c.st = "entered" /\ c.addr = a /\ c.size = n /\ c.ret = 0 /\ c.watched
    BY EnterIs DEF Calls
  <1>3. fn = "realloc" => n # 0
    BY <1>1, LegalChunk
  <1>4. PICK k \in H : /\ k \in Usable(p) /\ k.addr = a /\ (k.map <=> fn \in {"munmap", "mremap"})
                       /\ fn = "munmap" => n # 0 /\ n <= k.size
    BY <1>1, LegalChunk
  <1>5. PICK m \in Sendable : EntryReport(t, p, fn, a, n) = <<m>> /\ m.pid = p /\ Takes(m, t, c, k)
    BY <1>1, <1>2, <1>4, EntryTakes
  <1>6. Mask(c) = a /\ c.ret \notin Addrs
    BY <1>2, MaskIs
  <1>7. ~k.lost /\ \A u \in S : Mask(call[u]) # k.addr
    BY <1>4 DEF Usable, Mask
  <1>8. Grips(c, k)
    BY <1>2, <1>4, <1>6, <1>7 DEF Grips
  <1>9. Calling(c, in_realloc'[t], H)
    BY <1>1, <1>2, <1>3, <1>8 DEF Calling
  <1>10. PICK F, L : Linked(F, L)
    BY DEF Mirrored
  <1>11. /\ chan \in Seq(Sendable) /\ chan' = Append(chan, m) /\ L \in Tables /\ L[p] \in Table
         /\ Ahead(L[p], H, call, in_realloc, S) /\ Line(opt.interactive, chan, F, L)
    <2>1. chan \in Seq(Sendable)
      BY DEF IInv, ChanOK
    <2>2. chan \o <<m>> = Append(chan, m)
      BY <2>1
    <2>3. L \in Tables
      BY <1>10, <2>1, LineEnds DEF Linked
    <2> QED BY <1>1, <1>5, <1>10, <2>1, <2>2, <2>3 DEF Linked, Tables
  <1>12. Grips(call'[t], k) /\ Takes(m, t, call'[t], k) /\ Calling(call'[t], in_realloc'[t], H)
         /\ (in_realloc'[t] <=> call'[t].fn = "realloc") /\ call'[t].st = "entered"
         /\ call'[t].fn \in {"free", "realloc", "munmap", "mremap"}
    BY <1>1, <1>2, <1>5, <1>8, <1>9
  <1> HIDE DEF H, S
  <1>13. /\ Living(H, call', in_realloc', S)
         /\ \E U \in Table : /\ Ahead(U, H, call', in_realloc', S) /\ U.leaked = L[p].leaked
                             /\ FreeStep(m, L[p], U) \/ EnterStep(m, L[p], U) \/ UnmapStep(m, L[p], U)
    <2>1. Taking(t, m, k, H, call, in_realloc, call', in_realloc', S)
      BY <1>1, <1>7, <1>12 DEF Taking
    <2> QED BY <1>1, <1>11, <2>1, EnterTaken
  <1>14. PICK U \in Table : /\ Ahead(U, H, call', in_realloc', S) /\ U.leaked = L[p].leaked
                            /\ FreeStep(m, L[p], U) \/ EnterStep(m, L[p], U) \/ UnmapStep(m, L[p], U)
    BY <1>13
  <1>15. Tidy(U)
    BY <1>1, <1>13, <1>14, AheadTidy
  <1>16. Line(opt.interactive, Append(chan, m), F, [L EXCEPT ![m.pid] = U])
    <2>1. Follows(opt.interactive, m, L[m.pid], U, L[m.parent])
      BY <1>5, <1>14 DEF Follows
    <2> QED BY <1>5, <1>11, <1>14, <1>15, <2>1, LineSent
  <1>17. Line(opt.interactive, chan', F, [L EXCEPT ![p] = U])
    BY <1>5, <1>11, <1>16
  <1>18. /\ ~(c.fn = "fork" /\ c.st = "done") /\ c.fn \in Ops \cup {"none"} /\ ~Forking(t)
         /\ Lost(H) \subseteq Lost(H)
    BY <1>1, <1>2 DEF Forking, NoCall
  <1> QED BY <1>1, <1>2, <1>10, <1>13, <1>14, <1>17, <1>18, ReportMirrored DEF H, S

\* A thread enters the allocator.
LEMMA EnterMirrored ==
  ASSUME IInv, Faithful, Mirrored, NEW t \in Threads,
         NEW fn \in Calls, NEW a \in Addrs \cup {0}, NEW n \in Addrs \cup {0}, Enter(t, fn, a, n)
  PROVE  Mirrored'
  <1>1. a \in Nat /\ n \in Nat /\ Legal(Owner[t], fn, a, n)
    BY AddrsAre DEF Enter
  <1>2. fn \in {"malloc", "mmap", "fork"} => a = 0
    BY <1>1 DEF Legal
  <1>3. CASE a = 0 /\ fn \in {"malloc", "mmap", "fork", "realloc"}
    BY <1>1, <1>3, EnterNone
  <1>4. CASE a # 0
    BY <1>1, <1>2, <1>4, EnterSome DEF Calls
  <1>5. CASE a = 0 /\ fn \in {"free", "munmap", "mremap"}
    <2>1. \A k \in heap[Owner[t]] : k.addr # 0
      <3>1. heap[Owner[t]] \in SUBSET Chunk
        BY OwnerIs DEF IInv, ProgramOK
      <3> QED BY <3>1, ChunkIs
    <2>2. fn = "munmap" => \E k \in heap[Owner[t]] : k.addr = a
      BY <1>1 DEF Legal, Faithful
    <2>3. fn \in {"free", "mremap"} => \E k \in heap[Owner[t]] : k.addr = a
      BY <1>1 DEF Legal, Starts, Usable
    <2> QED BY <1>5, <2>1, <2>2, <2>3
  <1> QED BY <1>3, <1>4, <1>5 DEF Calls

\* The call of t, which holds k, ends.
Giving(t, k, H, K, R, K2, R2, S) ==
  /\ t \in S /\ Moves(t, S, K, R, K2, R2) /\ K2[t] = NoCall /\ ~R2[t]
  /\ k \in H /\ Grips(K[t], k) /\ ~Unmaps(K[t])

\* The table to which the chunk k is added, and the hold of t is ended.
GivenTo(T, k) == [known |-> TRUE, blocks |-> T.blocks \cup {Shape(k)}, held |-> T.held, leaked |-> T.leaked]
HoldOf(h, T, t) == h \in T.held /\ h.tid = t /\ \A g \in T.held : g.tid = t => g = h
EndsHold(T, h) == [known |-> TRUE, blocks |-> T.blocks, held |-> T.held \ {h}, leaked |-> T.leaked]

\* The chunk is the program's again.
LEMMA LeaveGiven ==
  ASSUME NEW H \in SUBSET Chunk, NEW K \in [Threads -> Call], NEW K2 \in [Threads -> Call], NEW R, NEW R2,
         NEW S \in SUBSET Threads, Living(H, K, R, S), NEW t, NEW k, Giving(t, k, H, K, R, K2, R2, S),
         NEW T \in Table, Ahead(T, H, K, R, S)
  PROVE  /\ Living(H, K2, R2, S)
         /\ GivenTo(T, k) \in Table /\ Tidy(GivenTo(T, k)) /\ \A x \in T.blocks : ~Begins(x, k.addr, k.size)
         /\ ~R[t] => Ahead(GivenTo(T, k), H, K2, R2, S)
         /\ R[t] => \E h :
                      /\ HoldOf(h, T, t)
                      /\ K[t].ret = 0 => h.addr = k.addr /\ h.size = k.size
                      /\ EndsHold(GivenTo(T, k), h) \in Table /\ Ahead(EndsHold(GivenTo(T, k), h), H, K2, R2, S)
  <1>1. /\ t \in S /\ Moves(t, S, K, R, K2, R2) /\ K2[t] = NoCall /\ ~R2[t]
        /\ k \in H /\ Grips(K[t], k) /\ ~Unmaps(K[t]) /\ Mask(K[t]) = k.addr /\ k \in Chunk
    BY DEF Giving, Grips
  <1>2. /\ Living(H, K2, R2, S)
        /\ \A x : Shown(x, H, K2, S) <=> Shown(x, H, K, S) \/ x = Shape(k)
        /\ \A x : Shown(x, H, K, S) => ~Begins(x, k.addr, k.size)
    BY <1>1, Given
  <1> DEFINE U == GivenTo(T, k)
  <1>3. /\ U.known /\ U.blocks = T.blocks \cup {Shape(k)} /\ U.held = T.held /\ U.leaked = T.leaked
        /\ U = [known |-> TRUE, blocks |-> U.blocks, held |-> U.held, leaked |-> U.leaked]
    BY DEF GivenTo
  <1>4. T.known /\ (\A x : x \in T.blocks <=> Shown(x, H, K, S)) /\ Holding(T.held, H, K, R, S)
    BY DEF Ahead
  <1>5. T.blocks \subseteq Items /\ T.held \subseteq Holds /\ T.leaked \subseteq Nat
    BY DEF Table
  <1> HIDE DEF U
  <1>6. U \in Table
    BY <1>1, <1>3, <1>5, ChunkIs DEF Table
  <1>7. \A x : x \in U.blocks <=> Shown(x, H, K2, S)
    BY <1>2, <1>3, <1>4
  <1>8. Tidy(U)
    <2>1. \A x : Shown(x, H, K2, S) => \A y : Shown(y, H, K2, S) /\ x.addr = y.addr => x = y
      BY <1>2, ShownTidy
    <2> QED BY <1>7, <2>1 DEF Tidy
  <1>9. ~R[t] => Ahead(U, H, K2, R2, S)
    BY <1>1, <1>3, <1>4, <1>7, HoldingSame DEF Ahead
  <1>10. ASSUME R[t]
         PROVE  \E h :
                      /\ HoldOf(h, T, t)
                      /\ K[t].ret = 0 => h.addr = k.addr /\ h.size = k.size
                      /\ EndsHold(U, h) \in Table /\ Ahead(EndsHold(U, h), H, K2, R2, S)
    <2>1. PICK h \in T.held :
             /\ h.tid = t /\ \A g \in T.held : g.tid = t => g = h
             /\ K[t].ret = 0 => h.addr = K[t].addr /\ \E j \in H : j.addr = h.addr /\ j.size = h.size
             /\ Holding(Unheld(T.held, h), H, K2, R2, S)
      <3>1. PICK X : X = T.held
        OBVIOUS
      <3>2. t \in S /\ Moves(t, S, K, R, K2, R2) /\ R[t] /\ ~R2[t] /\ Holding(X, H, K, R, S)
        BY <1>1, <1>4, <1>10, <3>1
      <3>3. \E h \in X : /\ h.tid = t /\ \A g \in X : g.tid = t => g = h
                         /\ K[t].ret = 0 => h.addr = K[t].addr /\ \E j \in H : j.addr = h.addr /\ j.size = h.size
                         /\ Holding(Unheld(X, h), H, K2, R2, S)
        BY <3>2, HoldingRemoved
      <3> QED BY <3>1, <3>3
    <2>2. ASSUME K[t].ret = 0 PROVE h.addr = k.addr /\ h.size = k.size
      <3>1. K[t].addr = k.addr
        BY <1>1, <2>2, MaskIs
      <3>2. PICK j \in H : j.addr = h.addr /\ j.size = h.size
        BY <2>1, <2>2
      <3>3. j = k
        BY <1>1, <2>1, <2>2, <3>1, <3>2, SpreadAddr DEF Living
      <3> QED BY <3>2, <3>3
    <2> DEFINE V == EndsHold(U, h)
    <2>3. /\ V.known /\ V.blocks = U.blocks /\ V.held = T.held \ {h} /\ V.leaked = U.leaked
          /\ V = [known |-> TRUE, blocks |-> U.blocks, held |-> T.held \ {h}, leaked |-> U.leaked]
      BY <1>3 DEF EndsHold
    <2> HIDE DEF V
    <2>4. V \in Table
      BY <1>3, <1>5, <1>6, <2>3 DEF Table
    <2>5. Ahead(V, H, K2, R2, S)
      BY <1>7, <2>1, <2>3 DEF Ahead, Unheld
    <2> QED BY <2>1, <2>2, <2>4, <2>5 DEF V, HoldOf
  <1> QED BY <1>2, <1>4, <1>6, <1>8, <1>9, <1>10 DEF U

\* A thread returns from the allocator.
LEMMA LeaveIs ==
  ASSUME IInv, Mirrored, NEW t \in Threads, Leave(t)
  PROVE  /\ Owner[t] \in Procs /\ alive[Owner[t]] /\ t \in ThreadsOf(Owner[t]) /\ ThreadsOf(Owner[t]) \in SUBSET Threads
         /\ heap[Owner[t]] \in SUBSET Chunk /\ call \in [Threads -> Call] /\ call' \in [Threads -> Call]
         /\ Living(heap[Owner[t]], call, in_realloc, ThreadsOf(Owner[t]))
         /\ Calling(call[t], in_realloc[t], heap[Owner[t]])
         /\ call[t].fn \notin {"none", "fork"} /\ call[t].st = "done" /\ ~in_realloc'[t] /\ call'[t] = NoCall
         /\ chan' = chan \o ReturnReport(t, call[t])
         /\ Steps(t, heap[Owner[t]], NoCall)
         /\ Moves(t, ThreadsOf(Owner[t]), call, in_realloc, call', in_realloc')
  <1> DEFINE p == Owner[t]
             c == call[t]
  <1>1. /\ c.fn \notin {"none", "fork"} /\ c.st = "done"
        /\ call' = [call EXCEPT ![t] = NoCall]
        /\ chan' = IF c.watched THEN chan \o ReturnReport(t, c) ELSE chan
        /\ in_realloc' = [in_realloc EXCEPT ![t] = in_realloc[t] /\ ~(c.watched /\ c.fn = "realloc")]
        /\ UNCHANGED <<heap, alive, traced, proc, opt>>
    BY DEF Leave, client
  <1>2. /\ p \in Procs /\ alive[p] /\ c \in Call /\ heap[p] \in SUBSET Chunk /\ t \in ThreadsOf(p)
        /\ ThreadsOf(p) \in SUBSET Threads /\ Living(heap[p], call, in_realloc, ThreadsOf(p))
        /\ Calling(c, in_realloc[t], heap[p])
    BY <1>1, InCall
  <1>3. /\ call \in [Threads -> Call] /\ heap \in [Procs -> SUBSET Chunk] /\ in_realloc \in [Threads -> BOOLEAN]
    BY DEF IInv, ProgramOK
  <1>4. c.watched /\ (in_realloc[t] => c.fn = "realloc")
    BY <1>1, <1>2 DEF Calling
  <1>5. ~in_realloc'[t]
    <2>1. in_realloc'[t] = (in_realloc[t] /\ ~(c.watched /\ c.fn = "realloc"))
      BY <1>1, <1>3, Zenon
    <2> QED BY <1>4, <2>1
  <1>6. \A u \in Threads \ {t} : in_realloc'[u] = in_realloc[u]
    BY <1>1, <1>3, Zenon
  <1>7. call'[t] = NoCall /\ call' \in [Threads -> Call] /\ heap' = [heap EXCEPT ![p] = heap[p]]
    BY <1>1, <1>3, NoCallIs
  <1>8. Steps(t, heap[p], NoCall)
    BY <1>1, <1>6, <1>7 DEF Steps
  <1>9. Moves(t, ThreadsOf(p), call, in_realloc, call', in_realloc')
    BY <1>8, StepsIs DEF IInv
  <1> QED BY <1>1, <1>2, <1>3, <1>4, <1>5, <1>7, <1>8, <1>9

\* Reports of no message.
LEMMA Joined ==
  ASSUME NEW x PROVE <<x>> \o <<>> = <<x>> /\ <<>> \o <<x>> = <<x>> /\ <<>> \o <<>> = <<>>
  <1>1. <<x>> \in Seq({x})
    OBVIOUS
  <1>2. <<>> \in Seq({x})
    OBVIOUS
  <1> QED BY <1>1, <1>2, ConcatEmptySeq

\* The report of a new chunk, that of the end of a realloc, and how many there are.
AllocReport(m, t, c) ==
  /\ m \in Sendable /\ m.pid = Owner[t] /\ m.op \in {"malloc", "realloc", "mmap"}
  /\ m.addr = c.ret /\ m.size = c.size /\ (m.op = "mmap" <=> c.fn \in {"mmap", "mremap"})
DoneReport(d, t, a) == d \in Sendable /\ d.pid = Owner[t] /\ d.op = "done" /\ d.addr = a /\ d.tid = t
One(e, m) == e = <<m>>
Two(e, m, d) == e = <<m>> \o <<d>>

\* What the tracer reports of it.
LEMMA ReturnIs ==
  ASSUME IInv, NEW t \in Threads, NEW c \in Call, NEW H, Calling(c, in_realloc[t], H),
         c.fn \notin {"none", "fork"}, c.st = "done"
  PROVE  \/ ReturnReport(t, c) = <<>> /\ Mask(c) = 0 /\ ~in_realloc[t]
         \/ /\ c.ret \in Addrs /\ ~in_realloc[t]
            /\ \E m : AllocReport(m, t, c) /\ One(ReturnReport(t, c), m)
         \/ /\ c.ret \in Addrs /\ in_realloc[t]
            /\ \E m, d : AllocReport(m, t, c) /\ DoneReport(d, t, c.ret) /\ Two(ReturnReport(t, c), m, d)
         \/ /\ c.ret = 0 /\ c.fn = "realloc" /\ c.addr # 0 /\ in_realloc[t]
            /\ \E d : DoneReport(d, t, c.ret) /\ One(ReturnReport(t, c), d)
  <1> DEFINE p == Owner[t]
             m(op) == [op |-> op, pid |-> p, addr |-> c.ret, size |-> c.size]
             d == [op |-> "done", pid |-> p, addr |-> c.ret, tid |-> t]
             e == ReturnReport(t, c)
  <1>1. p \in Procs /\ c.ret \in Nat /\ c.size \in Nat /\ c.addr \in Nat
    BY OwnerIs, CallIs DEF IInv
  <1>2. m("malloc") \in Sendable /\ m("realloc") \in Sendable /\ m("mmap") \in Sendable /\ d \in Sendable
    BY <1>1, MessageMade
  <1>3. /\ \A op : m(op).op = op /\ m(op).pid = p /\ m(op).addr = c.ret /\ m(op).size = c.size
        /\ d.op = "done" /\ d.pid = p /\ d.addr = c.ret /\ d.tid = t
    OBVIOUS
  <1>4. e = CASE c.fn = "malloc" /\ c.ret # 0 -> <<m("malloc")>>
              [] c.fn = "realloc" -> (IF c.ret # 0 THEN <<m("realloc")>> ELSE <<>>)
                                     \o (IF in_realloc[t] THEN <<d>> ELSE <<>>)
              [] c.fn = "mmap" /\ c.ret # MapFailed -> <<m("mmap")>>
              [] c.fn = "mremap" -> <<m("mmap")>>
              [] OTHER -> <<>>
    BY DEF ReturnReport
  <1>5. <<m("realloc")>> \o <<>> = <<m("realloc")>> /\ <<>> \o <<d>> = <<d>> /\ <<>> \o <<>> = <<>>
    BY Joined
  <1>6. c.ret \in Addrs => c.ret # 0 /\ c.ret # MapFailed
    BY MaskIs, AddrsAre
  <1>7. in_realloc[t] => c.fn = "realloc"
    BY DEF Calling
  <1>8. Mask(c) = IF c.ret \in Addrs THEN c.ret ELSE c.addr
    BY DEF Mask
  <1>d. DoneReport(d, t, c.ret)
    BY <1>2, <1>3 DEF DoneReport
  <1>m. \A op \in {"malloc", "realloc", "mmap"} :
          (op = "mmap" <=> c.fn \in {"mmap", "mremap"}) => AllocReport(m(op), t, c)
    BY <1>2, <1>3 DEF AllocReport
  <1> HIDE DEF m, d, e
  <1>9. CASE c.fn = "malloc"
    <2>1. c.addr = 0 /\ c.ret \in Addrs \cup {0}
      BY <1>9 DEF Calling
    <2> QED BY <1>m, <1>4, <1>6, <1>7, <1>8, <1>9, <2>1 DEF e, One
  <1>10. CASE c.fn = "mmap"
    <2>1. c.addr = 0 /\ c.ret \in Addrs \cup {MapFailed}
      BY <1>10 DEF Calling
    <2>2. MapFailed \notin Addrs
      BY ProgramAssumption, AddrsAre DEF MapFailed
    <2> QED BY <1>m, <1>4, <1>6, <1>7, <1>8, <1>10, <2>1, <2>2 DEF e, One
  <1>11. CASE c.fn = "mremap"
    <2>1. c.ret \in Addrs
      BY <1>11 DEF Calling
    <2> QED BY <1>m, <1>4, <1>6, <1>7, <1>11, <2>1 DEF e, One
  <1>12. CASE c.fn \in {"free", "munmap"}
    <2>1. c.ret = 0 /\ c.addr = 0
      BY <1>12 DEF Calling
    <2> QED BY <1>4, <1>7, <1>8, <1>12, <2>1 DEF e
  <1>13. CASE c.fn = "realloc"
    <2>1. c.ret \in Addrs \cup {0} /\ (c.addr # 0 => in_realloc[t]) /\ (in_realloc[t] /\ c.ret = 0 => c.addr # 0)
      BY <1>13 DEF Calling
    <2>2. e = (IF c.ret # 0 THEN <<m("realloc")>> ELSE <<>>) \o (IF in_realloc[t] THEN <<d>> ELSE <<>>)
      BY <1>4, <1>13
    <2>3. CASE c.ret \in Addrs
      BY <1>m, <1>d, <1>5, <1>6, <1>13, <2>2, <2>3 DEF e, One, Two
    <2>4. CASE c.ret = 0 /\ in_realloc[t]
      BY <1>d, <1>5, <1>13, <2>1, <2>2, <2>4 DEF e, One
    <2>5. CASE c.ret = 0 /\ ~in_realloc[t]
      BY <1>5, <1>6, <1>8, <2>1, <2>2, <2>5 DEF e
    <2> QED BY <2>1, <2>3, <2>4, <2>5
  <1> QED BY <1>9, <1>10, <1>11, <1>12, <1>13 DEF Call

\* A call that holds nothing is not reported.
LEMMA ReturnReported ==
  ASSUME IInv, NEW t \in Threads, NEW c \in Call, NEW H, Calling(c, in_realloc[t], H),
         c.fn \notin {"none", "fork"}, c.st = "done"
  PROVE  /\ Mask(c) = 0 => ReturnReport(t, c) = <<>> /\ ~in_realloc[t]
         /\ c.ret \notin Addrs /\ ~in_realloc[t] => Mask(c) = 0
  <1>1. c.ret \in Addrs => Mask(c) # 0
    BY MaskIs
  <1>2. c.ret = 0 => Mask(c) = c.addr
    BY MaskIs
  <1> QED BY <1>1, <1>2, ReturnIs

\* The report of a new chunk.
LEMMA GivenStep ==
  ASSUME NEW T, T.known, NEW k \in Chunk, NEW m, m.op \in {"malloc", "realloc", "mmap"}, m.addr = k.addr, m.size = k.size,
         m.op = "mmap" <=> k.map, \A x \in T.blocks : ~Begins(x, k.addr, k.size)
  PROVE  AllocStep(m, T, GivenTo(T, k))
  <1> DEFINE U == GivenTo(T, k)
  <1>1. U.known /\ U.blocks = T.blocks \cup {Shape(k)} /\ U.held = T.held /\ U.leaked = T.leaked
    BY DEF GivenTo
  <1>2. Shape(k) = Item(m.addr, m.size, Kind(m.op = "mmap"))
    BY DEF Shape, Kind
  <1> HIDE DEF U
  <1>3. AllocStep(m, T, U)
    BY <1>1, <1>2 DEF AllocStep
  <1> QED BY <1>3 DEF U

\* A return that is not reported: the call holds nothing.
LEMMA LeaveNone ==
  ASSUME IInv, Faithful, Mirrored, NEW t \in Threads, Leave(t),
         ReturnReport(t, call[t]) = <<>>, Mask(call[t]) = 0, ~in_realloc[t]
  PROVE  Mirrored'
  <1> DEFINE p == Owner[t]
             S == ThreadsOf(p)
             H == heap[p]
  <1>1. /\ p \in Procs /\ alive[p] /\ t \in S /\ S \in SUBSET Threads
        /\ H \in SUBSET Chunk /\ call \in [Threads -> Call] /\ call' \in [Threads -> Call]
        /\ Living(H, call, in_realloc, S) /\ Calling(call[t], in_realloc[t], H)
        /\ call[t].fn \notin {"none", "fork"} /\ call[t].st = "done" /\ ~in_realloc'[t] /\ call'[t] = NoCall
        /\ chan' = chan \o ReturnReport(t, call[t])
        /\ Steps(t, H, NoCall)
        /\ Moves(t, S, call, in_realloc, call', in_realloc')
    BY LeaveIs
  <1>2. chan' = chan
    <2>1. chan \in Seq(Sendable)
      BY DEF IInv, ChanOK
    <2> QED BY <1>1, <2>1
  <1>3. Mask(NoCall) = 0
    BY NoCallIs, MaskIs
  <1>4. Calling(call'[t], in_realloc'[t], H)
    BY <1>1, <1>3 DEF Calling, NoCall
  <1>5. /\ Spread(H) /\ (\A k \in H : k.addr # Mask(call[t]) /\ k.addr # Mask(call'[t]))
        /\ ~Unmaps(call[t]) /\ ~Unmaps(call'[t]) /\ ~Forking(t)
    BY <1>1, <1>3, ChunkIs DEF Living, Unmaps, NoCall, Forking
  <1> HIDE DEF H, S
  <1>6. /\ Living(H, call', in_realloc', S) /\ Lost(H) \subseteq Lost(H)
        /\ \A T : Ahead(T, H, call, in_realloc, S) => Ahead(T, H, call', in_realloc', S)
    BY <1>1, <1>4, <1>5, Silent
  <1>7. ~(NoCall.fn = "fork" /\ NoCall.st = "done") /\ NoCall.fn \in Ops \cup {"none"}
    BY DEF NoCall
  <1> QED BY <1>1, <1>2, <1>5, <1>6, <1>7, SilentMirrored DEF H, S

\* A return that gives the program a chunk.
LEMMA LeaveSome ==
  ASSUME IInv, Faithful, Mirrored, NEW t \in Threads, Leave(t), Mask(call[t]) # 0
  PROVE  Mirrored'
  <1> DEFINE p == Owner[t]
             S == ThreadsOf(p)
             H == heap[p]
             c == call[t]
  <1>1. /\ p \in Procs /\ alive[p] /\ t \in S /\ S \in SUBSET Threads
        /\ H \in SUBSET Chunk /\ call \in [Threads -> Call] /\ call' \in [Threads -> Call]
        /\ Living(H, call, in_realloc, S) /\ Calling(c, in_realloc[t], H)
        /\ c.fn \notin {"none", "fork"} /\ c.st = "done" /\ ~in_realloc'[t] /\ call'[t] = NoCall
        /\ chan' = chan \o ReturnReport(t, c)
        /\ Steps(t, H, NoCall)
        /\ Moves(t, S, call, in_realloc, call', in_realloc')
    BY LeaveIs
  <1>2. PICK k \in H : Grips(c, k)
    BY <1>1 DEF Calling
  <1>3. Giving(t, k, H, call, in_realloc, call', in_realloc', S)
    BY <1>1, <1>2 DEF Giving, Unmaps
  <1>4. PICK F, L : Linked(F, L)
    BY DEF Mirrored
  <1> DEFINE T == L[p]
             i == opt.interactive
             U == GivenTo(T, k)
  <1>5. /\ chan \in Seq(Sendable) /\ L \in Tables /\ T \in Table /\ T.known
        /\ Ahead(T, H, call, in_realloc, S) /\ Line(i, chan, F, L)
    <2>1. chan \in Seq(Sendable)
      BY DEF IInv, ChanOK
    <2>2. L \in Tables
      BY <1>4, <2>1, LineEnds DEF Linked
    <2> QED BY <1>1, <1>4, <2>1, <2>2 DEF Linked, Tables, Ahead
  <1> HIDE DEF H, S, T
  <1>6. /\ Living(H, call', in_realloc', S)
        /\ U \in Table /\ Tidy(U) /\ (\A x \in T.blocks : ~Begins(x, k.addr, k.size))
        /\ ~in_realloc[t] => Ahead(U, H, call', in_realloc', S)
        /\ in_realloc[t] => \E h :
                      /\ HoldOf(h, T, t)
                      /\ c.ret = 0 => h.addr = k.addr /\ h.size = k.size
                      /\ EndsHold(U, h) \in Table /\ Ahead(EndsHold(U, h), H, call', in_realloc', S)
    <2>1. /\ Living(H, call', in_realloc', S)
          /\ U \in Table /\ Tidy(U) /\ (\A x \in T.blocks : ~Begins(x, k.addr, k.size))
      BY <1>1, <1>3, <1>5, LeaveGiven
    <2>2. ~in_realloc[t] => Ahead(U, H, call', in_realloc', S)
      BY <1>1, <1>3, <1>5, LeaveGiven
    <2>3. in_realloc[t] => \E h :
                      /\ HoldOf(h, T, t)
                      /\ c.ret = 0 => h.addr = k.addr /\ h.size = k.size
                      /\ EndsHold(U, h) \in Table /\ Ahead(EndsHold(U, h), H, call', in_realloc', S)
      BY <1>1, <1>3, <1>5, LeaveGiven
    <2> QED BY <2>1, <2>2, <2>3
  <1>7. /\ k \in Chunk /\ ~(NoCall.fn = "fork" /\ NoCall.st = "done") /\ NoCall.fn \in Ops \cup {"none"} /\ ~Forking(t)
        /\ Lost(H) \subseteq Lost(H) /\ c \in Call
    BY <1>1 DEF Forking, NoCall
  <1>8. U.leaked = T.leaked /\ U.known /\ U.blocks = T.blocks \cup {Shape(k)} /\ U.held = T.held
    BY DEF GivenTo
  <1>9. \A h : /\ EndsHold(U, h).known /\ EndsHold(U, h).blocks = U.blocks /\ EndsHold(U, h).held = U.held \ {h}
               /\ EndsHold(U, h).leaked = U.leaked
    BY DEF EndsHold
  <1> HIDE DEF U
  <1>10. ASSUME NEW V, Line(i, chan', F, [L EXCEPT ![p] = V]), V.leaked = T.leaked, Ahead(V, H, call', in_realloc', S)
         PROVE  Mirrored'
    BY <1>1, <1>4, <1>6, <1>7, <1>10, ReportMirrored DEF H, S, T
  <1>11. ASSUME NEW m, c.ret \in Addrs, AllocReport(m, t, c)
         PROVE  Line(i, Append(chan, m), F, [L EXCEPT ![p] = U])
    <2>0. /\ m \in Sendable /\ m.pid = p /\ m.op \in {"malloc", "realloc", "mmap"}
          /\ m.addr = c.ret /\ m.size = c.size /\ (m.op = "mmap" <=> c.fn \in {"mmap", "mremap"})
      BY <1>11 DEF AllocReport
    <2>1. k.addr = c.ret /\ k.size = c.size /\ (k.map <=> c.fn \in {"mmap", "mremap"})
      BY <1>2, <1>7, <1>11, MaskIs DEF Grips
    <2>2. AllocStep(m, T, U)
      BY <1>5, <1>6, <1>7, <2>0, <2>1, GivenStep DEF U
    <2>3. Follows(i, m, L[m.pid], U, L[m.parent]) /\ L[m.pid].leaked \subseteq U.leaked
      BY <1>8, <2>0, <2>2 DEF Follows, T
    <2> QED BY <1>5, <1>6, <2>0, <2>3, LineSent
  <1>12. ASSUME NEW h, HoldOf(h, T, t), EndsHold(U, h) \in Table,
                Ahead(EndsHold(U, h), H, call', in_realloc', S)
         PROVE  /\ Tidy(EndsHold(U, h)) /\ EndsHold(U, h).leaked = T.leaked
    BY <1>1, <1>6, <1>8, <1>9, <1>12, AheadTidy
  <1>r. \/ c.ret \notin Addrs /\ ~in_realloc[t]
        \/ /\ c.ret \in Addrs /\ ~in_realloc[t]
           /\ \E m : AllocReport(m, t, c) /\ One(ReturnReport(t, c), m)
        \/ /\ c.ret \in Addrs /\ in_realloc[t]
           /\ \E m, d : AllocReport(m, t, c) /\ DoneReport(d, t, c.ret) /\ Two(ReturnReport(t, c), m, d)
        \/ /\ c.ret = 0 /\ in_realloc[t]
           /\ \E d : DoneReport(d, t, c.ret) /\ One(ReturnReport(t, c), d)
    BY <1>1, <1>7, ReturnIs
  <1>14. CASE c.ret \in Addrs /\ ~in_realloc[t]
    <2>1. PICK m : AllocReport(m, t, c) /\ One(ReturnReport(t, c), m)
      BY <1>14, <1>r
    <2>2. Line(i, Append(chan, m), F, [L EXCEPT ![p] = U])
      BY <1>11, <1>14, <2>1
    <2>3. chan' = Append(chan, m)
      BY <1>1, <1>5, <2>1, AppendIsConcat DEF One, AllocReport
    <2>4. Line(i, chan', F, [L EXCEPT ![p] = U])
      BY <2>2, <2>3
    <2> QED BY <1>6, <1>8, <1>10, <1>14, <2>4
  <1>15. ASSUME in_realloc[t] PROVE Mirrored'
    <2>1. PICK h : /\ HoldOf(h, T, t) /\ (c.ret = 0 => h.addr = k.addr /\ h.size = k.size)
                   /\ EndsHold(U, h) \in Table /\ Ahead(EndsHold(U, h), H, call', in_realloc', S)
      BY <1>6, <1>15
    <2> DEFINE V == EndsHold(U, h)
    <2>2. /\ Tidy(V) /\ V.leaked = T.leaked /\ V \in Table /\ V.known /\ V.blocks = U.blocks
          /\ V.held = T.held \ {h} /\ Ahead(V, H, call', in_realloc', S)
      BY <1>8, <1>9, <1>12, <2>1
    <2> HIDE DEF V
    <2>3. h \in T.held /\ h.tid = t /\ \A g \in T.held : g.tid = t => g = h
      BY <2>1 DEF HoldOf
    <2>4. CASE c.ret \in Addrs
      <3>5. c.ret # 0
        BY <2>4, AddrsAre
      <3>m. PICK m, d : AllocReport(m, t, c) /\ DoneReport(d, t, c.ret) /\ Two(ReturnReport(t, c), m, d)
        BY <1>15, <2>4, <3>5, <1>r
      <3>1. /\ m \in Sendable /\ d \in Sendable /\ ReturnReport(t, c) = <<m>> \o <<d>>
            /\ d.pid = p /\ d.op = "done" /\ d.addr = c.ret /\ d.tid = t
        BY <3>m DEF AllocReport, DoneReport, Two
      <3>2. PICK G : G = [L EXCEPT ![p] = U]
        OBVIOUS
      <3>3. Line(i, Append(chan, m), F, G)
        BY <1>11, <2>4, <3>m, <3>2
      <3>4. G[p] = U /\ [G EXCEPT ![p] = V] = [L EXCEPT ![p] = V]
        BY <1>1, <1>5, <3>2 DEF Tables
      <3>6. DoneStep(d, U, V)
        BY <1>8, <2>2, <2>3, <3>1, <3>5 DEF DoneStep
      <3>7. Follows(i, d, G[d.pid], V, G[d.parent]) /\ G[d.pid].leaked \subseteq V.leaked
        BY <1>8, <2>2, <3>1, <3>4, <3>6 DEF Follows
      <3>8. Append(chan, m) \in Seq(Sendable)
        BY <1>5, <3>1
      <3>9. Line(i, Append(Append(chan, m), d), F, [G EXCEPT ![p] = V])
        <4>1. PICK ch \in Seq(Sendable) : ch = Append(chan, m)
          BY <3>8
        <4>2. Line(i, Append(ch, d), F, [G EXCEPT ![d.pid] = V])
          BY <2>2, <3>1, <3>3, <3>7, <4>1, LineSent
        <4> QED BY <3>1, <4>1, <4>2
      <3>10. chan' = Append(Append(chan, m), d)
        <4>1. <<m>> \in Seq(Sendable) /\ <<d>> \in Seq(Sendable)
          BY <3>1, <3>m
        <4>2. Append(Append(chan, m), d) = (chan \o <<m>>) \o <<d>>
          BY <1>5, <3>1, <3>m, <3>8, AppendIsConcat
        <4>3. (chan \o <<m>>) \o <<d>> = chan \o (<<m>> \o <<d>>)
          BY <1>5, <4>1, ConcatAssociative
        <4> QED BY <1>1, <3>1, <4>2, <4>3
      <3> QED BY <1>10, <2>2, <3>4, <3>9, <3>10
    <2>5. CASE c.ret \notin Addrs
      <3>0. PICK d : DoneReport(d, t, c.ret) /\ One(ReturnReport(t, c), d) /\ c.ret = 0
        BY <1>15, <2>5, <1>r
      <3>1. /\ d \in Sendable /\ c.ret = 0 /\ ReturnReport(t, c) = <<d>>
            /\ d.pid = p /\ d.op = "done" /\ d.addr = 0 /\ d.tid = t
        BY <3>0 DEF DoneReport, One
      <3>2. Item(h.addr, h.size, "heap") = Shape(k)
        <4>1. c.fn = "realloc" /\ ~k.map
          BY <1>1, <1>2, <1>15, <2>5 DEF Calling, Grips
        <4> QED BY <2>1, <3>1, <4>1 DEF Shape, Kind
      <3>3. \A x \in T.blocks : x.addr # h.addr
        BY <1>6, <1>7, <2>1, <3>1, ChunkIs DEF Begins
      <3>4. DoneStep(d, T, V)
        BY <1>5, <1>8, <2>2, <2>3, <3>1, <3>2, <3>3 DEF DoneStep
      <3>5. Follows(i, d, L[d.pid], V, L[d.parent]) /\ L[d.pid].leaked \subseteq V.leaked
        BY <2>2, <3>1, <3>4 DEF Follows, T
      <3>6. Line(i, Append(chan, d), F, [L EXCEPT ![p] = V])
        BY <1>5, <2>2, <3>1, <3>5, LineSent
      <3>7. chan' = Append(chan, d)
        BY <1>1, <1>5, <3>1, AppendIsConcat
      <3> QED BY <1>10, <2>2, <3>6, <3>7
    <2> QED BY <2>4, <2>5
  <1>16. CASE c.ret \notin Addrs /\ ~in_realloc[t]
    BY <1>1, <1>7, <1>16, ReturnReported
  <1> QED BY <1>14, <1>15, <1>16

\* A thread leaves the allocator.
LEMMA LeaveMirrored == ASSUME IInv, Faithful, Mirrored, NEW t \in Threads, Leave(t) PROVE Mirrored'
  <1>1. CASE Mask(call[t]) # 0
    BY <1>1, LeaveSome
  <1>2. CASE Mask(call[t]) = 0
    <2>1. /\ call \in [Threads -> Call] /\ Calling(call[t], in_realloc[t], heap[Owner[t]])
          /\ call[t].fn \notin {"none", "fork"} /\ call[t].st = "done"
      BY LeaveIs
    <2>2. call[t] \in Call
      BY <2>1
    <2>3. ReturnReport(t, call[t]) = <<>> /\ ~in_realloc[t]
      BY <1>2, <2>1, <2>2, ReturnReported
    <2> QED BY <1>2, <2>3, LeaveNone
  <1> QED BY <1>1, <1>2

\* No call of the process holds anything: the client is to know all its chunks.
LEMMA IdleShown ==
  ASSUME NEW H \in SUBSET Chunk, NEW K, NEW S, \A u \in S : Mask(K[u]) = 0 /\ ~Unmaps(K[u])
  PROVE  \A x : Shown(x, H, K, S) <=> \E k \in H : x = Shape(k)
  <1>1. \A k \in H : k.addr # 0
    BY ChunkIs
  <1>2. \A k \in H, u \in S : ~Cuts(K[u], k)
    BY DEF Unmaps, Cuts
  <1> QED BY <1>1, <1>2 DEF Shown

\* A process without a call.
LEMMA IdleLiving ==
  ASSUME NEW H, Spread(H), NEW K, NEW R, NEW S, \A u \in S : K[u] = NoCall /\ ~R[u]
  PROVE  /\ Living(H, K, R, S) /\ Holding({}, H, K, R, S)
         /\ \A u \in S : Mask(K[u]) = 0 /\ ~Unmaps(K[u])
  <1>1. Mask(NoCall) = 0 /\ ~Unmaps(NoCall)
    BY NoCallIs, MaskIs DEF Unmaps, NoCall
  <1>2. ASSUME NEW u \in S PROVE Calling(K[u], R[u], H)
    <2>1. NoCall.fn = "none" /\ NoCall.st = "done" /\ NoCall.addr = 0 /\ NoCall.ret = 0
      BY DEF NoCall
    <2>2. K[u] = NoCall /\ ~R[u]
      OBVIOUS
    <2> QED BY <1>1, <2>1, <2>2 DEF Calling
  <1> QED BY <1>1, <1>2 DEF Living, Holding

\* The child of a fork runs: it has what its parent has.
LEMMA LeaveForkMirrored ==
  ASSUME IInv, Faithful, Mirrored, NEW t \in Threads, LeaveFork(t)
  PROVE  Mirrored'
  <1> DEFINE p == Owner[t]
             S == ThreadsOf(p)
             H == heap[p]
             i == opt.interactive
             m0 == [op |-> "fork", pid |-> call[t].child, parent |-> p]
  <1>q. PICK q : q = call[t].child
    OBVIOUS
  <1>1. /\ call[t].fn = "fork" /\ call[t].st = "done" /\ Forking(t)
        /\ call' = [call EXCEPT ![t] = NoCall] /\ alive' = [alive EXCEPT ![q] = TRUE]
        /\ traced' = [traced EXCEPT ![q] = traced[p]] /\ chan' = Append(chan, m0)
        /\ UNCHANGED <<heap, in_realloc, proc, opt>>
    BY <1>q DEF LeaveFork, Forking, client
  <1>2. /\ p \in Procs /\ alive[p] /\ traced[p] /\ H \in SUBSET Chunk /\ t \in S /\ S \in SUBSET Threads
        /\ Living(H, call, in_realloc, S) /\ Calling(call[t], in_realloc[t], H)
    BY <1>1, InCall
  <1>3. /\ heap \in [Procs -> SUBSET Chunk] /\ call \in [Threads -> Call] /\ call' \in [Threads -> Call]
        /\ alive \in [Procs -> BOOLEAN] /\ traced \in [Procs -> BOOLEAN] /\ ProgramInv
    BY <1>1, NoCallIs DEF IInv, ProgramOK, Mirrored
  <1>4. /\ q \in Procs /\ ~alive[q] /\ p # q /\ Spread(heap[q]) /\ Alike(heap[q], H)
        /\ \A u \in Threads : Forking(u) /\ call[u].child = q => u = t
    <2>1. /\ ~alive[q] /\ Spread(heap[q]) /\ Alike(heap[q], H)
          /\ \A u \in Threads : Forking(u) /\ call[u].child = q => u = t
      BY <1>1, <1>3, <1>q DEF ProgramInv, ForkInv
    <2>2. q \in Procs
      BY <1>3, <1>q DEF Call
    <2> QED BY <1>2, <2>1, <2>2
  <1>5. /\ alive'[q] /\ \A r \in Procs : r # q => alive'[r] = alive[r] /\ traced'[r] = traced[r]
        /\ traced'[q] /\ heap' = heap /\ in_realloc' = in_realloc
        /\ call'[t] = NoCall /\ \A u \in Threads : u # t => call'[u] = call[u]
        /\ \A r \in Procs : ThreadsOf(r)' = ThreadsOf(r) /\ ThreadsOf(r) \in SUBSET Threads
        /\ Owner' = Owner /\ Ops' = Ops
    BY <1>1, <1>2, <1>3, <1>4 DEF ThreadsOf, Owner, Ops
  <1>6. "fork" \in Ops /\ Single /\ ~Scannable
    <2>1. "fork" \in Ops
      BY <1>1, <1>3 DEF ProgramInv, DeadInv
    <2> QED BY <2>1 DEF Faithful, Scannable
  <1>7. S = {t}
    BY <1>2, <1>6 DEF Single, ThreadsOf
  <1>8. Mask(call[t]) = 0 /\ ~in_realloc[t] /\ ~Unmaps(call[t]) /\ ~Unmaps(NoCall) /\ Mask(NoCall) = 0
    <2>1. call[t].ret = 0 /\ call[t].addr = 0 /\ ~in_realloc[t]
      BY <1>1, <1>2 DEF Calling
    <2> QED BY <1>1, <1>3, <2>1, MaskIs, NoCallIs DEF Unmaps, NoCall
  <1>9. \A u \in ThreadsOf(q) : call[u] = NoCall /\ call'[u] = NoCall /\ ~in_realloc[u] /\ ~in_realloc'[u]
    BY <1>3, <1>4, <1>5 DEF ProgramInv, DeadInv, ThreadsOf
  <1>10. \A u \in S : call'[u] = NoCall /\ ~in_realloc'[u]
    BY <1>5, <1>7, <1>8
  <1>11. /\ Living(heap[q], call', in_realloc', ThreadsOf(q)) /\ Holding({}, heap[q], call', in_realloc', ThreadsOf(q))
         /\ \A u \in ThreadsOf(q) : Mask(call'[u]) = 0 /\ ~Unmaps(call'[u])
    BY <1>4, <1>9, IdleLiving
  <1>12. /\ Living(H, call', in_realloc', S) /\ \A u \in S : Mask(call'[u]) = 0 /\ ~Unmaps(call'[u])
    <2>1. Spread(H)
      BY <1>2 DEF Living
    <2> QED BY <2>1, <1>10, IdleLiving
  <1>13. ASSUME NEW r \in Procs, r # p
         PROVE  /\ Living(heap[r], call, in_realloc, ThreadsOf(r)) => Living(heap[r], call', in_realloc', ThreadsOf(r))
                /\ \A T : Ahead(T, heap[r], call, in_realloc, ThreadsOf(r))
                          => Ahead(T, heap[r], call', in_realloc', ThreadsOf(r))
    <2>1. \A u \in ThreadsOf(r) : call'[u] = call[u] /\ in_realloc'[u] = in_realloc[u]
      BY <1>5, <1>13 DEF ThreadsOf
    <2> QED BY <2>1, LivingSame
  <1>14. LivesInv'
    <2> SUFFICES ASSUME NEW r \in Procs, alive'[r]
                 PROVE  traced'[r] /\ Living(heap[r], call', in_realloc', ThreadsOf(r))
      BY <1>5 DEF LivesInv
    <2>1. r # q => alive[r] /\ traced'[r] /\ Living(heap[r], call, in_realloc, ThreadsOf(r))
      BY <1>3, <1>5 DEF ProgramInv, LivesInv
    <2> QED BY <1>5, <1>11, <1>12, <1>13, <2>1
  <1>15. DeadInv'
    <2>1. \A u \in Threads : ~alive'[Owner[u]] => ~alive[Owner[u]]
      BY <1>3, <1>5, <1>4, OwnerIs DEF IInv
    <2>2. NoCall.fn = "none"
      BY DEF NoCall
    <2> QED BY <1>3, <1>5, <1>8, <2>1, <2>2 DEF ProgramInv, DeadInv
  <1>16. ForkInv'
    <2> SUFFICES ASSUME NEW u \in Threads, Forking(u)'
                 PROVE  LET r == call'[u].child
                        IN /\ ~alive'[r] /\ Spread(heap[r]) /\ Alike(heap[r], heap[Owner[u]])
                           /\ \A v \in Threads : Forking(v)' /\ call'[v].child = r => v = u
      BY <1>5 DEF ForkInv
    <2>1. \A v \in Threads : Forking(v)' => v # t /\ Forking(v) /\ call'[v] = call[v]
      BY <1>5 DEF Forking, NoCall
    <2> DEFINE r == call[u].child
    <2>2. /\ ~alive[r] /\ Spread(heap[r]) /\ Alike(heap[r], heap[Owner[u]])
          /\ \A v \in Threads : Forking(v) /\ call[v].child = r => v = u
      BY <1>3, <2>1 DEF ProgramInv, ForkInv
    <2>3. r # q /\ r \in Procs
      BY <1>3, <1>4, <2>1 DEF Call
    <2>4. ~alive'[r]
      BY <1>5, <2>2, <2>3
    <2> QED BY <2>1, <2>2, <2>4
  <1>17. PICK F, L : Linked(F, L)
    BY DEF Mirrored
  <1>m. PICK m \in Sendable : m = m0
    BY <1>2, <1>4, <1>q, MessageMade
  <1>18. /\ chan \in Seq(Sendable) /\ L \in Tables /\ L[p] \in Table /\ L[q] \in Table /\ Tidy(L[p])
         /\ Ahead(L[p], H, call, in_realloc, S) /\ Line(i, chan, F, L)
    <2>1. chan \in Seq(Sendable)
      BY DEF IInv, ChanOK
    <2>2. L \in Tables /\ Tidy(L[p])
      BY <1>2, <1>17, <2>1, LineEnds DEF Linked
    <2> QED BY <1>2, <1>4, <1>17, <2>1, <2>2 DEF Linked, Tables
  <1>19. PICK U : U = [known |-> TRUE, blocks |-> L[p].blocks, held |-> {}, leaked |-> L[q].leaked \cup L[p].leaked]
    OBVIOUS
  <1>20. /\ U.known /\ U.blocks = L[p].blocks /\ U.held = {} /\ U.leaked = L[q].leaked \cup L[p].leaked
         /\ U \in Table /\ Tidy(U)
    BY <1>18, <1>19 DEF Table, Tidy
  <1>21. Ahead(U, heap[q], call', in_realloc', ThreadsOf(q))
    <2>1. \A x : Shown(x, heap[q], call', ThreadsOf(q)) <=> \E k \in heap[q] : x = Shape(k)
      <3>1. heap[q] \in SUBSET Chunk
        BY <1>3, <1>4
      <3> QED BY <1>11, <3>1, IdleShown
    <2>2. \A x : Shown(x, H, call, S) <=> \E k \in H : x = Shape(k)
      BY <1>2, <1>7, <1>8, IdleShown
    <2>3. \A x : x \in U.blocks <=> Shown(x, heap[q], call', ThreadsOf(q))
      BY <1>4, <1>18, <1>20, <2>1, <2>2 DEF Alike, Ahead
    <2> QED BY <1>11, <1>20, <2>3 DEF Ahead
  <1>22. Ahead(L[p], H, call', in_realloc', S)
    <2>1. \A x : Shown(x, H, call, S) <=> Shown(x, H, call', S)
      <3>1. \A x : Shown(x, H, call, S) <=> \E k \in H : x = Shape(k)
        BY <1>2, <1>7, <1>8, IdleShown
      <3>2. \A x : Shown(x, H, call', S) <=> \E k \in H : x = Shape(k)
        BY <1>2, <1>12, IdleShown
      <3> QED BY <3>1, <3>2
    <2>2. Holding(L[p].held, H, call', in_realloc', S)
      <3>1. L[p].held = {}
        BY <1>7, <1>8, <1>18 DEF Ahead, Holding
      <3>2. Holding({}, H, call', in_realloc', S)
        BY <1>2, <1>10, IdleLiving DEF Living
      <3> QED BY <3>1, <3>2
    <2> QED BY <1>18, <2>1, <2>2 DEF Ahead
  <1>23. PICK G : G = [L EXCEPT ![q] = U]
    OBVIOUS
  <1>24. Line(i, chan', F, G)
    <2>1. m.pid = q /\ m.parent = p /\ m.op = "fork"
      BY <1>m, <1>q
    <2>2. ForkStep(m, L[q], U, L[p])
      BY <1>20, <2>1 DEF ForkStep
    <2>3. Follows(i, m, L[m.pid], U, L[m.parent]) /\ L[m.pid].leaked \subseteq U.leaked
      BY <1>20, <2>1, <2>2 DEF Follows
    <2>4. Line(i, Append(chan, m), F, [L EXCEPT ![m.pid] = U])
      BY <1>18, <1>20, <2>3, LineSent
    <2> QED BY <1>1, <1>m, <1>23, <2>1, <2>4
  <1>25. G[q] = U /\ \A r \in Procs : r # q => G[r] = L[r]
    BY <1>4, <1>18, <1>23 DEF Tables
  <1>26. Linked(F, G)'
    <2>1. \A r \in Procs : alive'[r] => Ahead(G[r], heap[r], call', in_realloc', ThreadsOf(r))
      <3> SUFFICES ASSUME NEW r \in Procs, alive'[r] PROVE Ahead(G[r], heap[r], call', in_realloc', ThreadsOf(r))
        OBVIOUS
      <3>1. r # q => G[r] = L[r] /\ Ahead(L[r], heap[r], call, in_realloc, ThreadsOf(r))
        BY <1>5, <1>17, <1>25 DEF Linked
      <3> QED BY <1>13, <1>21, <1>22, <1>25, <3>1
    <2>2. ~Scannable'
      BY <1>5, <1>6 DEF Scannable
    <2> QED BY <1>1, <1>5, <1>17, <1>24, <2>1, <2>2 DEF Linked
  <1> QED BY <1>14, <1>15, <1>16, <1>26 DEF ProgramInv, Mirrored

\* A process ends, and its threads with it.
LEMMA ExitMirrored ==
  ASSUME IInv, Faithful, Mirrored, NEW t \in Threads, Exit(Owner[t])
  PROVE  Mirrored'
  <1> DEFINE i == opt.interactive
             m0 == [op |-> "exit", pid |-> Owner[t]]
  <1>p. PICK p : p = Owner[t]
    OBVIOUS
  <1>1. /\ alive[p] /\ alive' = [alive EXCEPT ![p] = FALSE]
        /\ call' = [u \in Threads |-> IF Owner[u] = p THEN NoCall ELSE call[u]]
        /\ in_realloc' = [u \in Threads |-> Owner[u] # p /\ in_realloc[u]]
        /\ chan' = Append(chan, m0) /\ UNCHANGED <<heap, traced, proc, opt>>
    BY <1>p DEF Exit, client
  <1>2. /\ p \in Procs /\ heap \in [Procs -> SUBSET Chunk] /\ call \in [Threads -> Call]
        /\ alive \in [Procs -> BOOLEAN] /\ in_realloc \in [Threads -> BOOLEAN] /\ ProgramInv
    BY <1>p, OwnerIs DEF IInv, ProgramOK, Mirrored
  <1>3. /\ ~alive'[p] /\ \A r \in Procs : r # p => alive'[r] = alive[r]
        /\ heap' = heap /\ traced' = traced /\ proc' = proc /\ opt' = opt
        /\ \A r \in Procs : ThreadsOf(r)' = ThreadsOf(r) /\ ThreadsOf(r) \in SUBSET Threads
        /\ Owner' = Owner /\ Ops' = Ops
    BY <1>1, <1>2 DEF ThreadsOf, Owner, Ops
  <1>4. /\ \A u \in Threads : Owner[u] = p => call'[u] = NoCall
        /\ \A u \in Threads : Owner[u] # p => call'[u] = call[u]
    BY <1>1
  <1>5. /\ \A u \in Threads : Owner[u] = p => ~in_realloc'[u]
        /\ \A u \in Threads : Owner[u] # p => in_realloc'[u] = in_realloc[u]
    BY <1>1, <1>2, Zenon
  <1>6. ASSUME NEW r \in Procs, r # p
        PROVE  /\ Living(heap[r], call, in_realloc, ThreadsOf(r)) => Living(heap[r], call', in_realloc', ThreadsOf(r))
               /\ \A T : Ahead(T, heap[r], call, in_realloc, ThreadsOf(r))
                         => Ahead(T, heap[r], call', in_realloc', ThreadsOf(r))
    <2>1. \A u \in ThreadsOf(r) : call'[u] = call[u] /\ in_realloc'[u] = in_realloc[u]
      BY <1>4, <1>5, <1>6 DEF ThreadsOf
    <2> QED BY <2>1, LivingSame
  <1>7. LivesInv'
    <2> SUFFICES ASSUME NEW r \in Procs, alive'[r]
                 PROVE  traced[r] /\ Living(heap[r], call', in_realloc', ThreadsOf(r))
      BY <1>3 DEF LivesInv
    <2>1. r # p /\ alive[r]
      BY <1>3
    <2>2. traced[r] /\ Living(heap[r], call, in_realloc, ThreadsOf(r))
      BY <1>2, <2>1 DEF ProgramInv, LivesInv
    <2> QED BY <1>6, <2>1, <2>2
  <1>8. DeadInv'
    <2> SUFFICES ASSUME NEW u \in Threads
                 PROVE  /\ ~alive'[Owner[u]] => call'[u] = NoCall /\ ~in_realloc'[u]
                        /\ call'[u].fn \in Ops \cup {"none"}
      BY <1>3 DEF DeadInv
    <2>1. Owner[u] \in Procs
      BY OwnerIs DEF IInv
    <2>2. NoCall.fn = "none"
      BY DEF NoCall
    <2>3. CASE Owner[u] = p
      BY <1>4, <1>5, <2>2, <2>3
    <2>4. CASE Owner[u] # p
      BY <1>2, <1>3, <1>4, <1>5, <2>1, <2>4 DEF ProgramInv, DeadInv
    <2> QED BY <2>3, <2>4
  <1>9. ForkInv'
    <2> SUFFICES ASSUME NEW u \in Threads, Forking(u)'
                 PROVE  LET r == call'[u].child
                        IN /\ ~alive'[r] /\ Spread(heap[r]) /\ Alike(heap[r], heap[Owner[u]])
                           /\ \A v \in Threads : Forking(v)' /\ call'[v].child = r => v = u
      BY <1>3 DEF ForkInv
    <2>1. \A v \in Threads : Forking(v)' => Owner[v] # p /\ Forking(v) /\ call'[v] = call[v]
      BY <1>4 DEF Forking, NoCall
    <2> DEFINE r == call[u].child
    <2>2. /\ ~alive[r] /\ Spread(heap[r]) /\ Alike(heap[r], heap[Owner[u]])
          /\ \A v \in Threads : Forking(v) /\ call[v].child = r => v = u
      BY <1>2, <2>1 DEF ProgramInv, ForkInv
    <2>3. r \in Procs
      BY <1>2 DEF Call
    <2>4. ~alive'[r]
      BY <1>3, <2>2, <2>3
    <2> QED BY <2>1, <2>2, <2>4
  <1>10. PICK F, L : Linked(F, L)
    BY DEF Mirrored
  <1>m. PICK m \in Sendable : m = m0
    BY <1>2, <1>p, MessageMade
  <1>11. /\ chan \in Seq(Sendable) /\ L \in Tables /\ L[p] \in Table /\ Tidy(L[p]) /\ Line(i, chan, F, L)
    <2>1. chan \in Seq(Sendable)
      BY DEF IInv, ChanOK
    <2>2. L \in Tables /\ Tidy(L[p])
      BY <1>2, <1>10, <2>1, LineEnds DEF Linked
    <2> QED BY <1>2, <1>10, <2>1, <2>2 DEF Linked, Tables
  <1>12. PICK U : U = IF i THEN L[p] ELSE [known |-> FALSE, blocks |-> {}, held |-> {}, leaked |-> L[p].leaked]
    OBVIOUS
  <1>13. U \in Table /\ Tidy(U) /\ U.leaked = L[p].leaked /\ IF i THEN U = L[p] ELSE ~U.known /\ U.blocks = {} /\ U.held = {}
    <2>1. CASE i
      BY <1>11, <1>12, <2>1
    <2>2. CASE ~i
      BY <1>11, <1>12, <2>2 DEF Table, Tidy
    <2> QED BY <2>1, <2>2
  <1>14. PICK G : G = [L EXCEPT ![p] = U]
    OBVIOUS
  <1>15. Line(i, chan', F, G)
    <2>1. m.pid = p /\ m.op = "exit"
      BY <1>m, <1>p
    <2>2. ExitStep(i, m, L[p], U)
      BY <1>13, <2>1 DEF ExitStep
    <2>3. Follows(i, m, L[m.pid], U, L[m.parent]) /\ L[m.pid].leaked \subseteq U.leaked
      BY <1>13, <2>1, <2>2 DEF Follows
    <2>4. Line(i, Append(chan, m), F, [L EXCEPT ![m.pid] = U])
      BY <1>11, <1>13, <2>3, LineSent
    <2> QED BY <1>1, <1>m, <1>14, <2>1, <2>4
  <1>16. G[p] = U /\ \A r \in Procs : r # p => G[r] = L[r]
    BY <1>2, <1>11, <1>14 DEF Tables
  <1>17. Linked(F, G)'
    <2>1. \A r \in Procs : alive'[r] => Ahead(G[r], heap[r], call', in_realloc', ThreadsOf(r))
      <3> SUFFICES ASSUME NEW r \in Procs, alive'[r] PROVE Ahead(G[r], heap[r], call', in_realloc', ThreadsOf(r))
        OBVIOUS
      <3>1. r # p /\ alive[r]
        BY <1>3
      <3>2. G[r] = L[r] /\ Ahead(L[r], heap[r], call, in_realloc, ThreadsOf(r))
        BY <1>10, <1>16, <3>1 DEF Linked
      <3> QED BY <1>6, <3>1, <3>2
    <2>2. Scannable' => \A r \in Procs : G[r].leaked \subseteq Lost(heap[r])
      BY <1>3, <1>10, <1>13, <1>16 DEF Linked, Scannable
    <2> QED BY <1>3, <1>10, <1>15, <2>1, <2>2 DEF Linked
  <1> QED BY <1>7, <1>8, <1>9, <1>17 DEF ProgramInv, Mirrored

-----------------------------------------------------------------------------
(* The client, the user and the server: the program does not move.         *)

Still == UNCHANGED <<heap, alive, call, in_realloc, opt>> /\ \A p \in Procs : traced[p] => traced'[p]

\* The program is as it was.
LEMMA ProgramStill == ASSUME ProgramInv, Still PROVE ProgramInv'
  <1>1. /\ heap' = heap /\ alive' = alive /\ call' = call /\ in_realloc' = in_realloc /\ Owner' = Owner /\ Ops' = Ops
        /\ \A p \in Procs : ThreadsOf(p)' = ThreadsOf(p) /\ (traced[p] => traced'[p])
    BY DEF Still, Owner, Ops, ThreadsOf
  <1>2. LivesInv'
    BY <1>1 DEF ProgramInv, LivesInv
  <1>3. DeadInv'
    BY <1>1 DEF ProgramInv, DeadInv
  <1>4. ForkInv'
    BY <1>1 DEF ProgramInv, ForkInv, Forking
  <1> QED BY <1>2, <1>3, <1>4 DEF ProgramInv

\* The first or the last table becomes another one.
LEMMA LinkedStill ==
  ASSUME ProgramInv, Still, NEW F, NEW L, Line(opt.interactive, chan', F, L),
         \A p \in Procs : Agrees(proc'[p], F[p]),
         \A p \in Procs : alive[p] => Ahead(L[p], heap[p], call, in_realloc, ThreadsOf(p)),
         Scannable => \A p \in Procs : L[p].leaked \subseteq Lost(heap[p])
  PROVE  Mirrored'
  <1>1. /\ heap' = heap /\ alive' = alive /\ call' = call /\ in_realloc' = in_realloc /\ opt' = opt
        /\ Scannable' = Scannable /\ \A p \in Procs : ThreadsOf(p)' = ThreadsOf(p)
    BY DEF Still, Owner, Ops, ThreadsOf, Scannable
  <1>2. Linked(F, L)'
    BY <1>1 DEF Linked
  <1> QED BY <1>2, ProgramStill DEF Mirrored

\* Neither the messages nor the client change.
LEMMA AllStill ==
  ASSUME Mirrored, Still, UNCHANGED <<chan, proc>>
  PROVE  Mirrored'
  <1>1. PICK F, L : Linked(F, L)
    BY DEF Mirrored
  <1>2. Line(opt.interactive, chan', F, L) /\ \A p \in Procs : Agrees(proc'[p], F[p])
    BY <1>1 DEF Linked
  <1> QED BY <1>1, <1>2, LinkedStill DEF Linked, Mirrored

\* The server scans: what it answers of a block that the client has by then is
\* right.
LEMMA ScanMirrored ==
  ASSUME IInv, Faithful, Mirrored, scan
  PROVE  Mirrored'
  <1>p. PICK p, A : p = Head(cmds).pid /\ A = Head(cmds).blocks
    OBVIOUS
  <1> DEFINE live == A \cap Starts(heap[p])
             lost == A \cap Starts({c \in heap[p] : c.lost})
             hidden == IF "hidden" \in Ops THEN live \ lost ELSE {}
  <1>1. /\ cmds # <<>> /\ Head(cmds).op = "scan" /\ alive[p] /\ cmds' = Tail(cmds)
        /\ UNCHANGED <<program, tracer, client, opt>>
    BY <1>p DEF scan, Commanded
  <1>2. PICK X \in SUBSET (hidden \cup (A \ live)) :
          chan' = Append(chan, [op |-> "scan", pid |-> p, leaks |-> lost \cup X])
    BY <1>p DEF scan
  <1>3. Head(cmds) \in Command /\ p \in Procs
    BY <1>1, <1>p, CommandRead DEF IInv
  <1>4. A \in SUBSET Nat
    BY <1>1, <1>3, <1>p DEF Command
  <1>5. lost \cup X \in SUBSET Nat
    BY <1>2, <1>4
  <1>6. PICK B : B = lost \cup X
    OBVIOUS
  <1>7. Still /\ proc' = proc
    BY <1>1 DEF Still, program, tracer, client
  <1>m. PICK m \in Sendable : m = [op |-> "scan", pid |-> p, leaks |-> B]
    BY <1>3, <1>5, <1>6 DEF Sendable, Message
  <1>8. m.op = "scan" /\ m.pid = p /\ m.leaks = B /\ chan' = Append(chan, m) /\ B \subseteq Nat
    BY <1>2, <1>5, <1>6, <1>m
  <1>9. PICK F, L : Linked(F, L)
    BY DEF Mirrored
  <1>10. /\ chan \in Seq(Sendable) /\ L \in Tables /\ L[p] \in Table /\ Tidy(L[p]) /\ ProgramInv
         /\ Line(opt.interactive, chan, F, L) /\ Ahead(L[p], heap[p], call, in_realloc, ThreadsOf(p))
    <2>1. chan \in Seq(Sendable)
      BY DEF IInv, ChanOK
    <2>2. L \in Tables /\ Tidy(L[p])
      BY <1>3, <1>9, <2>1, LineEnds DEF Linked
    <2> QED BY <1>1, <1>3, <1>9, <2>1, <2>2 DEF Linked, Tables, Mirrored
  <1>11. PICK N : N = {a \in B : \E x \in L[p].blocks : x.addr = a}
    OBVIOUS
  <1>12. PICK U : U = [known |-> TRUE, blocks |-> L[p].blocks, held |-> L[p].held, leaked |-> L[p].leaked \cup N]
    OBVIOUS
  <1>13. /\ U \in Table /\ Tidy(U) /\ U.known /\ U.blocks = L[p].blocks /\ U.held = L[p].held
         /\ U.leaked = L[p].leaked \cup N
    BY <1>8, <1>10, <1>11, <1>12 DEF Table, Tidy
  <1>14. Ahead(U, heap[p], call, in_realloc, ThreadsOf(p))
    BY <1>10, <1>13 DEF Ahead
  <1>15. PICK G : G = [L EXCEPT ![p] = U]
    OBVIOUS
  <1>16. G[p] = U /\ \A r \in Procs : r # p => G[r] = L[r]
    BY <1>3, <1>10, <1>15 DEF Tables
  <1>17. Line(opt.interactive, chan', F, G)
    <2>1. ScanStep(m, L[p], U)
      BY <1>8, <1>10, <1>11, <1>13 DEF ScanStep, Ahead
    <2>2. Follows(opt.interactive, m, L[m.pid], U, L[m.parent]) /\ L[m.pid].leaked \subseteq U.leaked
      BY <1>8, <1>13, <2>1 DEF Follows
    <2>3. Line(opt.interactive, Append(chan, m), F, [L EXCEPT ![m.pid] = U])
      BY <1>10, <1>13, <2>2, LineSent
    <2> QED BY <1>8, <1>15, <2>3
  <1>18. ASSUME Scannable PROVE N \subseteq Lost(heap[p])
    <2> SUFFICES ASSUME NEW a \in B, NEW x \in L[p].blocks, x.addr = a PROVE a \in Lost(heap[p])
      BY <1>11
    <2>1. a \in Nat /\ a \in lost \cup X
      BY <1>6, <1>8
    <2>2. \A u \in ThreadsOf(p), k \in heap[p] : ~Cuts(call[u], k)
      BY <1>10, <1>18 DEF ProgramInv, DeadInv, Scannable, Cuts, ThreadsOf
    <2>3. PICK k \in heap[p] : x = Shape(k)
      BY <1>10, <2>2 DEF Ahead, Shown
    <2>4. k \in Chunk
      BY <1>3 DEF IInv, ProgramOK
    <2>5. k.addr = a
      BY <2>3, <2>4, ChunkIs
    <2>6. a \in Starts(heap[p])
      BY <2>5 DEF Starts
    <2>7. hidden = {}
      BY <1>18 DEF Scannable
    <2>8. a \in lost
      BY <1>2, <2>1, <2>6, <2>7
    <2> QED BY <2>1, <2>8 DEF Starts, Lost
  <1>19. Scannable => \A r \in Procs : G[r].leaked \subseteq Lost(heap[r])
    BY <1>9, <1>13, <1>16, <1>18 DEF Linked
  <1>20. \A r \in Procs : alive[r] => Ahead(G[r], heap[r], call, in_realloc, ThreadsOf(r))
    BY <1>9, <1>14, <1>16 DEF Linked
  <1>21. \A r \in Procs : Agrees(proc'[r], F[r])
    BY <1>7, <1>9 DEF Linked
  <1> QED BY <1>7, <1>10, <1>17, <1>19, <1>20, <1>21, LinkedStill

\* The commands of the server; stop is not among them.
LEMMA ServerMirrored == ASSUME IInv, CInv, Faithful, Mirrored, Server PROVE Mirrored'
  <1>1. CASE CommandNoTask
    <2>1. Still /\ UNCHANGED <<chan, proc>>
      BY <1>1 DEF CommandNoTask, Still, program, tracer, client
    <2> QED BY <2>1, AllStill
  <1>2. CASE start_trace
    <2>1. /\ traced' = [traced EXCEPT ![Head(cmds).pid] = TRUE] /\ traced \in [Procs -> BOOLEAN]
          /\ UNCHANGED <<heap, alive, call, in_realloc, opt, chan, proc>>
      BY <1>2 DEF start_trace, program, client, IInv, ProgramOK
    <2>2. \A p \in Procs : traced[p] => traced'[p]
      BY <2>1, Zenon
    <2>3. Still
      BY <2>1, <2>2 DEF Still
    <2> QED BY <2>1, <2>3, AllStill
  <1>3. CASE stop_trace
    <2>1. cmds # <<>> /\ Head(cmds).op = "stop"
      BY <1>3 DEF stop_trace, Commanded
    <2>2. Head(cmds) \in Asked
      BY <2>1, Queued DEF CInv, ChanInv
    <2> QED BY <2>1, <2>2 DEF Asked, Faithful
  <1>4. CASE scan
    BY <1>4, ScanMirrored
  <1> QED BY <1>1, <1>2, <1>3, <1>4 DEF Server

\* The step of a message is the one of its operation.
LEMMA StepOf ==
  ASSUME NEW i, NEW m, NEW T, NEW U, NEW V, Follows(i, m, T, U, V)
  PROVE  /\ m.op \in {"malloc", "realloc", "mmap"} => AllocStep(m, T, U)
         /\ m.op = "free" => FreeStep(m, T, U)
         /\ m.op = "enter" => EnterStep(m, T, U)
         /\ m.op = "done" => DoneStep(m, T, U)
         /\ m.op = "munmap" => UnmapStep(m, T, U)
         /\ m.op = "exit" => ExitStep(i, m, T, U)
         /\ m.op = "scan" => ScanStep(m, T, U)
         /\ m.op = "fork" => ForkStep(m, T, U, V)
  BY DEF Follows, AllocStep, FreeStep, EnterStep, DoneStep, UnmapStep, ExitStep, ScanStep, ForkStep

\* The client reads the message m of the process p: the tables are F before it and
\* G after it.
Reading(m, p, F, G, L) ==
  /\ m = Head(chan) /\ m \in Sendable /\ p = m.pid /\ p \in Procs /\ Linked(F, L)
  /\ Line(opt.interactive, Tail(chan), G, L)
  /\ \A q \in Procs : q # p => G[q] = F[q]
  /\ Follows(opt.interactive, m, F[p], G[p], F[m.parent])
  /\ \A q \in Procs : F[q] \in Table /\ Tidy(F[q]) /\ G[q] \in Table /\ Sound(proc[q]) /\ Agrees(proc[q], F[q])

\* There is such a step.
LEMMA Reads ==
  ASSUME IInv, Mirrored, chan # <<>>
  PROVE  \E m, p, F, G, L : Reading(m, p, F, G, L)
  <1>1. PICK F, L : Linked(F, L)
    BY DEF Mirrored
  <1>2. chan \in Seq(Sendable) /\ Line(opt.interactive, chan, F, L)
    BY <1>1 DEF IInv, ChanOK, Linked
  <1>3. PICK G \in Tables : Step(opt.interactive, Head(chan), F, G) /\ Line(opt.interactive, Tail(chan), G, L)
    BY <1>2, LineTail
  <1>4. F \in Tables /\ \A p \in Procs : Tidy(F[p])
    BY <1>2, LineEnds
  <1>5. Head(chan) \in Sendable
    BY Received DEF IInv
  <1>6. PICK m, p : m = Head(chan) /\ p = m.pid
    OBVIOUS
  <1>7. m \in Sendable /\ p \in Procs
    BY <1>5, <1>6, MessageFields
  <1>8. \A q \in Procs : F[q] \in Table /\ Tidy(F[q]) /\ G[q] \in Table /\ Sound(proc[q]) /\ Agrees(proc[q], F[q])
    BY <1>1, <1>3, <1>4 DEF Tables, IInv, ClientOK, Linked
  <1>9. Reading(m, p, F, G, L)
    BY <1>1, <1>3, <1>6, <1>7, <1>8 DEF Reading, Step
  <1> QED BY <1>9

\* The struct process agrees with the next table: the message has been handled.
LEMMA HandlerMirrored ==
  ASSUME IInv, Mirrored, Still, NEW m, NEW p, NEW F, NEW G, NEW L, Reading(m, p, F, G, L), chan' = Tail(chan),
         NEW Q, Update(p, Q), Agrees(Q, G[p])
  PROVE  Mirrored'
  <1>1. proc' = [proc EXCEPT ![p] = Q] /\ proc \in [Procs -> Process] /\ p \in Procs
    BY DEF Update, IInv, ClientOK, Reading
  <1>2. proc'[p] = Q /\ \A q \in Procs : q # p => proc'[q] = proc[q]
    BY <1>1
  <1>3. \A q \in Procs : Agrees(proc'[q], G[q])
    BY <1>2 DEF Reading
  <1>4. Line(opt.interactive, chan', G, L)
    BY DEF Reading
  <1> QED BY <1>3, <1>4, LinkedStill DEF Reading, Linked, Mirrored

\* The same when it stays as it is.
LEMMA HandlerKept ==
  ASSUME IInv, Mirrored, Still, NEW m, NEW p, NEW F, NEW G, NEW L, Reading(m, p, F, G, L), chan' = Tail(chan),
         UNCHANGED proc, Agrees(proc[p], G[p])
  PROVE  Mirrored'
  <1>1. Update(p, proc[p])
    BY DEF Update, IInv, ClientOK
  <1> QED BY <1>1, HandlerMirrored

\* No message is for a process that is not traced.
LEMMA IgnoreMirrored == ASSUME IInv, Mirrored, Ignore PROVE Mirrored'
  <1>1. chan # <<>>
    BY DEF Ignore, Receive
  <1>2. PICK m, p, F, G, L : Reading(m, p, F, G, L)
    BY <1>1, Reads
  <1>3. m.op \in {"malloc", "realloc", "mmap", "free", "enter", "done", "munmap"} /\ ~proc[p].tracing
    BY <1>2 DEF Ignore, Receive, Reading
  <1>4. F[p].known
    BY <1>2, <1>3, StepOf DEF Reading, AllocStep, FreeStep, EnterStep, DoneStep, UnmapStep
  <1> QED BY <1>2, <1>3, <1>4 DEF Reading, Agrees

\* process_alloc.
LEMMA HandleAllocMirrored == ASSUME IInv, Mirrored, HandleAlloc PROVE Mirrored'
  <1>1. chan # <<>> /\ Still
    BY DEF HandleAlloc, Receive, Still, program, tracer
  <1>2. PICK m, p, F, G, L : Reading(m, p, F, G, L)
    BY <1>1, Reads
  <1> DEFINE P == proc[p]
             Q == alloc_insert(P, m.addr, m.size, m.op)
  <1>3. /\ m.op \in {"malloc", "realloc", "mmap"}
        /\ \/ \E b : b \in rb_search_range(P, m.addr, m.size)
           \/ Update(p, Q) /\ chan' = Tail(chan)
    BY <1>2 DEF HandleAlloc, Receive, Reading, Consumed
  <1>4. AllocStep(m, F[p], G[p]) /\ m.addr \in Nat /\ m.size \in Nat
    BY <1>2, <1>3, StepOf, MessageFields DEF Reading
  <1>5. Sound(P) /\ F[p] \in Table /\ G[p] \in Table /\ Agrees(P, F[p])
    BY <1>2 DEF Reading
  <1>6. rb_search_range(P, m.addr, m.size) = {} /\ Agrees(Q, G[p])
    BY <1>4, <1>5, AllocAgrees
  <1> HIDE DEF P, Q
  <1>7. Update(p, Q) /\ chan' = Tail(chan)
    BY <1>3, <1>6
  <1> QED BY <1>1, <1>2, <1>6, <1>7, HandlerMirrored

\* process_free.
LEMMA HandleFreeMirrored == ASSUME IInv, Mirrored, HandleFree PROVE Mirrored'
  <1>1. chan # <<>> /\ Still /\ chan' = Tail(chan)
    BY DEF HandleFree, Receive, Still, program, tracer, Consumed
  <1>2. PICK m, p, F, G, L : Reading(m, p, F, G, L)
    BY <1>1, Reads
  <1> DEFINE P == proc[p]
             tid == IF m.op = "enter" THEN m.tid ELSE 0
             D == rb_search(P, m.addr)
  <1>3. /\ m.op \in {"free", "enter"}
        /\ \/ \E b \in D : Update(p, free_block(P, b, m.op, tid))
           \/ D = {} /\ Update(p, free_unknown(P, m.op, tid))
    BY <1>2 DEF HandleFree, Receive, Reading
  <1>4. Sound(P) /\ F[p] \in Table /\ G[p] \in Table /\ Agrees(P, F[p]) /\ Tidy(F[p])
    BY <1>2 DEF Reading
  <1>5. /\ \A b \in D : Agrees(free_block(P, b, m.op, tid), G[p])
        /\ D = {} => Agrees(free_unknown(P, m.op, tid), G[p])
    <2>1. CASE m.op = "free"
      <3>1. FreeStep(m, F[p], G[p]) /\ tid = 0
        BY <1>2, <2>1, StepOf DEF Reading
      <3> HIDE DEF tid, P
      <3> QED BY <1>4, <3>1, FreeAgrees
    <2>2. CASE m.op = "enter"
      <3>1. EnterStep(m, F[p], G[p]) /\ tid = m.tid /\ m.tid \in Threads /\ m.addr # 0
        BY <1>2, <2>2, StepOf, MessageFields DEF Reading
      <3> HIDE DEF tid, P
      <3> QED BY <1>4, <3>1, EnterAgrees
    <2> QED BY <1>3, <2>1, <2>2
  <1> HIDE DEF P, tid, D
  <1>6. PICK Q : Update(p, Q) /\ Agrees(Q, G[p])
    BY <1>3, <1>5
  <1> QED BY <1>1, <1>2, <1>6, HandlerMirrored

\* process_realloc_done.
LEMMA HandleDoneMirrored == ASSUME IInv, Mirrored, HandleDone PROVE Mirrored'
  <1>1. chan # <<>> /\ Still /\ chan' = Tail(chan)
    BY DEF HandleDone, Receive, Still, program, tracer, Consumed
  <1>2. PICK m, p, F, G, L : Reading(m, p, F, G, L)
    BY <1>1, Reads
  <1> DEFINE P == proc[p]
  <1>3. /\ m.op = "done"
        /\ \/ \E i \in EntryOf(P, m.tid) : Update(p, realloc_done(P, m.addr, i))
           \/ EntryOf(P, m.tid) = {} /\ UNCHANGED proc
    BY <1>2 DEF HandleDone, Receive, Reading
  <1>4. Sound(P) /\ F[p] \in Table /\ G[p] \in Table /\ Agrees(P, F[p])
    BY <1>2 DEF Reading
  <1>5. DoneStep(m, F[p], G[p])
    BY <1>2, <1>3, StepOf DEF Reading
  <1>6. /\ \A i \in EntryOf(P, m.tid) : Agrees(realloc_done(P, m.addr, i), G[p])
        /\ EntryOf(P, m.tid) = {} => Agrees(P, G[p])
    BY <1>4, <1>5, DoneAgrees
  <1>7. CASE EntryOf(P, m.tid) = {} /\ UNCHANGED proc
    BY <1>1, <1>2, <1>6, <1>7, HandlerKept
  <1>8. CASE \E i \in EntryOf(P, m.tid) : Update(p, realloc_done(P, m.addr, i))
    <2>1. PICK Q : Update(p, Q) /\ Agrees(Q, G[p])
      BY <1>6, <1>8
    <2> QED BY <1>1, <1>2, <2>1, HandlerMirrored
  <1> QED BY <1>3, <1>7, <1>8

\* process_munmap: its loop runs once.
LEMMA HandleMunmapMirrored == ASSUME IInv, Mirrored, HandleMunmap PROVE Mirrored'
  <1>1. chan # <<>> /\ Still
    BY DEF HandleMunmap, Receive, Still, program, tracer
  <1>2. PICK m, p, F, G, L : Reading(m, p, F, G, L)
    BY <1>1, Reads
  <1> DEFINE P == proc[p]
             D == rb_search_range(P, m.addr, m.size)
  <1>3. m.op = "munmap"
    BY <1>2 DEF HandleMunmap, Receive, Reading
  <1>4. Sound(P) /\ F[p] \in Table /\ G[p] \in Table /\ Agrees(P, F[p]) /\ Tidy(F[p])
    BY <1>2 DEF Reading
  <1>5. UnmapStep(m, F[p], G[p]) /\ m.addr \in Nat /\ m.size \in Nat
    BY <1>2, <1>3, StepOf, MessageFields DEF Reading
  <1>6. /\ D = {} => Agrees(P, G[p])
        /\ \A b \in D : /\ b.stack = "mmap" /\ b.addr = m.addr /\ m.size <= b.size
                        /\ m.size < b.size => Agrees(munmap_prefix(P, b, m.size), G[p])
                        /\ m.size = b.size => Agrees(rb_delete_block(P, b), G[p])
    BY <1>4, <1>5, UnmapAgrees
  <1>7. CASE D = {}
    <2>1. UNCHANGED proc /\ chan' = Tail(chan)
      BY <1>2, <1>7 DEF HandleMunmap, Reading, Consumed
    <2> QED BY <1>1, <1>2, <1>6, <1>7, <2>1, HandlerKept
  <1>8. CASE D # {}
    <2>1. PICK b \in D :
            LET n == m.size - UInt(b.addr - m.addr)
            IN \/ b.stack # "mmap"
               \/ n < b.size /\ Update(p, munmap_prefix(P, b, n)) /\ chan' = Tail(chan)
               \/ n = b.size /\ Update(p, rb_delete_block(P, b)) /\ chan' = Tail(chan)
               \/ n > b.size
      BY <1>2, <1>8 DEF HandleMunmap, Reading, Consumed
    <2>2. b \in P.blocks
      BY DEF rb_search_range
    <2>3. b.stack = "mmap" /\ b.addr = m.addr /\ m.size <= b.size /\ b.size \in Nat
      BY <1>4, <1>6, <2>2, BlockIs
    <2>4. m.size - UInt(b.addr - m.addr) = m.size /\ ~(m.size > b.size)
      <3>1. b.addr - m.addr = 0 /\ UInt(0) \in 0..0
        BY <1>5, <2>3, UIntIs
      <3>2. UInt(b.addr - m.addr) = 0
        BY <3>1
      <3> QED BY <1>5, <2>3, <3>2
    <2>5. PICK Q : Update(p, Q) /\ Agrees(Q, G[p]) /\ chan' = Tail(chan)
      BY <1>6, <2>1, <2>3, <2>4
    <2> QED BY <1>1, <1>2, <2>5, HandlerMirrored
  <1> QED BY <1>7, <1>8

\* process_duplicate.
LEMMA HandleForkMirrored == ASSUME IInv, Mirrored, HandleFork PROVE Mirrored'
  <1>1. chan # <<>> /\ Still /\ chan' = Tail(chan)
    BY DEF HandleFork, Receive, Still, program, tracer, Consumed
  <1>2. PICK m, p, F, G, L : Reading(m, p, F, G, L)
    BY <1>1, Reads
  <1>3. PICK P, copy, old : /\ P = proc[p] /\ copy = proc[m.parent]
                            /\ old = IF P.known THEN P ELSE process_new(TRUE, TRUE, FALSE)
    OBVIOUS
  <1>4. m.op = "fork" /\ Update(p, process_duplicate(old, copy))
    BY <1>2, <1>3 DEF HandleFork, Receive, Reading
  <1>5. m.parent \in Procs
    BY <1>2, <1>4, MessageFields DEF Reading
  <1>6. ForkStep(m, F[p], G[p], F[m.parent])
    BY <1>2, <1>4, StepOf DEF Reading
  <1>7. /\ Sound(P) /\ Sound(copy) /\ Agrees(P, F[p]) /\ Agrees(copy, F[m.parent])
        /\ F[p] \in Table /\ G[p] \in Table /\ F[m.parent] \in Table
    BY <1>2, <1>3, <1>5 DEF Reading
  <1>8. Agrees(process_duplicate(old, copy), G[p])
    BY <1>3, <1>6, <1>7, ForkAgrees
  <1> QED BY <1>1, <1>2, <1>4, <1>8, HandlerMirrored

\* process_exit.
LEMMA HandleExitMirrored == ASSUME IInv, Mirrored, HandleExit PROVE Mirrored'
  <1>1. chan # <<>> /\ Still /\ chan' = Tail(chan)
    BY DEF HandleExit, Receive, Still, program, tracer, Consumed
  <1>2. PICK m, p, F, G, L : Reading(m, p, F, G, L)
    BY <1>1, Reads
  <1>3. /\ m.op = "exit"
        /\ \/ opt.interactive /\ UNCHANGED proc
           \/ ~opt.interactive /\ Update(p, process_new(FALSE, FALSE, FALSE))
    BY <1>2 DEF HandleExit, Receive, Reading
  <1>4. ExitStep(opt.interactive, m, F[p], G[p]) /\ Agrees(proc[p], F[p]) /\ G[p] \in Table
    BY <1>2, <1>3, StepOf DEF Reading
  <1>5. CASE opt.interactive /\ UNCHANGED proc
    <2>1. G[p] = F[p]
      BY <1>4, <1>5 DEF ExitStep
    <2> QED BY <1>1, <1>2, <1>4, <1>5, <2>1, HandlerKept
  <1>6. CASE ~opt.interactive /\ Update(p, process_new(FALSE, FALSE, FALSE))
    <2>1. ~G[p].known /\ G[p].blocks = {} /\ G[p].held = {}
      BY <1>4, <1>6 DEF ExitStep
    <2>2. Agrees(process_new(FALSE, FALSE, FALSE), G[p])
      BY <1>4, <2>1, NewAgrees
    <2> QED BY <1>1, <1>2, <1>6, <2>2, HandlerMirrored
  <1> QED BY <1>3, <1>5, <1>6

\* process_scan.
LEMMA HandleScanMirrored == ASSUME IInv, Mirrored, HandleScan PROVE Mirrored'
  <1>1. chan # <<>> /\ Still /\ chan' = Tail(chan)
    BY DEF HandleScan, Receive, Still, program, tracer, Consumed
  <1>2. PICK m, p, F, G, L : Reading(m, p, F, G, L)
    BY <1>1, Reads
  <1>3. m.op = "scan" /\ Update(p, process_scan(proc[p], m.leaks))
    BY <1>2 DEF HandleScan, Receive, Reading
  <1>4. /\ ScanStep(m, F[p], G[p]) /\ Sound(proc[p]) /\ Agrees(proc[p], F[p])
        /\ F[p] \in Table /\ G[p] \in Table
    BY <1>2, <1>3, StepOf DEF Reading
  <1>5. Agrees(process_scan(proc[p], m.leaks), G[p])
    BY <1>4, ScanAgrees
  <1> QED BY <1>1, <1>2, <1>3, <1>5, HandlerMirrored

\* The end of the connection.
LEMMA HandleCloseMirrored == ASSUME IInv, Mirrored, HandleClose PROVE Mirrored'
  <1>1. Still /\ UNCHANGED <<chan, proc>>
    BY DEF HandleClose, Still, program, tracer
  <1> QED BY <1>1, AllStill

\* A command of the user replaces a struct process by one that agrees with the
\* same tables.
LEMMA CommandMirrored ==
  ASSUME IInv, Mirrored, Still, chan' = chan, NEW p \in Procs, NEW Q, Update(p, Q),
         \A T \in Table : Agrees(proc[p], T) => Agrees(Q, T)
  PROVE  Mirrored'
  <1>1. PICK F, L : Linked(F, L)
    BY DEF Mirrored
  <1>2. F \in Tables
    BY <1>1, LineEnds DEF Linked, IInv, ChanOK
  <1>3. proc'[p] = Q /\ \A q \in Procs : q # p => proc'[q] = proc[q]
    BY DEF Update, IInv, ClientOK
  <1>4. \A q \in Procs : Agrees(proc'[q], F[q])
    BY <1>1, <1>2, <1>3 DEF Linked, Tables
  <1> QED BY <1>1, <1>4, LinkedStill DEF Linked, Mirrored

\* The commands of the user; stop is not among them.
LEMMA UserMirrored == ASSUME IInv, Faithful, Mirrored, User PROVE Mirrored'
  <1>1. PICK p \in Procs : do_reset(p) \/ do_stop(p) \/ do_start(p) \/ \E mode \in opt.modes : do_scan(p, mode)
    BY DEF User
  <1>2. PICK P, R : P = proc[p] /\ R = reset_allocations(P)
    OBVIOUS
  <1>3. Sound(P) /\ P \in Process /\ Sound(R) /\ R \in Process
    BY <1>2, ResetSound DEF IInv, ClientOK, Sound
  <1>4. R.blocks = {} /\ R.realloc_list = <<>> /\ R.known = P.known /\ R.tracing = P.tracing
    BY <1>2, <1>3 DEF reset_allocations, Process
  <1>5. CASE do_reset(p)
    <2>1. PICK Q : Q = [R EXCEPT !.attached = TRUE]
      OBVIOUS
    <2>2. Update(p, Q) /\ Still /\ chan' = chan
      BY <1>2, <1>5, <2>1 DEF do_reset, Still, program, tracer
    <2>3. /\ Q.nodes = R.nodes /\ Q.blocks = {} /\ Q.realloc_list = <<>> /\ Q.attached
          /\ Q.known = P.known /\ Q.tracing = P.tracing
      BY <1>3, <1>4, <2>1 DEF Process
    <2>4. \A T \in Table : Agrees(P, T) => Agrees(Q, T)
      <3> TAKE T \in Table
      <3> HAVE Agrees(P, T)
      <3>1. (Q.known <=> T.known) /\ (Q.tracing <=> T.known)
        BY <2>3 DEF Agrees
      <3> QED BY <1>2, <1>3, <2>3, <3>1, ResetAgrees
    <2> QED BY <1>2, <2>2, <2>4, CommandMirrored
  <1>6. CASE do_start(p)
    <2>1. PICK Q : Q = [R EXCEPT !.tracing = TRUE, !.attached = TRUE]
      OBVIOUS
    <2>2. Update(p, Q) /\ Still /\ chan' = chan /\ P.known
      BY <1>2, <1>6, <2>1 DEF do_start, Still, program, tracer, Prompt
    <2>3. /\ Q.nodes = R.nodes /\ Q.blocks = {} /\ Q.realloc_list = <<>> /\ Q.attached
          /\ Q.known = P.known /\ Q.tracing
      BY <1>3, <1>4, <2>1 DEF Process
    <2>4. \A T \in Table : Agrees(P, T) => Agrees(Q, T)
      <3> TAKE T \in Table
      <3> HAVE Agrees(P, T)
      <3>1. (Q.known <=> T.known) /\ (Q.tracing <=> T.known)
        BY <2>2, <2>3 DEF Agrees
      <3> QED BY <1>2, <1>3, <2>3, <3>1, ResetAgrees
    <2> QED BY <1>2, <2>2, <2>4, CommandMirrored
  <1>7. CASE do_stop(p)
    BY <1>7 DEF do_stop, Prompt, Faithful
  <1>8. ASSUME NEW mode \in opt.modes, do_scan(p, mode) PROVE Mirrored'
    <2>1. Still /\ chan' = chan /\ (Update(p, leaks_scan(P, mode)) \/ UNCHANGED proc)
      BY <1>2, <1>8 DEF do_scan, Still, program, tracer
    <2>2. mode \in {"all", "new", "leak"}
      BY <1>8 DEF IInv, Scenario
    <2>3. \A T \in Table : Agrees(P, T) => Agrees(leaks_scan(P, mode), T)
      BY <1>3, <2>2, LeaksScanAgrees
    <2>4. CASE UNCHANGED proc
      BY <2>1, <2>4, AllStill
    <2>5. CASE Update(p, leaks_scan(P, mode))
      BY <1>2, <2>1, <2>3, <2>5, CommandMirrored
    <2> QED BY <2>1, <2>4, <2>5
  <1> QED BY <1>1, <1>5, <1>6, <1>7, <1>8

-----------------------------------------------------------------------------
(* The theorems.                                                           *)

\* The steps of the program.
LEMMA ProgramMirrored == ASSUME IInv, CInv, Faithful, Mirrored, Program PROVE Mirrored'
  <1>1. PICK t \in Threads :
          \/ \E fn \in Calls, a \in Addrs \cup {0}, n \in Addrs \cup {0} : Enter(t, fn, a, n)
          \/ ExecAlloc(t) \/ ExecFree(t) \/ ExecUnmap(t) \/ ExecFail(t) \/ Leave(t)
          \/ \E q \in Procs : ExecFork(t, q)
          \/ LeaveFork(t)
          \/ \E c \in heap[Owner[t]] : Lose(Owner[t], c)
          \/ Exit(Owner[t])
    BY DEF Program
  <1> QED BY <1>1, EnterMirrored, ExecAllocMirrored, ExecFreeMirrored, ExecUnmapMirrored, ExecFailMirrored,
             LeaveMirrored, ExecForkMirrored, LeaveForkMirrored, LoseMirrored, ExitMirrored

\* The start: one process, without a chunk, and no message.
LEMMA InitMirrored == ASSUME Init PROVE Mirrored
  <1>1. /\ heap = [p \in Procs |-> {}] /\ alive = [p \in Procs |-> p = First] /\ call = [t \in Threads |-> NoCall]
        /\ in_realloc = [t \in Threads |-> FALSE] /\ chan = <<>> /\ opt \in Scenario
        /\ traced = [p \in Procs |-> p = First]
        /\ proc = [p \in Procs |-> process_new(p = First, p = First, FALSE)]
    BY ProgramAssumption DEF Init
  <1>2. \A t \in Threads : call[t] = NoCall /\ ~in_realloc[t]
    BY <1>1
  <1>3. \A p \in Procs : heap[p] = {} /\ ThreadsOf(p) \subseteq Threads
    BY <1>1 DEF ThreadsOf
  <1>4. Spread({})
    BY DEF Spread
  <1>5. ASSUME NEW p \in Procs
        PROVE  /\ Living(heap[p], call, in_realloc, ThreadsOf(p)) /\ Holding({}, heap[p], call, in_realloc, ThreadsOf(p))
               /\ \A x : ~Shown(x, heap[p], call, ThreadsOf(p))
    <2>1. \A u \in ThreadsOf(p) : call[u] = NoCall /\ ~in_realloc[u]
      BY <1>2, <1>3
    <2> QED BY <1>3, <1>4, <2>1, IdleLiving DEF Shown
  <1>6. \A p \in Procs : alive[p] <=> traced[p]
    BY <1>1
  <1>7. LivesInv
    BY <1>5, <1>6 DEF LivesInv
  <1>8. DeadInv /\ ForkInv
    <2>1. NoCall.fn = "none"
      BY DEF NoCall
    <2> QED BY <1>2, <2>1 DEF DeadInv, ForkInv, Forking
  <1> DEFINE F == [p \in Procs |-> [known |-> p = First, blocks |-> {}, held |-> {}, leaked |-> {}]]
  <1>9. ASSUME NEW p \in Procs
        PROVE  /\ F[p] \in Table /\ F[p].blocks = {} /\ F[p].held = {} /\ F[p].leaked = {} /\ (F[p].known <=> p = First)
               /\ Tidy(F[p])
    BY DEF Table, Tidy
  <1>10. F \in Tables
    BY <1>9 DEF Tables
  <1> HIDE DEF F
  <1>11. Line(opt.interactive, chan, F, F)
    BY <1>1, <1>9, <1>10, LineNone
  <1>12. ASSUME NEW p \in Procs PROVE Agrees(proc[p], F[p])
    <2>1. PICK k \in BOOLEAN : k = (p = First)
      OBVIOUS
    <2>2. proc[p] = process_new(k, k, FALSE)
      BY <1>1, <2>1
    <2>3. F[p] \in Table /\ (F[p].known <=> k) /\ F[p].blocks = {} /\ F[p].held = {}
      BY <1>9, <2>1
    <2> QED BY <2>2, <2>3, NewAgrees
  <1>13. ASSUME NEW p \in Procs, alive[p] PROVE Ahead(F[p], heap[p], call, in_realloc, ThreadsOf(p))
    <2>1. F[p].known
      BY <1>1, <1>9, <1>13
    <2> QED BY <1>5, <1>9, <2>1 DEF Ahead
  <1>14. Linked(F, F)
    BY <1>9, <1>11, <1>12, <1>13 DEF Linked
  <1> QED BY <1>7, <1>8, <1>14 DEF Mirrored, ProgramInv

\* A step of the program reaches no assert but that of report_realloc; the scenario
\* never changes.
LEMMA ProgramFails ==
  ASSUME Program PROVE opt' = opt /\ failed' \in {failed, failed \cup {"report.c:228"}}
  <1>1. PICK t \in Threads :
          \/ \E fn \in Calls, a \in Addrs \cup {0}, n \in Addrs \cup {0} : Enter(t, fn, a, n)
          \/ ExecAlloc(t) \/ ExecFree(t) \/ ExecUnmap(t) \/ ExecFail(t) \/ Leave(t)
          \/ \E q \in Procs : ExecFork(t, q)
          \/ LeaveFork(t)
          \/ \E c \in heap[Owner[t]] : Lose(Owner[t], c)
          \/ Exit(Owner[t])
    BY DEF Program
  <1>2. CASE \E fn \in Calls, a \in Addrs \cup {0}, n \in Addrs \cup {0} : Enter(t, fn, a, n)
    BY <1>2 DEF Enter
  <1>3. CASE \E H, r : Returns(t, H, r)
    BY <1>3 DEF Returns
  <1>4. CASE ExecAlloc(t) \/ ExecFree(t) \/ ExecUnmap(t) \/ ExecFail(t)
    BY <1>3, <1>4 DEF ExecAlloc, ExecFree, ExecUnmap, ExecFail
  <1>5. CASE (\E q \in Procs : ExecFork(t, q)) \/ Leave(t) \/ LeaveFork(t)
    BY <1>5 DEF ExecFork, Leave, LeaveFork
  <1>6. CASE (\E c \in heap[Owner[t]] : Lose(Owner[t], c)) \/ Exit(Owner[t])
    BY <1>6 DEF Lose, Exit
  <1> QED BY <1>1, <1>2, <1>4, <1>5, <1>6

LEMMA OptKept == ASSUME [Next]_vars PROVE opt' = opt
  <1>1. CASE Client
    BY <1>1 DEF Client, Ignore, HandleAlloc, HandleFree, HandleDone, HandleMunmap, HandleFork, HandleExit,
                HandleScan, HandleClose
  <1>2. CASE User
    BY <1>2 DEF User, do_reset, do_stop, do_start, do_scan
  <1>3. CASE Server
    BY <1>3 DEF Server, CommandNoTask, start_trace, stop_trace, scan
  <1> QED BY <1>1, <1>2, <1>3, ProgramFails DEF Next, Ended, vars

\* Every step keeps the line.
LEMMA NextMirrored == ASSUME IInv, CInv, MInv, [Next]_vars PROVE MInv'
  <1>1. opt' = opt
    BY OptKept
  <1> SUFFICES ASSUME Faithful, Mirrored PROVE Mirrored'
    BY <1>1 DEF MInv, Faithful, Ops, Single, Owner
  <1>2. CASE UNCHANGED vars
    <2>1. Still /\ UNCHANGED <<chan, proc>>
      BY <1>2 DEF vars, Still
    <2> QED BY <2>1, AllStill
  <1>3. CASE Program
    BY <1>3, ProgramMirrored
  <1>4. CASE Client
    BY <1>4, IgnoreMirrored, HandleAllocMirrored, HandleFreeMirrored, HandleDoneMirrored, HandleMunmapMirrored,
       HandleForkMirrored, HandleExitMirrored, HandleScanMirrored, HandleCloseMirrored DEF Client
  <1>5. CASE User
    BY <1>5, UserMirrored
  <1>6. CASE Server
    BY <1>6, ServerMirrored
  <1> QED BY <1>2, <1>3, <1>4, <1>5, <1>6 DEF Next, Ended

\* MInv is an invariant: the messages on the connection always lead from what the
\* client knows to what the program has.
THEOREM MirrorInvariant == Spec => []MInv
  <1>1. Init => MInv
    BY InitMirrored DEF MInv
  <1>2. IInv /\ CInv /\ MInv /\ [Next]_vars => MInv'
    BY NextMirrored
  <1> QED BY <1>1, <1>2, Invariance, CountsInvariant, PTL DEF Spec

\* When every message has arrived the first table is the last.
LEMMA QuietTable ==
  ASSUME IInv, Mirrored, NEW p \in Procs, Quiet(p)
  PROVE  \E T \in Table : /\ Agrees(proc[p], T) /\ T.blocks \subseteq Items
                          /\ \A x : x \in T.blocks <=> \E k \in heap[p] : x = Shape(k)
  <1>1. PICK F, L : Linked(F, L)
    BY DEF Mirrored
  <1>2. /\ alive[p] /\ chan = <<>> /\ (\A t \in ThreadsOf(p) : call[t] = NoCall)
        /\ chan \in Seq(Sendable) /\ heap[p] \in SUBSET Chunk
    BY DEF Quiet, IInv, ChanOK, ProgramOK
  <1>3. F = L /\ F[p] \in Table
    <2>1. Line(opt.interactive, chan, F, L)
      BY <1>1 DEF Linked
    <2>2. F \in Tables /\ (chan = <<>> => F = L)
      BY <1>2, <2>1, LineEnds
    <2> QED BY <1>2, <2>2 DEF Tables
  <1>4. Mask(NoCall) = 0 /\ ~Unmaps(NoCall)
    BY NoCallIs, MaskIs DEF Unmaps, NoCall
  <1>5. \A u \in ThreadsOf(p) : Mask(call[u]) = 0 /\ ~Unmaps(call[u])
    BY <1>2, <1>4
  <1>6. \A x : Shown(x, heap[p], call, ThreadsOf(p)) <=> \E k \in heap[p] : x = Shape(k)
    BY <1>2, <1>5, IdleShown
  <1>7. Agrees(proc[p], F[p]) /\ Ahead(F[p], heap[p], call, in_realloc, ThreadsOf(p))
    BY <1>1, <1>2, <1>3 DEF Linked
  <1> QED BY <1>3, <1>6, <1>7 DEF Ahead, Table

\* What the client knows and what the program has.
LEMMA QuietBlocks ==
  ASSUME IInv, Mirrored, NEW p \in Procs, Quiet(p)
  PROVE  Known(p) \subseteq Real(p) /\ (~proc[p].attached => Real(p) \subseteq Known(p))
  <1>1. PICK T \in Table : /\ Agrees(proc[p], T) /\ T.blocks \subseteq Items
                           /\ \A x : x \in T.blocks <=> \E k \in heap[p] : x = Shape(k)
    BY QuietTable
  <1>2. \A k \in heap[p] : Shape(k).addr = k.addr /\ Shape(k).size = k.size
    BY ChunkIs DEF IInv, ProgramOK
  <1>3. \A b \in proc[p].blocks : ItemOf(b).addr = b.addr /\ ItemOf(b).size = b.size
    BY BlockIs DEF IInv, ClientOK
  <1>4. ASSUME NEW b \in proc[p].blocks PROVE \E k \in heap[p] : k.addr = b.addr /\ k.size = b.size
    <2>1. ItemOf(b) \in T.blocks
      BY <1>1 DEF Agrees, BlocksAgree
    <2>2. PICK k \in heap[p] : ItemOf(b) = Shape(k)
      BY <1>1, <2>1
    <2> QED BY <1>2, <1>3, <2>2
  <1>5. ASSUME ~proc[p].attached, NEW k \in heap[p] PROVE \E b \in proc[p].blocks : k.addr = b.addr /\ k.size = b.size
    <2>1. Shape(k) \in T.blocks
      BY <1>1
    <2>2. PICK b \in proc[p].blocks : ItemOf(b) = Shape(k)
      BY <1>1, <1>5, <2>1 DEF Agrees, BlocksAgree
    <2> QED BY <1>2, <1>3, <2>2
  <1> QED BY <1>4, <1>5 DEF Known, Real

\* Mirror: whatever the interleaving of the threads, the tracer, the connection
\* and the client, once every message of a process has arrived its blocks are
\* exactly the open allocations of the program (README.md:46): through reallocs
\* that succeed or fail, partial unmappings, forks, exits and scans.
THEOREM MirrorRight == Spec => [](Faithful => Mirror)
  <1>1. IInv /\ MInv => (Faithful => Mirror)
    <2> SUFFICES ASSUME IInv, Mirrored PROVE Mirror
      BY DEF MInv
    <2> SUFFICES ASSUME NEW p \in Procs, Quiet(p), ~proc[p].attached PROVE Known(p) = Real(p)
      BY DEF Mirror
    <2> QED BY QuietBlocks
  <1> QED BY <1>1, Invariance, MirrorInvariant, PTL

\* NoGhosts: after a reset or a start, with frees and reallocs of forgotten blocks
\* still on their way, the client knows no block that the program does not have.
THEOREM NoGhostsRight == Spec => [](Faithful => NoGhosts)
  <1>1. IInv /\ MInv => (Faithful => NoGhosts)
    <2> SUFFICES ASSUME IInv, Mirrored PROVE NoGhosts
      BY DEF MInv
    <2> QED BY QuietBlocks DEF NoGhosts
  <1> QED BY <1>1, Invariance, MirrorInvariant, PTL

\* NoFalseCharge: at no moment has process_free entered a call stack of a free
\* that it takes for a mismatched or a bad one.
THEOREM NoFalseChargeRight == Spec => [](Faithful => NoFalseCharge)
  <1>1. MInv => (Faithful => NoFalseCharge)
    BY DEF MInv, Mirrored, Linked, Agrees, NoFalseCharge
  <1> QED BY <1>1, MirrorInvariant, PTL

\* The assert of stack_add has not failed.
SInv == Faithful => "process.c:503" \notin failed

\* process_alloc: the call stack of a realloc is not in the tree as that of an
\* entry.
LEMMA HandleAllocStacked == ASSUME IInv, NoFalseCharge, HandleAlloc PROVE failed' = failed
  <1> DEFINE m == Head(chan)
             P == proc[m.pid]
  <1>1. m.pid \in Procs /\ m.op \in {"malloc", "realloc", "mmap"}
    BY Received, MessageFields DEF IInv, HandleAlloc, Receive
  <1>2. P.nodes["enter"].refcnt = 0
    BY <1>1 DEF NoFalseCharge
  <1>3. ~StackClash(P, m.op)
    BY <1>1, <1>2 DEF StackClash
  <1> QED BY <1>3 DEF HandleAlloc, StackCheck

\* process_free: a free that enters its call stack is a false charge.
LEMMA HandleFreeStacked == ASSUME IInv, NoFalseCharge, NoFalseCharge', HandleFree PROVE failed' = failed
  <1> DEFINE m == Head(chan)
             p == m.pid
             P == proc[p]
             op == m.op
             tid == IF op = "enter" THEN m.tid ELSE 0
             c == ChargedTo(op)
  <1>1. p \in Procs /\ (op = "enter" => tid \in Threads)
    BY Received, MessageFields DEF IInv, HandleFree, Receive
  <1>2. Sound(P) /\ proc \in [Procs -> Process]
    BY <1>1 DEF IInv, ClientOK
  <1>3. \/ \E b \in rb_search(P, m.addr) :
               Update(p, free_block(P, b, op, tid)) /\ (Mismatched(b) \/ failed' = failed)
        \/ Update(p, free_unknown(P, op, tid)) /\ (Badfree(P) \/ failed' = failed)
    BY DEF HandleFree
  <1> HIDE DEF tid, op, P, p, m
  <1>4. c \in {"free", "enter"}
    BY ChargedStack
  <1> HIDE DEF c
  <1>5. P.nodes[c].refcnt = 0
    BY <1>1, <1>4 DEF NoFalseCharge, P
  <1>6. ASSUME NEW Q, Update(p, Q) PROVE Q.nodes[c].refcnt = 0
    <2>1. proc'[p] = Q
      BY <1>1, <1>2, <1>6 DEF Update
    <2> QED BY <1>1, <1>4, <2>1 DEF NoFalseCharge
  <1>7. ASSUME NEW b \in rb_search(P, m.addr), Update(p, free_block(P, b, op, tid)), Mismatched(b) PROVE FALSE
    <2>1. b \in P.blocks
      BY <1>7 DEF rb_search
    <2>2. P.nodes[b.stack].refcnt # 0
      BY <1>2, <2>1, NodeOfBlock
    <2>3. b.stack \notin {"free", "enter"}
      BY <1>1, <2>2 DEF NoFalseCharge, P
    <2>4. free_block(P, b, op, tid).nodes[c].refcnt # 0
      BY <1>1, <1>2, <1>5, <1>7, <2>1, <2>3, FreeCharges DEF c
    <2> QED BY <1>6, <1>7, <2>4
  <1>8. ASSUME Update(p, free_unknown(P, op, tid)), Badfree(P) PROVE FALSE
    <2>1. free_unknown(P, op, tid).nodes[c].refcnt # 0
      BY <1>2, <1>5, <1>8, UnknownCharges DEF c
    <2> QED BY <1>6, <1>8, <2>1
  <1> QED BY <1>3, <1>7, <1>8

\* Nothing else comes to stack_add.
LEMMA NextStacked ==
  ASSUME IInv, NoFalseCharge, NoFalseCharge', [Next]_vars, "process.c:503" \notin failed
  PROVE  "process.c:503" \notin failed'
  <1>1. CASE Program
    BY <1>1, ProgramFails
  <1>2. CASE Client
    <2>1. CASE Ignore \/ HandleDone \/ HandleMunmap \/ HandleScan \/ HandleClose
      BY <2>1 DEF Ignore, HandleDone, HandleMunmap, HandleScan, HandleClose
    <2>2. CASE HandleFork
      <3>1. failed' \subseteq failed \cup {"process_reset", "process.c:910", "process.c:911"}
        BY <2>2 DEF HandleFork
      <3> QED BY <3>1
    <2>3. CASE HandleExit
      <3>1. failed' \subseteq failed \cup {"process_reset"}
        BY <2>3 DEF HandleExit
      <3> QED BY <3>1
    <2> QED BY <1>2, <2>1, <2>2, <2>3, HandleAllocStacked, HandleFreeStacked DEF Client
  <1>3. CASE User
    <2>1. ASSUME NEW p \in Procs, do_reset(p) \/ do_start(p) PROVE failed' \subseteq failed \cup {"reset_allocations"}
      BY <2>1 DEF do_reset, do_start, ResetCheck
    <2>2. ASSUME NEW p \in Procs, NEW mode, do_stop(p) \/ do_scan(p, mode) PROVE failed' = failed
      BY <2>2 DEF do_stop, do_scan
    <2> QED BY <1>3, <2>1, <2>2 DEF User
  <1>4. CASE Server
    BY <1>4 DEF Server, CommandNoTask, start_trace, stop_trace, scan
  <1> QED BY <1>1, <1>2, <1>3, <1>4 DEF Next, Ended, vars

\* AssertsHold: no assert and no fatal() of the reports, of process_duplicate, of
\* process_reset or of stack_add is reached.  The conditions beyond Faithful are
\* needed: a fork compares the bytes of the blocks with a counter that a failed
\* realloc (process.c:1520) and a block too large for an unsigned int
\* (process.c:636) leave wrong.
THEOREM AssertsRight ==
  Spec => [](Faithful /\ ("fork" \in Ops => Succeeding /\ Narrow) => AssertsHold)
  <1>1. Init => SInv
    BY DEF Init, SInv
  <1>2. MInv => (Faithful => NoFalseCharge)
    BY DEF MInv, Mirrored, Linked, Agrees, NoFalseCharge
  <1>3. IInv /\ MInv /\ MInv' /\ SInv /\ [Next]_vars => SInv'
    <2> SUFFICES ASSUME IInv, MInv, MInv', SInv, [Next]_vars, Faithful' PROVE "process.c:503" \notin failed'
      BY DEF SInv
    <2>1. Faithful
      BY OptKept DEF Faithful, Ops, Single, Owner
    <2>2. NoFalseCharge /\ NoFalseCharge'
      BY <1>2, <2>1 DEF MInv, Mirrored, Linked, Agrees, NoFalseCharge
    <2> QED BY <2>1, <2>2, NextStacked DEF SInv
  <1>4. CInv /\ SInv => (Faithful /\ ("fork" \in Ops => Succeeding /\ Narrow) => AssertsHold)
    BY DEF CInv, SInv, Asserted, Tracked, Faithful, AssertsHold
  <1> QED BY <1>1, <1>3, <1>4, Invariance, CountsInvariant, MirrorInvariant, PTL DEF Spec

\* ScanSound: the answer to a scan, however late it comes and whatever was freed
\* and allocated again in between, marks no block that the program has not lost.
THEOREM ScanRight == Spec => [](Faithful /\ Scannable => ScanSound)
  <1>1. IInv /\ MInv => (Faithful /\ Scannable => ScanSound)
    <2> SUFFICES ASSUME IInv, Mirrored, Scannable, NEW p \in Procs, NEW b \in Leaked(proc[p].blocks)
                 PROVE  \E c \in heap[p] : c.addr = b.addr /\ c.lost
      BY DEF MInv, ScanSound
    <2>1. PICK F, L : Linked(F, L)
      BY DEF Mirrored
    <2>2. F[p].leaked \subseteq L[p].leaked
      BY <2>1, LineEnds DEF Linked, IInv, ChanOK
    <2>3. b.addr \in F[p].leaked
      BY <2>1 DEF Linked, Agrees, BlocksAgree, Leaked
    <2>4. b.addr \in Lost(heap[p])
      BY <2>1, <2>2, <2>3 DEF Linked
    <2> QED BY <2>4 DEF Lost
  <1> QED BY <1>1, Invariance, MirrorInvariant, PTL
=============================================================================
