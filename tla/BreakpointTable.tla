-------------------------- MODULE BreakpointTable ---------------------------
(***************************************************************************)
(* The breakpoints of one traced process (breakpoint.c, the symbols of     *)
(* library.c, the debug registers of x86/arch.c) as functions of its       *)
(* state.  Module Breakpoints puts them to work.                           *)
(*                                                                         *)
(* G is a process: task (its tasks by id), mem (the breakpoints that are   *)
(* allocated), dict (leader->breakpoints), hw_bp_list with hw_bp_num as    *)
(* its length, text (what is in memory at each address), libs              *)
(* (libraries_list), and failed: an assert did not hold, or a pointer to   *)
(* freed memory was followed.                                              *)
(*                                                                         *)
(* A breakpoint is named <<address, generation>>: a new one at an address  *)
(* gets a generation no pointer refers to, so that a dangling pointer      *)
(* shows.  The union of orig_value and hw_bp_slot is the field u: a slot,  *)
(* or what was in the text.  was_hw and count are written only.            *)
(***************************************************************************)
EXTENDS Naturals, Sequences, FiniteSets, Functions, SequencesExt, TLC

CONSTANTS Funcs,           \* addresses of the traced functions
          LibOf,           \* the library of each of them
          MainLib,         \* the library that is never unloaded
          Ret, Brk, Entry, \* a return address, r_brk of the loader, the entry point
          HwBreakpoints,   \* HW_BREAKPOINTS: 4 on x86
          Threshold,       \* BP_REORDER_THRESHOLD
          NULL

ASSUME TableAssumption ==
  /\ IsFiniteSet(Funcs) /\ LibOf \in [Funcs -> STRING]
  /\ Cardinality({Ret, Brk, Entry}) = 3 /\ {Ret, Brk, Entry} \cap Funcs = {}
  /\ HwBreakpoints \in Nat \ {0, 1} /\ Threshold \in Nat \ {0}

Addrs == Funcs \cup {Ret, Brk, Entry}
Slots == 0..(HwBreakpoints - 1)
HW_BP_SCRATCH_SLOT == 0

BP_SW == 0
BP_HW_SCRATCH == 1
BP_HW == 2
BP_AUTO == 3

\* The asserts of the code.
Check(G, c) == IF c THEN G ELSE [G EXCEPT !.failed = TRUE]

\* A byte of the text: the program's, the breakpoint's, or none that is mapped.
ORIG == 85
INT3 == 204
NOTEXT == 256

Tasks(G) == DOMAIN G.task
Leader(G) == G.task[G.leader]

-----------------------------------------------------------------------------
(* x86/arch.c: what ptrace wrote to a task's debug registers (dr, dr7) and *)
(* the tracer's copy of it (arch), which saves system calls.  dr7 is the   *)
(* set of the slots that are enabled.                                      *)

apply_hw_bp(k, s) ==
  IF k.arch.dr7 = s THEN k ELSE [k EXCEPT !.arch.dr7 = s, !.dr7 = s]

set_breakpoint_addr(k, a, i) ==
  IF k.arch.hw_bp[i] = a THEN k ELSE [k EXCEPT !.arch.hw_bp[i] = a, !.dr[i] = a]

set_hw_bp(k, i, a) ==
  apply_hw_bp(set_breakpoint_addr(k, a, i), k.arch.dr7 \cup {i})

reset_hw_bp(k, i) == apply_hw_bp(k, k.arch.dr7 \ {i})

\* arch_task_init.  The addresses in the registers stay, but are not used.
arch_task_init(k) ==
  [k EXCEPT !.arch.hw_bp = [i \in Slots |-> NULL], !.arch.dr7 = {}, !.dr7 = {}]

\* breakpoint_hw_destroy, and arch_task_destroy, which does the same to dr7.
breakpoint_hw_destroy(k) == [apply_hw_bp(k, {}) EXCEPT !.hw_bp = [i \in Slots |-> NULL]]

-----------------------------------------------------------------------------
(* Software breakpoints.  A write to memory that is not mapped fails, and  *)
(* the failure is ignored.                                                 *)

Poke(G, a, v) == IF G.text[a] = NOTEXT THEN G ELSE [G EXCEPT !.text[a] = v]

enable_sw_breakpoint(G, b) ==
  LET bp == G.mem[b]
  IN [Poke(Check(G, ~bp.sw /\ ~bp.hw), b[1], INT3)
        EXCEPT !.mem[b] = [bp EXCEPT !.u = G.text[b[1]], !.break_insn = (G.text[b[1]] = INT3),
                                     !.sw = TRUE, !.enabled = TRUE]]

\* Mutant: the text is not restored.
DisableSwKeepsText(G, b) ==
  [Check(G, G.mem[b].sw /\ ~G.mem[b].hw)
     EXCEPT !.mem[b].sw = FALSE, !.mem[b].enabled = FALSE]

disable_sw_breakpoint(G, b) ==
  LET bp == G.mem[b]
  IN [Poke(Check(G, bp.sw /\ ~bp.hw), b[1], bp.u)
        EXCEPT !.mem[b] = [bp EXCEPT !.sw = FALSE, !.enabled = FALSE, !.u = 0]]

-----------------------------------------------------------------------------
(* Hardware breakpoints: in the same slot of each task in T.               *)

enable_hw_bp(G, T, b) ==
  LET bp == G.mem[b]
  IN [Check(G, /\ bp.type # BP_SW /\ ~bp.sw
               /\ bp.type < BP_HW \/ \A t \in T : G.task[t].hw_bp[bp.u] = NULL)
        EXCEPT !.task = [t \in Tasks(G) |->
          IF t \in T THEN set_hw_bp([@[t] EXCEPT !.hw_bp[bp.u] = b], bp.u, b[1]) ELSE @[t]]]

disable_hw_bp(G, T, b) ==
  LET bp == G.mem[b]
      set == {t \in T : G.task[t].hw_bp[bp.u] # NULL}
  IN [Check(G, ~bp.sw /\ \A t \in set : G.task[t].hw_bp[bp.u] = b)
        EXCEPT !.task = [t \in Tasks(G) |->
          IF t \in set THEN reset_hw_bp([@[t] EXCEPT !.hw_bp[bp.u] = NULL], bp.u) ELSE @[t]]]

hw2sw_bp(G, b) ==
  enable_sw_breakpoint([disable_hw_bp(G, Tasks(G), b) EXCEPT !.mem[b].hw = FALSE], b)

\* The common end of reorder_hw_bp and insert_hw_bp_slot: b takes slot i.
TakeSlot(G, b, i) ==
  enable_hw_bp([G EXCEPT !.mem[b].enabled = TRUE, !.mem[b].u = i, !.mem[b].hw = TRUE],
               Tasks(G), b)

\* insert_hw_bp_slot; ok says that there was a slot.
insert_hw_bp_slot(G, b) ==
  LET at(i) == Leader(G).hw_bp[i]
      usable == {i \in Slots \ {HW_BP_SCRATCH_SLOT} :
                   \/ at(i) = NULL
                   \/ G.mem[b].type = BP_HW /\ G.mem[at(i)].type = BP_AUTO}
  IN IF usable = {} THEN [ok |-> FALSE, G |-> G]
     ELSE LET i == Min(usable)
              H == IF at(i) = NULL THEN G ELSE hw2sw_bp(G, at(i))
          IN [ok |-> TRUE, G |-> TakeSlot([H EXCEPT !.mem[b].hwcnt = 0], b, i)]

\* hw_bp_sort: p comes before q.  Of equals qsort may put either first.
hw_bp_sort(p, q) ==
  IF p.type # q.type THEN p.type = BP_HW ELSE p.hwcnt > q.hwcnt

\* The enabled breakpoints of the list in an order that qsort may return.
Orders(G) ==
  LET on == {b \in ToSet(G.hw_bp_list) : G.mem[b].enabled}
  IN {s \in SetToSeqs(on) : \A i, j \in 1..Len(s) :
        i < j => ~hw_bp_sort(G.mem[s[j]], G.mem[s[i]])}

ResetHwcnt(G, s) ==
  [G EXCEPT !.mem = [b \in DOMAIN @ |->
     IF b \in ToSet(s) THEN [@[b] EXCEPT !.hwcnt = 0] ELSE @[b]]]

\* Mutant: the breakpoint in the slot is turned into a software breakpoint
\* only after its slot was overwritten.
SwapLate(G, b, i) ==
  LET old == Leader(G).hw_bp[i]
      H == TakeSlot(disable_sw_breakpoint(G, b), b, i)
  IN IF old = NULL THEN H ELSE hw2sw_bp(H, old)

\* One turn of the last loop of reorder_hw_bp.
SwapIn(G, b, i) ==
  LET H == disable_sw_breakpoint(G, b)
      old == Leader(G).hw_bp[i]
  IN TakeSlot(IF old = NULL THEN H ELSE hw2sw_bp(H, old), b, i)

-----------------------------------------------------------------------------
(* References, and stopping the process.                                   *)

breakpoint_get(G, b) == [G EXCEPT !.mem[b].refcnt = @ + 1]

\* Mutant: nothing is freed.
PutLeaks(G, b) == [G EXCEPT !.mem[b].refcnt = @ - 1]

\* breakpoint_put: the last one frees it.
breakpoint_put(G, b) ==
  IF b \notin DOMAIN G.mem THEN Check(G, FALSE)
  ELSE IF G.mem[b].refcnt > 1 THEN [G EXCEPT !.mem[b].refcnt = @ - 1]
  ELSE [Check(G, G.mem[b].refcnt = 1 /\ ~G.mem[b].enabled)
          EXCEPT !.mem = Restrict(@, DOMAIN @ \ {b})]

\* No address of the model is 0, for which the code returns NULL at once.
breakpoint_find(G, a) == G.dict[a]

\* process_event: the task stopped at a debug register (mode hw), behind an
\* int3 (mode sw), or for another signal.
process_event(G, t) ==
  LET k == G.task[t]
      hw == {i \in Slots : k.hw_bp[i] # NULL /\ k.hw_bp[i][1] = k.at /\ k.mode = "hw"}
      H == [G EXCEPT !.task[t].mode = "stop"]
      hit(b) ==
        IF b = NULL \/ b \notin DOMAIN G.mem THEN Check(H, FALSE)
        ELSE breakpoint_get(
               [Check(H, /\ G.mem[b].enabled
                         /\ IF hw # {} THEN G.mem[b].type # BP_SW /\ G.mem[b].u = Min(hw)
                            ELSE G.mem[b].type # BP_HW_SCRATCH /\ ~G.mem[b].hw)
                  EXCEPT !.task[t].ev = b, !.task[t].rf = (k.mode = "hw")], b)
  IN IF k.mode \in {"run", "event"} THEN H
     ELSE hit(IF hw # {} THEN k.hw_bp[Min(hw)] ELSE breakpoint_find(G, k.at))

\* Mutant: a task that has trapped is not waited for.
StopRunning(G) ==
  [G EXCEPT !.task = [t \in Tasks(G) |->
     IF @[t].mode = "run" THEN [@[t] EXCEPT !.mode = "stop"] ELSE @[t]]]

\* stop_threads: every task of the process is stopped when it returns; the
\* events it met are queued.
stop_threads(G) ==
  FoldSet(LAMBDA t, H : process_event(H, t), G, {t \in Tasks(G) : G.task[t].mode # "stop"})

\* reorder_hw_bp, with s in Orders(G): the breakpoints that are hit most get
\* the slots.
reorder_hw_bp(G, s) ==
  LET best == SubSeq(s, 1, Min({Len(s), HwBreakpoints - 1}))
      stay == SelectSeq(best, LAMBDA b : G.mem[b].hw)
      move == SelectSeq(best, LAMBDA b : ~G.mem[b].hw)
      taken == {G.mem[b].u : b \in ToSet(stay)}
      free == SetToSortSeq(Slots \ ({HW_BP_SCRATCH_SLOT} \cup taken), <)
      H == Check(ResetHwcnt(G, s),
                 /\ HW_BP_SCRATCH_SLOT \notin taken /\ Cardinality(taken) = Len(stay))
  IN IF Len(s) < HwBreakpoints - 1 \/ move = <<>> THEN ResetHwcnt(G, s)
     ELSE FoldLeft(LAMBDA K, i : SwapIn(K, move[i], free[i]), stop_threads(H),
                   [i \in 1..Len(move) |-> i])

-----------------------------------------------------------------------------
(* The operations on a breakpoint.                                         *)

enable_scratch_hw_bp(G, t, b) ==
  IF G.mem[b].deleted \/ G.mem[b].type # BP_HW_SCRATCH THEN G
  ELSE LET H == Check(G, G.mem[b].hw /\ G.mem[b].u = HW_BP_SCRATCH_SLOT)
       IN IF G.task[t].hw_bp[HW_BP_SCRATCH_SLOT] # b THEN enable_hw_bp(H, {t}, b) ELSE H

disable_scratch_hw_bp(G, t, b) ==
  IF G.mem[b].deleted \/ G.mem[b].type # BP_HW_SCRATCH THEN G
  ELSE disable_hw_bp(Check(G, G.mem[b].hw /\ G.mem[b].u = HW_BP_SCRATCH_SLOT), {t}, b)

\* The pointers to breakpoints that tasks hold, and the reference counts know of.
Counted(k) == {k.ev, k.skip_bp}
Pointers(G) ==
  UNION {Counted(k) \cup {k.breakpoint} \cup {k.hw_bp[i] : i \in Slots} :
           k \in {G.task[t] : t \in Tasks(G)}} \ {NULL}

Fresh(G, a) ==
  LET used == DOMAIN G.mem \cup Pointers(G)
  IN <<a, Min({g \in 0..Cardinality(used) : <<a, g>> \notin used})>>

\* breakpoint_new_ext; with options.nohwbp all are software breakpoints.
breakpoint_new(G, b, libsym, bp_type) ==
  LET type == IF G.nohwbp THEN BP_SW ELSE bp_type
      bp == [type |-> type, enabled |-> FALSE, locked |-> FALSE, deleted |-> FALSE,
             sw |-> FALSE, hw |-> type = BP_HW_SCRATCH, u |-> 0, refcnt |-> 1, hwcnt |-> 0,
             break_insn |-> FALSE, libsym |-> libsym, on_hit |-> "none"]
  IN [G EXCEPT !.mem = (b :> bp) @@ @, !.dict[b[1]] = b,
               !.hw_bp_list = IF type >= BP_HW THEN Append(@, b) ELSE @]

breakpoint_enable(G, b) ==
  IF G.mem[b].deleted \/ G.mem[b].enabled THEN G
  ELSE IF G.mem[b].type = BP_HW_SCRATCH THEN [G EXCEPT !.mem[b].enabled = TRUE]
  ELSE LET slot(H) == IF H.mem[b].type >= BP_HW THEN insert_hw_bp_slot(H, b)
                      ELSE [ok |-> FALSE, G |-> H]
           arm(r) == IF r.ok THEN r.G ELSE enable_sw_breakpoint([r.G EXCEPT !.mem[b].hw = FALSE], b)
       IN arm(slot(stop_threads(G)))

\* breakpoint_disable.  A breakpoint for a return is in slot 0 of some tasks.
breakpoint_disable(G, b) ==
  LET scratch == G.mem[b].type = BP_HW_SCRATCH
      T(H) == IF scratch THEN {t \in Tasks(H) : H.task[t].hw_bp[HW_BP_SCRATCH_SLOT] = b}
              ELSE Tasks(H)
      off(H) ==
        IF ~H.mem[b].hw THEN disable_sw_breakpoint(H, b)
        ELSE [disable_hw_bp(Check(H, (H.mem[b].u = HW_BP_SCRATCH_SLOT) = scratch), T(H), b)
                EXCEPT !.mem[b].hw = scratch, !.mem[b].enabled = FALSE]
  IN IF G.mem[b].deleted \/ ~G.mem[b].enabled THEN G ELSE off(stop_threads(G))

\* breakpoint_insert; the caller finds the breakpoint in dict afterwards.
breakpoint_insert(G, a, libsym, type) ==
  LET on(H) == breakpoint_enable(H, H.dict[a])
  IN on(IF breakpoint_find(G, a) # NULL THEN G ELSE breakpoint_new(G, Fresh(G, a), libsym, type))

\* Mutant: the breakpoint is freed at once.
DeleteFrees(G, b) ==
  LET H == breakpoint_disable(G, b)
  IN [H EXCEPT !.hw_bp_list = Remove(@, b), !.dict[b[1]] = NULL,
               !.mem = Restrict(@, DOMAIN @ \ {b})]

breakpoint_delete(G, b) ==
  LET hw == G.mem[b].type >= BP_HW
  IN IF G.mem[b].deleted THEN G
     ELSE breakpoint_put([breakpoint_disable(G, b)
                            EXCEPT !.hw_bp_list = IF hw THEN Remove(@, b) ELSE @,
                                   !.dict[b[1]] = NULL, !.mem[b].deleted = TRUE,
                                   !.mem[b].libsym = FALSE], b)

-----------------------------------------------------------------------------
(* All breakpoints of a process: dict_apply_to_all.                        *)

InDict(G) == {G.dict[a] : a \in Addrs} \ {NULL}
Apply(op(_, _), G, B) == FoldSet(LAMBDA b, H : op(H, b), G, B)
NonLocked(G) == {b \in InDict(G) : ~G.mem[b].locked}

breakpoint_enable_all_nonlocked(G) == Apply(breakpoint_enable, G, NonLocked(G))
breakpoint_disable_all_nonlocked(G) == Apply(breakpoint_disable, G, NonLocked(G))
breakpoint_disable_all(G) == Apply(breakpoint_disable, G, InDict(G))

breakpoint_invalidate_all(G) ==
  [G EXCEPT !.mem = [b \in DOMAIN @ |->
     IF b \in InDict(G) THEN [@[b] EXCEPT !.enabled = FALSE, !.sw = FALSE, !.hw = FALSE]
     ELSE @[b]]]

breakpoint_clear_all(G) ==
  LET cleared(H) == Check(H, H.hw_bp_list = <<>>)
  IN cleared(Apply(breakpoint_delete, G, InDict(G)))

\* clone_single_cb for each breakpoint of G: the breakpoints of a forked child
\* N.  break_insn is not copied: junk is what malloc left there.
breakpoint_clone_all(G, N, junk) ==
  LET copied == {b \in InDict(G) : ~(G.mem[b].type = BP_HW_SCRATCH /\ G.mem[b].hw)}
      slots == {b \in copied : G.mem[b].hw}
      bp(b) == [G.mem[b] EXCEPT !.refcnt = 1, !.hwcnt = 0, !.break_insn = junk]
      arm(k, b) == LET j == [k EXCEPT !.hw_bp[G.mem[b].u] = b]
                   IN IF G.mem[b].enabled THEN set_hw_bp(j, G.mem[b].u, b[1]) ELSE j
  IN [Check(N, \A b \in slots : G.mem[b].u # HW_BP_SCRATCH_SLOT)
        EXCEPT !.mem = [b \in copied |-> bp(b)],
               !.dict = [a \in Addrs |-> IF G.dict[a] \in copied THEN G.dict[a] ELSE NULL],
               !.hw_bp_list = SelectSeq(G.hw_bp_list, LAMBDA b : b \in copied),
               !.task[N.leader] = FoldSet(LAMBDA b, k : arm(k, b), @, slots)]

\* breakpoint_hw_clone: a new thread gets the breakpoints of its leader.
breakpoint_hw_clone(G, t) ==
  LET lead(i) == Leader(G).hw_bp[i]
      set == {i \in Slots \ {HW_BP_SCRATCH_SLOT} : lead(i) # NULL}
  IN FoldSet(LAMBDA i, H : enable_hw_bp(H, {t}, lead(i)),
             Check(G, /\ \A i \in Slots \ set : i # HW_BP_SCRATCH_SLOT => G.task[t].hw_bp[i] = NULL
                      /\ \A i \in set : G.mem[lead(i)].enabled /\ G.mem[lead(i)].u = i), set)

-----------------------------------------------------------------------------
(* library.c: the breakpoints at the symbols of a library.                 *)

Symbols(lib) == {f \in Funcs : LibOf[f] = lib}

\* cb_breakpoint_for_symbol
cb_breakpoint_for_symbol(G, f, connected) ==
  LET b == breakpoint_find(G, f)
      n == Fresh(G, f)
      H == breakpoint_new(G, n, TRUE, BP_AUTO)
  IN IF b # NULL
     THEN [Check(G, ~G.mem[b].libsym) EXCEPT !.mem[b].libsym = TRUE]
     ELSE IF connected THEN breakpoint_enable(H, n) ELSE H

\* library_add, called for task t.
library_add(G, t, lib, connected) ==
  FoldSet(LAMBDA f, H : cb_breakpoint_for_symbol(H, f, connected),
          [Check(G, t = G.leader) EXCEPT !.libs = @ \cup {lib}], Symbols(lib))

\* library_delete
library_delete(G, lib) ==
  [Apply(breakpoint_delete, G, {G.dict[f] : f \in Symbols(lib)} \ {NULL})
     EXCEPT !.libs = @ \ {lib}]

library_clear_all(G) == FoldSet(LAMBDA lib, H : library_delete(H, lib), G, G.libs)
=============================================================================
