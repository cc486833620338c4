------------------------------ MODULE Unwinder ------------------------------
(***************************************************************************)
(* The backtrace of an allocation (report.c, backtrace.h, dwarf.c,         *)
(* dwarf-x86.c): a traced program calls, returns, is interrupted by a      *)
(* signal; at a breakpoint of a traced function the tracer walks its stack *)
(* one frame per dwarf_step.                                               *)
(*                                                                         *)
(* The program is a set of functions with the instructions that matter for *)
(* a stack frame and, if they have unwind information, their FDE.  chain   *)
(* is what no debugger can see: the frames that really are on the stack.   *)
(***************************************************************************)
EXTENDS DwarfCfi, FiniteSets, FiniteSetsExt, TLC

CONSTANTS Programs,    \* programs with their libraries, by name
          Stack,       \* the addresses of the stack
          FrameLimit,  \* how far from the CFA a frame pointer may be
          GuessWords,  \* how much of the stack is searched for a caller
          MaxFrames    \* a program calls no deeper

VARIABLES name,        \* of the program
          regs, mem, chain,
          phase,       \* run, hit (a breakpoint), walk
          sym,         \* libsym->addr of the breakpoint
          c,           \* as->cursor
          data,        \* the backtrace of the report
          steps        \* frames walked

vars == <<name, regs, mem, chain, phase, sym, c, data, steps>>

prog == Programs[name]
task == [regs |-> regs, mem |-> mem]

-----------------------------------------------------------------------------
(* The traced program.                                                     *)

InFunction(f, a) == a \in f.lo..(f.lo + Len(f.code) - 1)
FunctionAt(a) == CHOOSE f \in prog.functions : InFunction(f, a)
InText(a) == \E f \in prog.functions : InFunction(f, a)
Instr(a) == LET f == FunctionAt(a) IN f.code[a - f.lo + 1]
Regs(ip, sp, bp) == (IP :> ip) @@ (SP :> sp) @@ (BP :> bp)
\* A frame resumes at ip; at is the instruction it is in: the call, or the interrupted one.
Frame(ip, at, sp, bp) == [ip |-> ip, at |-> at, sp |-> sp, bp |-> bp]

\* The task reached a: it stops if there is a breakpoint, left is the traced function it left.
Reached(a, left) ==
  /\ phase' = IF a \in prog.traced \/ left # NULL THEN "hit" ELSE "run"
  /\ sym' = IF left # NULL THEN left ELSE IF a \in prog.traced THEN a ELSE sym
  /\ UNCHANGED <<name, c, data, steps>>

\* What is below the stack pointer is lost.
Above(m, sp) == [a \in Stack |-> IF a < sp THEN 0 ELSE m[a]]

\* The task goes to an address with its stack pointer, its frame pointer and a word pushed or not.
Go(to, sp, bp, m) == regs' = Regs(to, sp, bp) /\ mem' = Above(m, sp)

\* One instruction; br is taken or not.
Execute ==
  LET i == Instr(regs[IP])
      ip == regs[IP]
      sp == regs[SP]
      bp == regs[BP]
      go(to, s, b) == Go(to, s, b, mem) /\ Reached(to, NULL) /\ UNCHANGED chain
      push(to, v) == Go(to, sp - 1, bp, [mem EXCEPT ![sp - 1] = v]) /\ Reached(to, NULL)
  IN /\ phase = "run"
     /\ \/ i.op = "nop" /\ go(ip + 1, sp, bp)
        \/ i.op = "push_bp" /\ push(ip + 1, bp) /\ UNCHANGED chain
        \/ i.op = "push" /\ push(ip + 1, 0) /\ UNCHANGED chain
        \/ i.op = "mov_bp" /\ go(ip + 1, sp, sp)
        \/ i.op = "sub" /\ go(ip + 1, sp - 1, bp)
        \/ i.op = "add" /\ go(ip + 1, sp + 1, bp)
        \/ i.op = "leave" /\ go(ip + 1, bp + 1, mem[bp])
        \/ i.op = "jmp" /\ go(i.to, sp, bp)
        \/ i.op = "pop_jmp" /\ go(i.to, sp + 1, bp)
        \/ i.op = "br" /\ (go(i.to, sp, bp) \/ go(ip + 1, sp, bp))
        \/ /\ i.op = "call" /\ Len(chain) < MaxFrames
           /\ push(i.to, ip + 1)
           /\ chain' = <<Frame(ip + 1, ip, sp, bp)>> \o chain
        \/ /\ i.op = "ret"
           /\ Go(mem[sp], sp + 1, bp, mem)
           /\ chain' = Tail(chain)
           /\ Reached(mem[sp], IF FunctionAt(ip).lo \in prog.traced THEN FunctionAt(ip).lo ELSE NULL)
        \/ /\ i.op = "sigreturn"
           /\ Go(mem[sp], mem[sp + 1], mem[sp + 2], mem)
           /\ Reached(mem[sp], NULL)
           /\ chain' = Tail(chain)

\* The kernel runs the handler: it returns to the trampoline, over the registers it saved.
Signal ==
  LET base == regs[SP] - 4
      saved == <<prog.trampoline, regs[IP], regs[SP], regs[BP]>>
  IN /\ phase = "run" /\ prog.handler # NULL
     /\ \A k \in DOMAIN chain : chain[k].ip # prog.trampoline
     /\ mem' = [a \in Stack |-> IF a \in base..(base + 3) THEN saved[a - base + 1] ELSE mem[a]]
     /\ chain' = <<Frame(prog.trampoline, prog.trampoline - 1, base + 1, regs[BP]),
                   Frame(regs[IP], regs[IP], regs[SP], regs[BP])>> \o chain
     /\ regs' = Regs(prog.handler, base, regs[BP])
     /\ Reached(prog.handler, NULL)

-----------------------------------------------------------------------------
(* The libraries: addr2libref, dwarf_locate_map, dwarf_search_unwind_table. *)

\* The number of a library, 0 for NULL.
InLibrary(l, a) == a \in prog.libraries[l].lo..prog.libraries[l].hi
addr2libref(a) ==
  IF \E l \in DOMAIN prog.libraries : InLibrary(l, a)
  THEN CHOOSE l \in DOMAIN prog.libraries : InLibrary(l, a) ELSE 0

\* A return address is looked up as the call before it.
dwarf_locate_map(cur, a) ==
  LET at == IF cur.use_prev_instr THEN a - 1 ELSE a
      lib == IF cur.lib # 0 /\ InLibrary(cur.lib, at) THEN cur.lib ELSE addr2libref(at)
  IN [ret |-> IF lib = 0 THEN "ENOINFO" ELSE "ok", c |-> [cur EXCEPT !.lib = lib]]

\* The cursor keeps what was read of the FDE (dci), also of one that does not cover ip.
dwarf_search_unwind_table(cur, ip) ==
  LET table == prog.libraries[cur.lib].fde_tab
      covers(fde) == ip \in fde.start_ip..(fde.start_ip + fde.ip_range - 1)
      parsed(fde, cie) ==
        [ret |-> IF cie.ret # "ok" THEN cie.ret ELSE IF covers(fde) THEN "ok" ELSE "ENOINFO",
         c |-> [cur EXCEPT !.signal_frame = cie.signal_frame],
         fde |-> IF cie.ret # "ok" THEN NULL ELSE fde]
      entry(e) == IF e = 0 THEN [ret |-> "ENOINFO", c |-> cur, fde |-> NULL]
                  ELSE parsed(table[e], parse_cie(table[e].aug))
  IN entry(lookup(table, ip))

\* Mutant: every frame is looked up at the instruction it resumes at.
FetchNoPrev(cur, ip) ==
  LET info(found) == IF found.ret # "ok" THEN found ELSE [found EXCEPT !.c.use_prev_instr = FALSE]
  IN info(dwarf_search_unwind_table(cur, ip))

fetch_proc_info(cur, ip) ==
  LET info(found) == IF found.ret # "ok" THEN found
                     ELSE [found EXCEPT !.c.use_prev_instr = ~found.c.signal_frame]
  IN info(dwarf_search_unwind_table(cur, ip))

-----------------------------------------------------------------------------
(* dwarf-x86.c: a step without unwind information.                         *)

dwarf_arch_init_unwind(cur) ==
  [cur EXCEPT !.loc = [r \in 0..(NumRegs - 1) |-> Loc("reg", r)],
              !.ip = regs[IP], !.cfa = regs[SP], !.use_prev_instr = FALSE]

\* The frame pointer, if it is a little above the CFA.
dwarf_arch_step(cur) ==
  LET unsaved == [cur EXCEPT !.loc = [r \in DOMAIN cur.loc |-> NullLoc]]
      near(bp) == bp > cur.cfa /\ bp - cur.cfa <= FrameLimit
      to(next, ip) == IF ip.ret # "ok" THEN [ret |-> ip.ret, c |-> next]
                      ELSE [ret |-> "ok", c |-> [next EXCEPT !.ip = ip.val]]
      up(bp) ==
        IF bp.ret # "ok" THEN [ret |-> bp.ret, c |-> unsaved]
        ELSE IF ~near(bp.val) THEN [ret |-> "EBADFRAME", c |-> unsaved]
        ELSE to([unsaved EXCEPT !.loc[BP] = Loc("mem", bp.val), !.loc[IP] = Loc("mem", bp.val + 1),
                                !.cfa = bp.val + 2, !.use_prev_instr = FALSE, !.ret_addr_column = IP],
                dwarf_readw(task, bp.val + 1))
  IN CASE cur.signal_frame -> [ret |-> "EBADFRAME", c |-> cur]
       [] ~cur.signal_frame /\ cur.loc[BP] = NullLoc -> [ret |-> "ok", c |-> [cur EXCEPT !.ip = 0]]
       [] OTHER -> up(dwarf_get(task, cur.loc[BP]))

\* dwarf_arch_check_call: the instruction before a is a call.
dwarf_arch_check_call(a) == InText(a - 1) /\ Instr(a - 1).op = "call"

\* GUESS_CALLER: the first word from the frame's CFA up that looks like a return address.
\* All turns of the loop read the same words.
Guess(cur, cfa, ret) ==
  LET plausible == {a \in Stack : /\ a >= cfa /\ a < cfa + GuessWords
                                  /\ dwarf_locate_map(cur, mem[a]).ret = "ok"
                                  /\ dwarf_arch_check_call(mem[a])}
      a == Min(plausible)
  IN IF plausible = {} THEN [ret |-> ret, c |-> [cur EXCEPT !.valid = FALSE]]
     ELSE [ret |-> "ok",
           c |-> [dwarf_locate_map(cur, mem[a]).c EXCEPT
                    !.cfa = a + 1, !.ip = mem[a], !.ret_addr_column = 0,
                    !.loc = [r \in DOMAIN cur.loc |-> NullLoc]]]

-----------------------------------------------------------------------------
(* dwarf_init_unwind, dwarf_step and the loop of report_alloc64.           *)

dwarf_init_unwind ==
  LET c0 == [cfa |-> 0, ip |-> 0, ret_addr_column |-> 0, use_prev_instr |-> FALSE, valid |-> TRUE,
             lib |-> 0, signal_frame |-> FALSE, loc |-> <<>>]
      c1 == dwarf_arch_init_unwind(c0)
  IN dwarf_locate_map(c1, c1.ip)

\* With unwind information: fetch_proc_info, parse_fde, apply_reg_state, dwarf_locate_map.
CfiStep(cur, ip) ==
  LET located(next) == IF next.ret # "ok" THEN next ELSE dwarf_locate_map(next.c, next.c.ip)
      apply(c1, row) == IF row.ret # "ok" THEN [ret |-> row.ret, c |-> c1]
                        ELSE located(apply_reg_state(task, c1, row.val))
      parsed(info) ==
        IF info.ret # "ok" THEN [ret |-> info.ret, c |-> info.c]
        ELSE apply([info.c EXCEPT !.ret_addr_column = info.fde.ret_addr_column],
                   parse_fde(info.fde, ip))
  IN parsed(fetch_proc_info(cur, ip))

\* If the step with unwind information fails for the lack of it, the frame pointer; then a guess.
dwarf_step(cur) ==
  LET ip == IF cur.use_prev_instr THEN cur.ip - 1 ELSE cur.ip
      arch(s) == IF s.ret # "ok" THEN s ELSE dwarf_locate_map(s.c, s.c.ip)
      cfi(s) == IF s.ret = "ok" THEN s
                ELSE LET back == [s.c EXCEPT !.ip = ip]
                     IN IF s.ret = "ENOINFO" THEN arch(dwarf_arch_step(back))
                        ELSE [ret |-> s.ret, c |-> back]
      guess(s) == IF s.ret = "ok" THEN s ELSE Guess(s.c, cur.cfa, s.ret)
  IN IF ~cur.valid THEN [ret |-> "EINVAL", c |-> cur] ELSE guess(cfi(CfiStep(cur, ip)))

Loader(lib) == lib # 0 /\ prog.libraries[lib].type = "loader"
dwarf_get_ip(cur) == IF cur.valid THEN cur.ip ELSE 0

\* The report starts with the traced function itself.
BeginReport ==
  LET init == dwarf_init_unwind
  IN /\ phase = "hit"
     /\ data' = <<sym>> /\ steps' = 0 /\ c' = init.c
     /\ phase' = IF init.ret = "ok" /\ prog.depth > 1 THEN "walk" ELSE "sent"
     /\ UNCHANGED <<name, regs, mem, chain, sym>>

\* Mutant: the loop does not count the function itself.
WalkOneMore ==
  LET ip == dwarf_get_ip(c)
      new == ~Loader(c.lib) /\ Last(data) # ip
      out == IF new /\ ip # 0 THEN Append(data, ip) ELSE data
      next == dwarf_step(c)
  IN /\ phase = "walk"
     /\ data' = out /\ c' = next.c /\ steps' = steps + 1
     /\ phase' = IF next.ret = "ok" /\ Len(out) <= prog.depth THEN "walk" ELSE "sent"
     /\ UNCHANGED <<name, regs, mem, chain, sym>>

\* One turn of the loop: frames of the loader and repeated ones are left out.
WalkFrame ==
  LET ip == dwarf_get_ip(c)
      new == ~Loader(c.lib) /\ Last(data) # ip
      out == IF new /\ ip # 0 THEN Append(data, ip) ELSE data
      to(next) == /\ c' = next.c /\ steps' = steps + 1
                  /\ phase' = IF next.ret = "ok" /\ Len(out) < prog.depth THEN "walk" ELSE "sent"
  IN /\ phase = "walk"
     /\ data' = out
     /\ IF new /\ ip = 0 THEN phase' = "sent" /\ UNCHANGED <<c, steps>> ELSE to(dwarf_step(c))
     /\ UNCHANGED <<name, regs, mem, chain, sym>>

\* The task goes on.  What is left in the cursor is not read again.
Resume == /\ phase = "sent" /\ phase' = "run"
          /\ data' = <<>> /\ steps' = 0 /\ c' = NULL /\ sym' = NULL
          /\ UNCHANGED <<name, regs, mem, chain>>

Init == /\ name \in DOMAIN Programs
        /\ regs = Regs(prog.start, Max(Stack) - 1, 0)
        /\ mem = [a \in Stack |-> 0] /\ chain = <<>>
        /\ phase = "run" /\ sym = NULL /\ c = NULL /\ data = <<>> /\ steps = 0

Next == Execute \/ Signal \/ BeginReport \/ WalkFrame \/ Resume

Spec == Init /\ [][Next]_vars

-----------------------------------------------------------------------------
(* Properties.                                                             *)

Frames == <<Frame(regs[IP], regs[IP], regs[SP], regs[BP])>> \o chain

\* The types; report_alloc64 writes no more words than its buffer, of depth words, has.
TypeOK == /\ phase \in {"run", "hit", "walk", "sent"}
          /\ regs[SP] \in Stack /\ DOMAIN mem = Stack
          /\ Len(data) <= prog.depth /\ steps <= Len(chain) + 1

\* While dwarf_step walks, the cursor is one of the frames of the stack, the next one at each
\* step: its ip, its CFA and, if the cursor knows it, the frame pointer it had.
Exact ==
  phase = "walk" =>
    /\ steps < Len(Frames)
    /\ c.ip = Frames[steps + 1].ip /\ c.cfa = Frames[steps + 1].sp
    /\ c.loc[BP] # NullLoc => dwarf_get(task, c.loc[BP]) = Ok(Frames[steps + 1].bp)

\* What the client is sent is the traced function and every caller of it up to the start of the
\* program, without the loader's frames and repeated ones, as deep as was asked.
Complete ==
  LET shown == SelectSeq(Frames, LAMBDA f : ~Loader(addr2libref(f.at)))
      once(s, f) == IF Last(s) = f.ip THEN s ELSE Append(s, f.ip)
      all == FoldLeft(once, <<sym>>, shown)
  IN phase = "sent" => data = Take(all, prog.depth)
=============================================================================
