------------------------------ MODULE DwarfCfi ------------------------------
(***************************************************************************)
(* The call frame information of a function and what the unwinder computes *)
(* from it (dwarf.c): the table search, the CFI program, the location      *)
(* expressions and the step of the cursor to the caller's frame.           *)
(*                                                                         *)
(* A CFI program and an expression are sequences of decoded instructions;  *)
(* the bytes they are encoded in, and the variants of an instruction that  *)
(* differ only in the encoding of an operand, are left out.  So are three  *)
(* operations of expressions, which no program here has: DW_OP_deref_size  *)
(* reads part of a word, and the operand of DW_OP_constu and DW_OP_consts, *)
(* unknown to dwarf_operands, would run as instructions.  A word is one    *)
(* unit of memory and the registers are the three the unwinder treats      *)
(* differently: the frame pointer, the stack pointer (as->ret_reg) and the *)
(* instruction pointer (as->ip_reg).  A result is a record with ret, "ok"  *)
(* or the error the code returns.                                          *)
(***************************************************************************)
EXTENDS Integers, Sequences, SequencesExt, Bitwise

CONSTANTS NULL,
          WordBits,     \* the width of arch_addr_t
          RegStack,     \* how many rows DW_CFA_remember_state keeps
          ExprStack     \* MAX_EXPR_STACK_SIZE

ASSUME DwarfAssumption == WordBits \in Nat \ {0} /\ RegStack \in Nat /\ ExprStack \in Nat

BP == 0
SP == 1
IP == 2
NumRegs == 3
CfaReg == NumRegs
CfaOff == NumRegs + 1

Word(x) == x % 2^WordBits
Sword(x) == IF x >= 2^(WordBits - 1) THEN x - 2^WordBits ELSE x

\* The first n elements, if there are as many.
Take(s, n) == SubSeq(s, 1, IF Len(s) < n THEN Len(s) ELSE n)

Ok(v) == [ret |-> "ok", val |-> v]
Err(e) == [ret |-> e, val |-> NULL]
Loc(t, v) == [type |-> t, val |-> v]
NullLoc == Loc("mem", 0)

-----------------------------------------------------------------------------
(* What a CIE's augmentation says, and the search for the FDE of an ip.    *)

\* parse_cie keeps four letters; 'P' has no break and runs on into 'S'; a letter it does not
\* know ends the scan if the augmentation has a size ('z').
parse_cie(aug) ==
  LET kept == Take(aug, 4)
      sized == kept # <<>> /\ kept[1] = "z"
      known(i) == kept[i] \in {"L", "R", "P", "S"} \/ (i = 1 /\ sized)
      read == {i \in DOMAIN kept : \A j \in 1..i : known(j)}
  IN [ret |-> IF sized \/ read = DOMAIN kept THEN "ok" ELSE "EINVAL",
      signal_frame |-> \E i \in read : kept[i] \in {"P", "S"}]

\* lookup: the binary search; an index into the table, 0 for NULL.
lookup(table, x) ==
  LET n == Len(table)
      search[lo \in 0..n, hi \in 0..n, found \in 0..n] ==
        LET mid == (lo + hi) \div 2
        IN IF lo >= hi THEN found
           ELSE IF x < table[mid + 1].start_ip THEN search[lo, mid, found]
           ELSE search[mid + 1, hi, mid + 1]
  IN search[0, n, 0]

-----------------------------------------------------------------------------
(* run_cfi_program.  A rule says where a register of the caller is.        *)

Rule(w, v) == [where |-> w, val |-> v]
Row0 == [r \in 0..CfaOff |-> Rule("same", 0)]

\* The instructions that set the rule of a register or move the location; set_loc moves it
\* to the address in the file, which is not relocated as start_ip was.
RegisterRule(fde, initial, s, i) ==
  LET set(w, v) == [s EXCEPT !.row[i.reg] = Rule(w, v)]
  IN CASE i.op = "advance_loc" -> [s EXCEPT !.curr_ip = @ + i.val * fde.code_align]
       [] i.op = "set_loc" -> [s EXCEPT !.curr_ip = i.val]
       [] i.op = "nop" -> s
       [] i.op \in {"offset", "restore", "undefined", "same_value", "register"}
            /\ i.reg >= NumRegs ->
          [s EXCEPT !.ret = IF i.op = "restore" THEN "EINVAL" ELSE "EBADREG"]
       [] i.op = "offset" -> set("cfarel", i.val * fde.data_align)
       [] i.op = "restore" -> [s EXCEPT !.row[i.reg] = initial[i.reg]]
       [] i.op = "undefined" -> set("undef", 0)
       [] i.op = "same_value" -> set("same", 0)
       [] i.op = "register" -> IF i.val < NumRegs THEN set("reg", i.val)
                               ELSE [s EXCEPT !.ret = "EBADREG"]

\* The instructions that keep a row, and those that say what the CFA is.
FrameRule(fde, s, i) ==
  LET set(r, w, v) == [s EXCEPT !.row[r] = Rule(w, v)]
      cfa(f) == [s EXCEPT !.row[CfaReg] = Rule("reg", i.reg), !.row[CfaOff] = Rule("undef", i.val * f)]
  IN CASE i.op = "remember_state" ->
          IF Len(s.kept) < RegStack THEN [s EXCEPT !.kept = Append(@, s.row)]
          ELSE [s EXCEPT !.ret = "EINVAL"]
       [] i.op = "restore_state" ->
          IF s.kept = <<>> THEN [s EXCEPT !.ret = "EINVAL"]
          ELSE [s EXCEPT !.row = Last(s.kept), !.kept = Front(@)]
       [] i.op \in {"def_cfa", "def_cfa_sf", "def_cfa_register", "expression", "val_expression"}
            /\ i.reg >= NumRegs -> [s EXCEPT !.ret = "EBADREG"]
       [] i.op = "def_cfa" -> cfa(1)
       [] i.op = "def_cfa_sf" -> cfa(fde.data_align)
       [] i.op = "def_cfa_register" -> set(CfaReg, "reg", i.reg)
       [] i.op = "def_cfa_offset" -> set(CfaOff, "undef", i.val)
       [] i.op = "def_cfa_offset_sf" -> set(CfaOff, "undef", i.val * fde.data_align)
       [] i.op = "def_cfa_expression" -> set(CfaReg, "expr", i.val)
       [] i.op = "expression" -> set(i.reg, "expr", i.val)
       [] i.op = "val_expression" -> set(i.reg, "val_expr", i.val)
       [] i.op \in {"lo_user", "hi_user", "GNU_window_save", "MIPS_advance_loc8"} ->
          [s EXCEPT !.ret = "EINVAL"]
       [] OTHER -> s   \* GNU_args_size, and what the switch has no case for

RegisterOps == {"advance_loc", "set_loc", "nop", "offset", "restore", "undefined", "same_value",
                "register"}

\* Mutant: the row that starts at ip is left out.
RunExclusive(fde, initial, row, ip, program) ==
  LET step(s, i) ==
        IF s.ret # "ok" \/ (ip # NULL /\ s.curr_ip >= ip) THEN s
        ELSE IF i.op \in RegisterOps THEN RegisterRule(fde, initial, s, i)
        ELSE FrameRule(fde, s, i)
  IN FoldLeft(step, [row |-> row, curr_ip |-> fde.start_ip, kept |-> <<>>, ret |-> "ok"], program)

\* The loop: it ends behind the location of ip (NULL: the CIE's program has no end).
run_cfi_program(fde, initial, row, ip, program) ==
  LET step(s, i) ==
        IF s.ret # "ok" \/ (ip # NULL /\ s.curr_ip > ip) THEN s
        ELSE IF i.op \in RegisterOps THEN RegisterRule(fde, initial, s, i)
        ELSE FrameRule(fde, s, i)
  IN FoldLeft(step, [row |-> row, curr_ip |-> fde.start_ip, kept |-> <<>>, ret |-> "ok"], program)

\* parse_fde: the CIE's program gives the initial row, the FDE's the row at ip.
parse_fde(fde, ip) ==
  LET undef == [r \in DOMAIN Row0 |-> Rule("undef", 0)]
      result(end) == IF end.ret # "ok" THEN Err(end.ret) ELSE Ok(end.row)
      from(cie) == IF cie.ret # "ok" THEN cie
                   ELSE run_cfi_program(fde, cie.row, cie.row, ip, fde.program)
  IN IF fde.ret_addr_column >= NumRegs THEN Err("EBADREG")
     ELSE result(from(run_cfi_program(fde, undef, Row0, NULL, fde.cie)))

-----------------------------------------------------------------------------
(* dwarf_eval_expr.  The task has its registers, its stack and its memory; *)
(* c is the cursor.                                                        *)

\* dwarf_access_mem: NULL and what is not mapped cannot be read.
dwarf_readw(task, addr) ==
  IF addr = 0 \/ addr \notin DOMAIN task.mem THEN Err("EINVAL") ELSE Ok(task.mem[addr])

dwarf_get(task, loc) ==
  CASE loc.type = "reg" -> IF loc.val < NumRegs THEN Ok(task.regs[loc.val]) ELSE Err("EBADREG")
    [] loc.type = "mem" -> dwarf_readw(task, loc.val)
    [] loc.type = "val" -> Ok(loc.val)

dwarf_get_reg(task, c, r) ==
  CASE r >= NumRegs -> Err("EBADREG")
    [] r = IP -> Ok(c.ip)
    [] r = SP -> Ok(c.cfa)
    [] OTHER -> dwarf_get(task, c.loc[r])

\* Two operands: a is the top of the stack, b is under it.
Bool(x) == IF x THEN 1 ELSE 0
Binary(op, b, a) ==
  CASE op = "and" -> b & a
    [] op = "or" -> b | a
    [] op = "xor" -> b ^^ a
    [] op = "plus" -> Word(b + a)
    [] op = "minus" -> Word(b - a)
    [] op = "mul" -> IF a = 0 THEN a ELSE Word(b * a)
    [] op = "mod" -> IF a = 0 THEN a ELSE b % a
    [] op = "div" -> IF a = 0 THEN a
                     ELSE LET q == (IF Sword(b) < 0 THEN -Sword(b) ELSE Sword(b))
                                     \div (IF Sword(a) < 0 THEN -Sword(a) ELSE Sword(a))
                          IN Word(IF (Sword(b) < 0) = (Sword(a) < 0) THEN q ELSE -q)
    [] op = "shl" -> Word(b * 2^a)
    [] op = "shr" -> b \div 2^a
    [] op = "shra" -> Word(Sword(b) \div 2^a)
    [] op = "le" -> Bool(Sword(b) <= Sword(a))
    [] op = "ge" -> Bool(Sword(b) >= Sword(a))
    [] op = "eq" -> Bool(b = a)
    [] op = "ne" -> Bool(b # a)
    [] op = "lt" -> Bool(Sword(b) < Sword(a))
    [] op = "gt" -> Bool(Sword(b) > Sword(a))
BinaryOps == {"and", "or", "xor", "plus", "minus", "mul", "mod", "div", "shl", "shr", "shra",
              "le", "ge", "eq", "ne", "lt", "gt"}

Unary(op, a, operand) ==
  CASE op = "abs" -> IF Sword(a) < 0 THEN Word(-a) ELSE a
    [] op = "neg" -> Word(-a)
    [] op = "not" -> 2^WordBits - 1 - a
    [] op = "plus_uconst" -> Word(a + operand)

\* The operands an instruction pops, and the ones it needs.
Needs(i) ==
  CASE i.op \in BinaryOps \cup {"swap", "over"} -> 2
    [] i.op = "rot" -> 3
    [] i.op = "pick" -> i.val + 1
    [] i.op \in {"abs", "neg", "not", "plus_uconst", "deref", "dup", "drop", "bra"} -> 1
    [] OTHER -> 0

\* One instruction: the stack (its top first), and ret.  const is a literal, an address or a
\* constant of fixed size.
EvalOp(task, c, i, stack) ==
  LET push(x) == [ret |-> x.ret, stack |-> IF x.ret = "ok" THEN <<x.val>> \o stack ELSE stack]
      top(n, xs) == [ret |-> "ok", stack |-> xs \o SubSeq(stack, n + 1, Len(stack))]
      plus(x) == IF x.ret = "ok" THEN Ok(Word(x.val + i.val)) ELSE x
      over(x) == IF x.ret = "ok" THEN top(1, <<x.val>>) ELSE [ret |-> x.ret, stack |-> stack]
  IN CASE i.op = "const" -> push(Ok(Word(i.val)))
       [] i.op = "breg" -> push(plus(dwarf_get_reg(task, c, i.reg)))
       [] i.op = "deref" -> over(dwarf_readw(task, stack[1]))
       [] i.op \in {"dup", "over", "pick"} ->
          push(Ok(stack[CASE i.op = "dup" -> 1 [] i.op = "over" -> 2 [] OTHER -> i.val + 1]))
       [] i.op \in {"drop", "bra"} -> top(1, <<>>)
       [] i.op = "swap" -> top(2, <<stack[2], stack[1]>>)
       [] i.op = "rot" -> top(3, <<stack[2], stack[3], stack[1]>>)
       [] i.op \in {"abs", "neg", "not", "plus_uconst"} -> top(1, <<Unary(i.op, stack[1], i.val)>>)
       [] i.op \in BinaryOps -> top(2, <<Binary(i.op, stack[2], stack[1])>>)
       [] i.op \in {"nop", "skip"} -> top(0, <<>>)
       [] OTHER -> [ret |-> "EINVAL", stack |-> stack]

\* From instruction pc on; skip and bra move it by i.val instructions more.
RECURSIVE Eval(_, _, _, _, _)
Eval(task, c, e, pc, stack) ==
  IF pc > Len(e)
  THEN IF stack = <<>> THEN Err("EINVAL") ELSE Ok(Loc("mem", stack[1]))
  ELSE IF e[pc].op = "reg" THEN Ok(Loc("reg", e[pc].reg))
  ELSE IF Len(stack) < Needs(e[pc]) THEN Err("EINVAL")
  ELSE LET taken == e[pc].op = "skip" \/ (e[pc].op = "bra" /\ stack[1] # 0)
           next(after) ==
             IF after.ret # "ok" THEN Err(after.ret)
             ELSE IF Len(after.stack) > ExprStack THEN Err("EINVAL")
             ELSE Eval(task, c, e, pc + 1 + (IF taken THEN e[pc].val ELSE 0), after.stack)
       IN next(EvalOp(task, c, e[pc], stack))

dwarf_eval_expr(task, c, e) == Eval(task, c, e, 1, <<c.cfa>>)

-----------------------------------------------------------------------------
(* apply_reg_state: the cursor of the caller.                              *)

\* The CFA: a register and an offset, or an expression.
NewCfa(task, c, row) ==
  LET base == IF row[CfaReg].val = SP /\ row[SP].where = "same" THEN Ok(c.cfa)
              ELSE dwarf_get_reg(task, c, row[CfaReg].val)
      plus(x) == IF x.ret = "ok" THEN Ok(Word(x.val + row[CfaOff].val)) ELSE x
      address(x) == IF x.ret # "ok" THEN x
                    ELSE IF x.val.type = "reg" THEN Err("EBADFRAME") ELSE Ok(x.val.val)
  IN CASE row[CfaReg].where = "reg" -> plus(base)
       [] row[CfaReg].where = "expr" -> address(dwarf_eval_expr(task, c, row[CfaReg].val))
       [] OTHER -> Err("assert")

\* The registers in order; an expression sees the ones before it as the caller's already.
NewLocs(task, c, row, cfa) ==
  LET step(s, r) ==
        LET set(l) == [s EXCEPT !.c.loc[r] = l]
            at(x) == IF x.ret # "ok" THEN [s EXCEPT !.ret = x.ret]
                     ELSE set(IF row[r].where = "expr" THEN x.val ELSE Loc("val", x.val.val))
        IN IF s.ret # "ok" THEN s
           ELSE CASE row[r].where = "undef" -> set(NullLoc)
                  [] row[r].where = "same" -> s
                  [] row[r].where = "cfarel" -> set(Loc("mem", Word(cfa + row[r].val)))
                  [] row[r].where = "reg" -> set(Loc("reg", row[r].val))
                  [] OTHER -> at(dwarf_eval_expr(task, s.c, row[r].val))
  IN FoldLeft(step, [ret |-> "ok", c |-> c], [i \in 1..NumRegs |-> i - 1])

\* The return address, where the register rules say; an undefined one is the end of the stack.
apply_reg_state(task, c, row) ==
  LET from(c1, ip) ==
        IF ip.ret # "ok" THEN [ret |-> ip.ret, c |-> c1]
        ELSE [ret |-> IF ip.val = c.ip /\ c1.cfa = c.cfa THEN "EBADFRAME" ELSE "ok",
              c |-> [c1 EXCEPT !.ip = ip.val]]
      return(c1) == LET ra == c1.loc[c1.ret_addr_column]
                    IN from(c1, IF ra = NullLoc THEN Ok(0) ELSE dwarf_get(task, ra))
      caller(cfa, locs) ==
        IF locs.ret # "ok" THEN locs ELSE return([locs.c EXCEPT !.cfa = cfa.val])
      frame(cfa) == IF cfa.ret # "ok" THEN [ret |-> cfa.ret, c |-> c]
                    ELSE caller(cfa, NewLocs(task, c, row, cfa.val))
  IN frame(NewCfa(task, c, row))
=============================================================================
