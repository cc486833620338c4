----------------------------- MODULE MCUnwinder -----------------------------
(***************************************************************************)
(* Programs for Unwinder, as a compiler lays them out: an executable with  *)
(* a PLT entry, libc with malloc and the trampoline of a signal, the       *)
(* loader with the function that binds the PLT entry.                      *)
(***************************************************************************)
EXTENDS Unwinder

StackOf30 == 200..230

I(op) == [op |-> op, to |-> 0]
J(op, to) == [op |-> op, to |-> to]
Adv(n) == [op |-> "advance_loc", reg |-> 0, val |-> n]
Cfa(r, n) == [op |-> "def_cfa", reg |-> r, val |-> n]
CfaBy(r) == [op |-> "def_cfa_register", reg |-> r, val |-> 0]
CfaPlus(n) == [op |-> "def_cfa_offset", reg |-> 0, val |-> n]
At(r, n) == [op |-> "offset", reg |-> r, val |-> n]
Back(r) == [op |-> "restore", reg |-> r, val |-> 0]
Undefined(r) == [op |-> "undefined", reg |-> r, val |-> 0]
Expr(r, e) == [op |-> "expression", reg |-> r, val |-> e]
CfaExpr(e) == [op |-> "def_cfa_expression", reg |-> 0, val |-> e]
Remember == [op |-> "remember_state", reg |-> 0, val |-> 0]
Recall == [op |-> "restore_state", reg |-> 0, val |-> 0]
Breg(r, n) == [op |-> "breg", reg |-> r, val |-> n]
X(op, n) == [op |-> op, reg |-> 0, val |-> n]

Fun(lo, code, aug, cfi) ==
  [lo |-> lo, code |-> code,
   fde |-> IF cfi = NULL THEN NULL
           ELSE [start_ip |-> lo, ip_range |-> Len(code), aug |-> aug, code_align |-> 1,
                 data_align |-> -1, ret_addr_column |-> IP,
                 cie |-> <<Cfa(SP, 1), At(IP, 1)>>, program |-> cfi]]
Plain == <<"z", "R">>
SignalFrame == <<"z", "R", "S">>
Personality == <<"z", "P", "L", "R">>

\* A word more is on the stack from the entry's third instruction on.
Plt == Fun(4, <<I("nop"), I("push"), J("jmp", 56)>>, Plain,
           <<CfaExpr(<<Breg(SP, 1), Breg(IP, 0), X("const", 3), X("and", 0), X("const", 2),
                       X("ge", 0), X("const", 0), X("shl", 0), X("plus", 0)>>)>>)
Start == Fun(8, <<J("call", 10), I("hlt")>>, Plain, <<Undefined(IP)>>)
WithBp == <<Adv(1), CfaPlus(2), At(BP, 2), Adv(1), CfaBy(BP)>>
\* Its last instruction calls what never returns.
Main == Fun(10, <<I("push_bp"), I("mov_bp"), I("sub"), J("br", 16), J("call", 24), J("jmp", 13),
                  J("br", 19), I("leave"), I("ret"), J("call", 20)>>, Plain,
            WithBp \o <<Adv(6), Remember, Cfa(SP, 1), Back(BP), Adv(1), Recall>>)
Abort(aug) == Fun(20, <<I("sub"), J("call", 4), J("jmp", 21)>>, aug, <<Adv(1), CfaPlus(2)>>)
TwoExits == Fun(24, <<I("sub"), J("br", 29), J("call", 4), I("add"), I("ret"), J("call", 32),
                      I("add"), I("ret")>>, Plain,
                <<Adv(1), CfaPlus(2), Adv(3), Remember, CfaPlus(1), Adv(1), Recall, Adv(2), CfaPlus(1)>>)
Recursive == Fun(32, <<I("push_bp"), I("mov_bp"), J("br", 36), J("call", 32), J("call", 4),
                       I("leave"), I("ret")>>, Personality,
                 WithBp \o <<Adv(4), Cfa(SP, 1), Back(BP)>>)
Handler == Fun(40, <<I("push_bp"), I("mov_bp"), J("call", 50), I("leave"), I("ret")>>, Plain,
               WithBp \o <<Adv(2), Cfa(SP, 1), Back(BP)>>)
Trampoline == Fun(48, <<I("nop"), I("sigreturn")>>, SignalFrame,
                  <<CfaExpr(<<Breg(SP, 1), X("deref", 0)>>), Expr(BP, <<Breg(SP, 2)>>),
                    Expr(IP, <<Breg(SP, 0)>>)>>)
Malloc == Fun(50, <<I("sub"), I("add"), I("ret")>>, Plain, <<Adv(1), CfaPlus(2), Adv(1), CfaPlus(1)>>)
Resolve == Fun(56, <<J("call", 50), J("pop_jmp", 50)>>, Plain, <<CfaPlus(2)>>)

\* The linker sorts the table of a library.
FdesOf(functions, lo, hi) ==
  LET sorted[from \in lo..(hi + 1)] ==
        IF from > hi THEN <<>>
        ELSE [i \in 1..Cardinality({f \in functions : f.lo = from /\ f.fde # NULL}) |->
                (CHOOSE f \in functions : f.lo = from).fde] \o sorted[from + 1]
  IN sorted[lo]
Lib(functions, type, lo, hi) ==
  [type |-> type, lo |-> lo, hi |-> hi, fde_tab |-> FdesOf(functions, lo, hi)]
Program(functions, depth, handler) ==
  [functions |-> functions, start |-> 8, traced |-> {50}, depth |-> depth,
   libraries |-> <<Lib(functions, "exe", 1, 47), Lib(functions, "lib", 48, 55),
                   Lib(functions, "loader", 56, 60)>>,
   handler |-> handler, trampoline |-> 49]
Compiled(aug) == {Plt, Start, Main, Abort(aug), TwoExits, Recursive, Handler, Trampoline, Malloc, Resolve}

\* Two functions without unwind information: one with a frame pointer, one without.
MainSp == Fun(10, <<I("sub"), J("br", 14), J("call", 20), J("jmp", 11), J("br", 17), J("call", 30),
                    J("jmp", 11), I("add"), I("ret")>>, Plain, <<Adv(1), CfaPlus(2), Adv(7), CfaPlus(1)>>)
FrameOnly == Fun(20, <<I("push_bp"), I("mov_bp"), I("sub"), J("call", 50), I("leave"), I("ret")>>, Plain, NULL)
NoFrame == Fun(30, <<I("sub"), J("call", 50), I("add"), I("ret")>>, Plain, NULL)
Stripped == {Start, MainSp, FrameOnly, NoFrame, Malloc}

Everyday == [signals |-> Program(Compiled(Plain), 12, 40), shallow |-> Program(Compiled(Plain), 3, NULL),
             stripped |-> Program(Stripped, 12, NULL)]
\* A C++ function that does not return.
Throwing == [throwing |-> Program(Compiled(Personality), 12, NULL)]
=============================================================================
