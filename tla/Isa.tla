--------------------------------- MODULE Isa ---------------------------------
(***************************************************************************)
(* The instruction set as README.MD documents it (its sections on the ALU, *)
(* the register bank and the assembly language): one instruction after the *)
(* other, each done before the next starts.  The specification that the    *)
(* pipeline of module Pipeline is compared with.                           *)
(***************************************************************************)
EXTENDS ControlUnit

(* $zero always holds 0.                                                   *)
Write(regs, r, value) == IF r = "zero" THEN regs ELSE [regs EXCEPT ![r] = value]

Branches == Comparing \cup {"BEQ", "BNE"}

(* The instruction i, in state a.                                          *)
IsaStep(a, i, junk) ==
  LET rs == a.regs[i.rs]
      rt == a.regs[i.rt]
      next == [a EXCEPT !.pc = @ + 1] IN
  CASE i.op = "END" -> a
    [] i.op \in {"LI", "LA"} -> [next EXCEPT !.regs = Write(@, i.rt, Wrap(i.imm))]
    [] i.op = "LW" -> [next EXCEPT !.regs = Write(@, i.rt, a.mem[i.imm])]
    [] i.op = "SW" -> [next EXCEPT !.mem[i.imm] = rt]
    [] i.op \in {"ADD", "SUB", "DIV"} ->
         [next EXCEPT !.regs = Write(@, i.rd, Result(i.op, rs, rt, junk))]
    [] i.op = "MULT" -> [next EXCEPT !.regs = Write(@, i.rd, Result("MUL", rs, rt, junk))]
    [] i.op = "J" -> [a EXCEPT !.pc = i.imm]
    [] i.op \in Branches -> IF Holds(i.op, rs, rt) THEN [a EXCEPT !.pc = i.imm] ELSE next
    [] i.op = "PRINT" ->
         [next EXCEPT !.out = Append(@, IF i.imm = NoImm THEN rt ELSE a.mem[i.imm])]

=============================================================================
