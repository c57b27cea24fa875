----------------------------- MODULE MCPipeline -----------------------------
(* Instances of Pipeline for TLC: all the programs of a few instructions   *)
(* over two registers and a variable, and the small programs that show one *)
(* thing each.                                                             *)
EXTENDS Pipeline

x == 101  \* the address of a variable

Li(r, n)       == Instr("LI", NoReg, r, NoReg, n)
Lw(r)          == Instr("LW", NoReg, r, NoReg, x)
Sw(r)          == Instr("SW", NoReg, r, NoReg, x)
Alu(op, d, s, t)    == Instr(op, s, t, d, NoImm)
PrintReg(r)    == Instr("PRINT", NoReg, r, NoReg, NoImm)
PrintVar       == Instr("PRINT", NoReg, NoReg, NoReg, x)
J(k)           == Instr("J", NoReg, NoReg, NoReg, k)
Branch(op, s, t, k) == Instr(op, s, t, NoReg, k)

MCRegs == {"zero", "t0", "t1"}
MCVars == {x}

Menu == {Li("t0", 1), Lw("t1"), Sw("t1"), Alu("ADD", "t1", "t0", "t1"),
         Alu("DIV", "t0", "t0", "t1"), PrintReg("t1"), PrintVar,
         J(1), J(4), Branch("BLT", "t0", "t1", 5), Branch("BGTI", "t1", "t0", 2)}

Length == 4
Complete(p) == Append(p, End)

(* Every program of Length instructions that Precise claims to cover.      *)
RegularPrograms == {p \in {Complete(b) : b \in [1..Length -> Menu]} : Regular(p)}

ASSUME RegularAreLawful == \A p \in RegularPrograms : Lawful(p)

(* sw, then a jump: the store is lost.                                     *)
StoreLost == {Complete(<<Li("t1", 2), Sw("t1"), J(4)>>)}

(* sw, then an add into the register: the sum is stored.                   *)
StoreLate == {Complete(<<Li("t1", 2), Sw("t1"), Alu("ADD", "t1", "t1", "t1")>>)}

MultProgram == {Complete(<<Li("t0", 1), Alu("MULT", "t1", "t0", "t0"), PrintReg("t1")>>)}
BneProgram  == {Complete(<<Li("t0", 2), Branch("BNE", "t0", "t1", 4), PrintReg("t0")>>)}
BeqProgram  == {Complete(<<Li("t0", 2), Branch("BEQ", "t0", "t0", 4), PrintReg("t0")>>)}
ZeroProgram == {Complete(<<Li("zero", 2), PrintReg("zero")>>)}

(* The print of the variable gets the slot of the li.                      *)
StaleProgram == {Complete(<<Li("t0", 2), J(3), PrintVar>>)}

(* j to itself.                                                            *)
TightLoop == {Complete(<<J(1)>>)}

=============================================================================
