----------------------------- MODULE ControlUnit -----------------------------
(***************************************************************************)
(* The stages of src/cpu/CONTROL_UNIT.cpp, as operators on the machine one *)
(* call of Core works on: the registers of the PCB (regs, pc, ir), the     *)
(* data of the program (mem), the slots of the pipeline (data, the vector  *)
(* of Instruction_Data), the control variables of Core, and what the call  *)
(* has asked to print (out).                                               *)
(*                                                                         *)
(* The code is the sequence of what module Encoding reads in its words.    *)
(***************************************************************************)
EXTENDS Encoding

CONSTANTS
  Regs,      \* the registers the programs name, "zero" among them
  Vars,      \* the addresses of the memory, the code of the program apart
  LastSlot   \* bound: the last slot a call decodes into

-----------------------------------------------------------------------------
(* The stages.  m is the machine, s the slot the stage works on.           *)

(* A slip: a process that blocks does not push its request.                *)
PushUnlessBlocked(m, value, printLock) ==
  IF printLock THEN [m EXCEPT !.blocked = TRUE, !.endExecution = TRUE]
               ELSE [m EXCEPT !.out = Append(@, value)]

(* A print pushes its request; if the resource manager is printing, the    *)
(* process blocks and the call ends.                                       *)
PushRequest(m, value, printLock) ==
  [m EXCEPT !.out = Append(@, value),
            !.blocked = @ \/ printLock,
            !.endExecution = @ \/ printLock]

(* MainMemory: an address beyond it reads as -1 and is not written.        *)
ReadMem(mem, a) == IF a \in DOMAIN mem THEN mem[a] ELSE Modulus - 1
WriteMem(mem, a, w) == IF a \in DOMAIN mem THEN [mem EXCEPT ![a] = w] ELSE mem

(* Write_Back: only stores are left for it.                                *)
WriteBack(m, s) ==
  IF s.op = "SW" THEN [m EXCEPT !.mem = WriteMem(@, s.imm, m.regs[s.rt])] ELSE m

(* Memory_Acess: loads, and the prints that name no register.              *)
MemoryAccess(m, s, printLock) ==
  CASE s.op = "LW" -> [m EXCEPT !.regs[s.rt] = ReadMem(m.mem, s.imm)]
    [] s.op \in {"LA", "LI"} -> [m EXCEPT !.regs[s.rt] = Wrap(s.imm)]
    [] s.op = "PRINT" /\ s.rt = NoReg -> PushRequest(m, ReadMem(m.mem, s.imm), printLock)
    [] OTHER -> m

(* A slip: one turn too many after a jump.                                 *)
JumpLate(m, s) ==
  [m EXCEPT !.pc = s.imm, !.ir = m.code[s.imm],
            !.counter = 0, !.counterForEnd = 6, !.endProgram = FALSE]

(* Execute_Loop_Operation, taken: the pipeline restarts at the target.     *)
Jump(m, s) ==
  [m EXCEPT !.pc = s.imm,
            !.ir = m.code[s.imm],
            !.counter = 0,
            !.counterForEnd = 5,
            !.endProgram = FALSE]

(* Execute_Aritmetic_Operation: the registers change in this stage already. *)
ExecuteArithmetic(m, s, junk) ==
  [m EXCEPT !.regs[s.rd] = Result(s.op, m.regs[s.rs], m.regs[s.rt], junk)]

(* The accessor of a register without a name throws, and so does the       *)
(* conversion of an immediate no decode has written; nothing catches it.   *)
Throws(m, s) ==
  \/ NoReg \in {s.rs, s.rt}
  \/ Holds(s.op, m.regs[s.rs], m.regs[s.rt]) /\ s.imm = NoImm

(* Execute_Loop_Operation.                                                 *)
ExecuteLoop(m, s) ==
  IF s.op = "J" THEN Jump(m, s)
  ELSE IF Throws(m, s) THEN [m EXCEPT !.crashed = TRUE]
  ELSE IF Holds(s.op, m.regs[s.rs], m.regs[s.rt]) THEN Jump(m, s)
  ELSE m

Execute(m, s, printLock, junk) ==
  CASE s.op \in {"ADD", "SUB", "MUL", "DIV"} -> ExecuteArithmetic(m, s, junk)
    [] s.op \in Comparing \cup {"J", "BEQ", "BNE"} -> ExecuteLoop(m, s)
    [] s.op = "PRINT" /\ s.rt # NoReg -> PushRequest(m, m.regs[s.rt], printLock)
    [] OTHER -> m

(* Decode reads the ir.                                                    *)
Decode(m, k) == [m EXCEPT !.data[k] = Decoded(m.ir, @)]

(* Fetch: an END in the ir ends the program, anything else gives way to    *)
(* the next instruction.                                                   *)
Fetch(m) ==
  IF m.ir = End THEN [m EXCEPT !.endProgram = TRUE]
  ELSE [m EXCEPT !.ir = m.code[m.pc], !.pc = @ + 1]

-----------------------------------------------------------------------------
(* One turn of the loop of Core.  The stages run from the last to the      *)
(* first, each on what the one before it left, the control variables       *)
(* included.                                                               *)

(* Slips: a stage that stops a turn too early when the call is to end.     *)
AtWriteBackEarly(m) == m.counter >= 4 /\ m.counterForEnd >= 2
AtExecuteEarly(m)   == m.counter >= 2 /\ m.counterForEnd >= 4

AtWriteBack(m) == m.counter >= 4 /\ m.counterForEnd >= 1
AtMemory(m)    == m.counter >= 3 /\ m.counterForEnd >= 2
AtExecute(m)   == m.counter >= 2 /\ m.counterForEnd >= 3
AtDecode(m)    == m.counter >= 1 /\ m.counterForEnd >= 4
AtFetch(m)     == m.counterForEnd = 5

AfterMemory(m, printLock) ==
  LET w == IF AtWriteBack(m) THEN WriteBack(m, m.data[m.counter - 4]) ELSE m IN
  IF AtMemory(w) THEN MemoryAccess(w, w.data[w.counter - 3], printLock) ELSE w

AfterExecute(m, printLock, junk) ==
  LET a == AfterMemory(m, printLock) IN
  IF AtExecute(a) THEN Execute(a, a.data[a.counter - 2], printLock, junk) ELSE a

(* A slip: the call ends twice as fast.                                    *)
TickTwice(m) ==
  LET ending == m.endExecution \/ m.clock + 1 >= m.quantum \/ m.endProgram IN
  [m EXCEPT !.counter = @ + 1, !.clock = @ + 1, !.endExecution = ending,
            !.counterForEnd = IF ending THEN @ - 2 ELSE @]

(* The end of the turn: the counters, and whether the call is to end.      *)
Tick(m) ==
  LET ending == m.endExecution \/ m.clock + 1 >= m.quantum \/ m.endProgram IN
  [m EXCEPT !.counter = @ + 1,
            !.clock = @ + 1,
            !.endExecution = ending,
            !.counterForEnd = IF ending THEN @ - 1 ELSE @]

Turn(m, printLock, junk) ==
  LET x == AfterExecute(m, printLock, junk)
      d == IF AtDecode(x) THEN Decode(x, x.counter - 1) ELSE x
      f == IF AtFetch(d) THEN Fetch(d) ELSE d IN
  Tick(f)

=============================================================================
