------------------------------ MODULE Pipeline ------------------------------
(***************************************************************************)
(* One process executed by calls of Core (src/cpu/CONTROL_UNIT.cpp:9-63),  *)
(* one turn of its pipeline at a time, preempted when its quantum is over, *)
(* when it blocks on a print, or when it ends, and dispatched again until  *)
(* it is Finished.  What the other threads do (module Kernel) is reduced   *)
(* to the value of printLock a print finds and to when the process is      *)
(* dispatched.                                                             *)
(*                                                                         *)
(* isa is the same program run one instruction at a time: it advances when *)
(* the pipeline executes an instruction.                                   *)
(***************************************************************************)
EXTENDS Isa

CONSTANTS
  Programs,  \* the programs, sequences of instructions that end with an END
  Quanta,    \* the quanta a process may get (10 in the code)
  MaxCalls,  \* bound: calls of Core on the process
  MaxDrain   \* bound: what drain counts to; beyond it, it stays

ASSUME PipelineAssumption ==
  /\ NoReg \notin Regs
  /\ LastSlot \in Nat /\ MaxCalls \in Nat /\ MaxDrain \in Nat
  /\ Vars \subseteq Nat
  /\ Quanta \subseteq 1..(LastSlot + 1)

VARIABLES
  m,        \* the machine of module ControlUnit
  state,    \* PCB::state, but for the wait of a Blocked process
  calls,    \* the calls of Core so far
  advanced, \* the current or last call has executed an instruction
  drain,    \* the turns of the call since endExecution was set
  isa       \* the same program in the Isa

vars == <<m, state, calls, advanced, drain, isa>>

NewRegs == [r \in Regs |-> 0]

(* The data of a program, as the loader left it: distinct words.           *)
NewMem == [v \in Vars |-> Wrap(v)]

(* The locals of Core at the start of a call.                              *)
Fresh(p) ==
  [p EXCEPT !.data = [k \in 0..LastSlot |-> EmptySlot],
            !.counter = 0, !.counterForEnd = 5, !.clock = 0,
            !.endProgram = FALSE, !.endExecution = FALSE, !.blocked = FALSE]

Init ==
  /\ \E p \in Programs, q \in Quanta :
       m = [code |-> p, quantum |-> q, regs |-> NewRegs, mem |-> NewMem,
            pc |-> 1, ir |-> EmptySlot, out |-> <<>>, crashed |-> FALSE,
            data |-> [k \in 0..LastSlot |-> EmptySlot],
            counter |-> 0, counterForEnd |-> 5, clock |-> 0,
            endProgram |-> FALSE, endExecution |-> FALSE, blocked |-> FALSE]
  /\ state = "Ready"
  /\ calls = 0
  /\ advanced = FALSE
  /\ drain = 0
  /\ isa = [regs |-> NewRegs, mem |-> NewMem, pc |-> 1, out |-> <<>>]

(* coreManage takes the process and calls Core.                            *)
Dispatch ==
  /\ state = "Ready"
  /\ calls < MaxCalls
  /\ state' = "Executing"
  /\ calls' = calls + 1
  /\ advanced' = FALSE
  /\ drain' = 0
  /\ m' = Fresh(m)
  /\ UNCHANGED isa

(* A turn of the loop of Core.  clock is only compared with the quantum:   *)
(* it need not count further.                                              *)
Clock ==
  /\ state = "Executing"
  /\ ~m.crashed
  /\ m.counterForEnd > 0
  /\ \E printLock \in BOOLEAN, junk \in Word :
       LET t == Turn(m, printLock, junk) IN
       /\ m' = [t EXCEPT !.clock = IF @ > m.quantum THEN m.quantum ELSE @]
       /\ IF AtExecute(m)
          THEN /\ isa' = IsaStep(isa, m.code[isa.pc], junk)
               /\ advanced' = (advanced \/ m.code[isa.pc] # End)
          ELSE UNCHANGED <<isa, advanced>>
       /\ drain' = IF m.endExecution /\ drain < MaxDrain THEN drain + 1 ELSE drain
  /\ UNCHANGED <<state, calls>>

(* The loop ends: the process is Finished if Core has seen its END; if not *)
(* it becomes Ready again, at once or when its request is answered.        *)
Return ==
  /\ state = "Executing"
  /\ m.counterForEnd = 0
  /\ state' = IF m.endProgram THEN "Finished" ELSE "Ready"
  /\ UNCHANGED <<m, calls, advanced, drain, isa>>

Halted ==
  /\ m.crashed \/ state = "Finished" \/ (state = "Ready" /\ calls = MaxCalls)
  /\ UNCHANGED vars

Next == Dispatch \/ Clock \/ Return \/ Halted

Spec == Init /\ [][Next]_vars

(* The thread of the core is scheduled.                                    *)
FairSpec == Spec /\ WF_vars(Clock) /\ WF_vars(Return)

-----------------------------------------------------------------------------
(* The programs the pipeline executes as the Isa does are those without    *)
(* these patterns; module MCPipeline has a program for each of them.       *)

Jumps == Comparing \cup {"BEQ", "BNE", "J"}

(* sw of a register the next instruction computes: the store is the last   *)
(* stage, the ALU a stage before.                                          *)
StoreThenCompute(p) ==
  \E k \in 1..(Len(p) - 1) :
    p[k].op = "SW" /\ p[k + 1].op \in Arithmetic /\ p[k + 1].rd = p[k].rt

(* sw just before a jump: the jump resets the counter that would reach the *)
(* store.                                                                  *)
StoreThenJump(p) ==
  \E k \in 1..(Len(p) - 1) : p[k].op = "SW" /\ p[k + 1].op \in Jumps

PrintsVariable(i) == i.op = "PRINT" /\ i.imm # NoImm

(* A print of a variable in a program with jumps: it may get a slot that   *)
(* still names a register.                                                 *)
PrintAmongJumps(p) ==
  /\ \E k \in 1..Len(p) : PrintsVariable(p[k])
  /\ \E k \in 1..Len(p) : p[k].op \in Jumps

(* A jump to a jump.                                                       *)
JumpToJump(p) ==
  \E k \in 1..Len(p) : p[k].op \in Jumps /\ p[p[k].imm].op \in Jumps

(* Instructions the control unit does not execute, and a write of $zero.   *)
Unsupported(p) ==
  \E k \in 1..Len(p) : \/ p[k].op \in {"", "AND", "MULT", "BEQ", "BNE"}
                       \/ p[k].op \in Arithmetic /\ p[k].rd = "zero"
                       \/ p[k].op \in {"LI", "LA", "LW"} /\ p[k].rt = "zero"

(* What the Isa needs to say what an instruction does: the variable or the *)
(* register it names is there.                                             *)
Documented(i) ==
  /\ i.op = "END" => i = End
  /\ i.op \in {"LW", "SW"} \/ PrintsVariable(i) => i.imm \in Vars
  /\ i.op = "PRINT" /\ i.imm = NoImm => i.rt \in Regs

Regular(p) ==
  /\ \A k \in 1..Len(p) : Documented(p[k])
  /\ ~StoreThenCompute(p) /\ ~StoreThenJump(p) /\ ~PrintAmongJumps(p)
  /\ ~JumpToJump(p) /\ ~Unsupported(p)

(* What suffices for a call to end and not to crash, and is asked of the   *)
(* programs in the theorems: the registers and the targets are there, no   *)
(* jump leads to a jump, and there is no beq.                              *)
Names == Regs \cup {NoReg}
Operations == Identified \cup {"AND", "BNE", "END", ""}
Fields ==
  [op : Operations, rs : Names, rt : Names, rd : Names, imm : Nat \cup {NoImm}]

Executable(i, p) ==
  /\ i.op # "BEQ"
  /\ i.op \in Arithmetic \cup Comparing \cup {"BNE"} => i.rs \in Regs /\ i.rt \in Regs
  /\ i.op = "SW" => i.rt \in Regs
  /\ i.op \in Jumps => i.imm \in DOMAIN p /\ p[i.imm].op \notin Jumps

Lawful(p) ==
  /\ p \in Seq(Fields) \ {<<>>}
  /\ p[Len(p)] = End
  /\ \A k \in DOMAIN p : Executable(p[k], p)

-----------------------------------------------------------------------------
(* Properties.                                                             *)

(* The types of the machine, and of what is beside it.                     *)
Machines ==
  [code : Programs, quantum : Quanta, regs : [Regs -> Word], mem : [Vars -> Word],
   pc : Nat, ir : Fields, out : Seq(Word), data : [0..LastSlot -> Fields],
   counter : 0..(LastSlot + 5), counterForEnd : 0..5, clock : Nat,
   crashed : BOOLEAN, endProgram : BOOLEAN, endExecution : BOOLEAN, blocked : BOOLEAN]

(* Type correctness.                                                       *)
TypeOK ==
  /\ m \in Machines
  /\ m.pc \in 1..(Len(m.code) + 1)
  /\ m.clock <= m.quantum
  /\ state \in {"Ready", "Executing", "Finished"}
  /\ calls \in 0..MaxCalls
  /\ drain \in 0..MaxDrain

(* Where the process would go on.                                          *)
Resume == IF m.ir = End THEN m.pc - 1 ELSE m.pc

(* A call of Core returns with the registers, the data, the output and the *)
(* place in the program that executing its instructions one after the      *)
(* other gives, wherever the quantum or a print cut it short: preemption   *)
(* is transparent (Core, CONTROL_UNIT.cpp:24-60).                          *)
Precise ==
  /\ state # "Executing" =>
       m.regs = isa.regs /\ m.mem = isa.mem /\ m.out = isa.out
  /\ state = "Ready" => Resume = isa.pc
  /\ state = "Finished" => m.code[isa.pc] = End

(* The requests are pushed in program order although the two kinds of      *)
(* print do it in different stages (CONTROL_UNIT.cpp:176-188, 454-464).    *)
PrintsInOrder ==
  /\ Len(m.out) <= Len(isa.out) /\ Len(isa.out) <= Len(m.out) + 1
  /\ SubSeq(isa.out, 1, Len(m.out)) = m.out

(* Once a call is to end, for whatever reason, it ends within six turns,   *)
(* even when a jump taken meanwhile refills the pipeline                   *)
(* (CONTROL_UNIT.cpp:49-55, 368-370).                                      *)
DrainBounded == drain <= 6

(* What is in the ir and in the slots can be executed, and there is an     *)
(* instruction to fetch unless the last one, an END, is in the ir.         *)
Decodable ==
  /\ Executable(m.ir, m.code)
  /\ \A k \in 0..LastSlot : Executable(m.data[k], m.code)
  /\ m.pc > Len(m.code) => m.ir = End

(* A jump taken while the call ends leaves an empty pipeline, and in front *)
(* of it an instruction that is not a jump.                                *)
Refilled ==
  /\ m.counter + m.counterForEnd = 5
  /\ m.counterForEnd = 4 => m.ir.op \notin Jumps
  /\ m.counterForEnd = 3 => m.data[0].op \notin Jumps

(* How a call counts: no slot is decoded beyond the quantum, and a call    *)
(* that ends counts down, from the start again at most once.               *)
Drains ==
  IF m.endExecution
  THEN /\ m.counterForEnd <= 4
       /\ m.counter + m.counterForEnd <= m.quantum + 4
       /\ drain + m.counterForEnd <= 4 \/ (drain + m.counterForEnd <= 6 /\ Refilled)
  ELSE m.counterForEnd = 5 /\ drain = 0 /\ m.counter <= m.clock /\ m.clock < m.quantum

(* What DrainBounded and NoCrash rest on: with TypeOK, the inductive       *)
(* invariant of their proofs (CONTROL_UNIT.cpp:24-56, 82-140, 385-393).    *)
CallInv ==
  /\ Decodable
  /\ state = "Executing" => Drains
  /\ DrainBounded
  /\ ~m.crashed

(* A call that does not finish the program executes some of it, or leaves  *)
(* the END in the ir for the next: a process cannot be dispatched for ever *)
(* without getting on, however short its quantum.                          *)
Progress == state = "Ready" /\ calls > 0 => advanced \/ m.ir = End

(* The machine once the instructions executed but still on their way to    *)
(* the memory and the write back have got there.                           *)
Flushed(x) ==
  LET w == AfterMemory(x, FALSE) IN
  IF AtMemory(x) THEN WriteBack(w, x.data[x.counter - 3]) ELSE w

(* Flushed, the machine is in the state of the Isa.                        *)
CaughtUp ==
  LET z == Flushed(m) IN isa.regs = z.regs /\ isa.mem = z.mem /\ isa.out = z.out

(* The ir holds the i-th instruction.  A jump to an END leaves the pc on   *)
(* it: Fetch does not go past an END.                                      *)
Holding(i) ==
  \/ i = 0 /\ m.pc = 1 /\ m.ir = EmptySlot
  \/ /\ i \in DOMAIN m.code /\ m.ir = m.code[i]
     /\ m.pc = i + 1 \/ (m.pc = i /\ m.endProgram)

(* The Isa is about to execute the instruction in the ir, the one after it *)
(* when that has been executed, or the one before it when that is decoded  *)
(* but not executed.  An END is never left behind.                         *)
Place(i) ==
  IF m.counter = 0 \/ m.counterForEnd <= 2
  THEN isa.pc = IF m.ir = End THEN i ELSE i + 1
  ELSE IF m.counter = 1 \/ m.counterForEnd = 3
  THEN isa.pc = i
  ELSE \/ isa.pc = i - 1 /\ m.code[isa.pc] # End
       \/ isa.pc = i /\ m.ir = End /\ m.endProgram

(* The slot to execute next is what Decode makes of the next instruction   *)
(* of the Isa, and a slot that will print a variable names no register:    *)
(* without jumps no slot is used twice.                                    *)
SlotsDecoded ==
  /\ AtExecute(m) =>
       LET i == m.code[isa.pc]
           s == m.data[m.counter - 2] IN
       Decoded(i, s) = s /\ (PrintsVariable(i) => s.rt = NoReg)
  /\ (\A k \in DOMAIN m.code : m.code[k].op \notin Jumps) /\ m.counterForEnd >= 4 =>
       \A k \in 0..LastSlot : k >= m.counter - 1 => m.data[k].rt = NoReg

(* A store on its way is of the instruction just executed.                 *)
StoreInFlight ==
  AtMemory(m) /\ m.data[m.counter - 3].op = "SW" =>
    /\ isa.pc > 1
    /\ m.code[isa.pc - 1].op = "SW"
    /\ m.code[isa.pc - 1].rt = m.data[m.counter - 3].rt

(* The control variables between and at the end of calls.                  *)
Settings ==
  /\ m.counter + m.counterForEnd >= 5
  /\ m.endProgram => m.ir = End /\ m.counterForEnd <= 4
  /\ state # "Executing" => m.counterForEnd = 0 \/ (m.counter = 0 /\ calls = 0)
  /\ state = "Ready" => ~m.endProgram
  /\ state = "Finished" => m.endProgram
  /\ m.counter >= 3 \/ m.counterForEnd <= 2 => advanced \/ m.ir = End

States == [regs : [Regs -> Word], mem : [Vars -> Word], pc : Nat, out : Seq(Word)]

(* What Precise, PrintsInOrder and Progress rest on, and with TypeOK and   *)
(* CallInv the inductive invariant of their proofs: the Isa is the machine *)
(* with its pipeline flushed, turn by turn (Core, CONTROL_UNIT.cpp:24-56). *)
InStep ==
  /\ isa \in States /\ isa.pc \in DOMAIN m.code
  /\ Settings
  /\ \E i \in 0..Len(m.code) : Holding(i) /\ Place(i)
  /\ SlotsDecoded
  /\ StoreInFlight
  /\ CaughtUp

(* No instruction takes the program down: the accessors of the register    *)
(* bank are only called with the name of a register                        *)
(* (CONTROL_UNIT.cpp:313-347, 355-438, 455).                               *)
NoCrash == ~m.crashed

-----------------------------------------------------------------------------
(* What the documents say.                                                 *)

(* A finished program has done what README.MD says its instructions do     *)
(* (README.MD:196, 254-269).                                               *)
AsDocumented ==
  state = "Finished" => m.regs = isa.regs /\ m.mem = isa.mem /\ m.out = isa.out

(* "executa esse processo por um determinado quantum"                      *)
(* (SO__Multicore.pdf, page 2): a call of Core returns after the quantum.  *)
QuantumEndsCall ==
  state = "Executing" /\ m.clock = m.quantum ~> state # "Executing"

=============================================================================
