------------------------ MODULE PipelinePreciseProofs ------------------------
(***************************************************************************)
(* Proofs that the pipeline executes a program as the Isa does, whatever   *)
(* cuts its calls short, for any programs that are lawful and regular, any *)
(* registers, memory, width of a word and quanta.                          *)
(***************************************************************************)
EXTENDS PipelineProofs, SequenceTheorems

AllRegular == \A p \in Programs : Lawful(p) /\ Regular(p)

-----------------------------------------------------------------------------
(* What the stages do to the registers, the memory and the output.         *)

Stored(mem, regs, s) ==
  IF s.op = "SW" THEN WriteMem(mem, s.imm, regs[s.rt]) ELSE mem

Filled(regs, mem, s) ==
  IF s.op = "LW" THEN [regs EXCEPT ![s.rt] = ReadMem(mem, s.imm)]
  ELSE IF s.op \in {"LA", "LI"} THEN [regs EXCEPT ![s.rt] = Wrap(s.imm)]
  ELSE regs

PrintedLate(out, mem, s) ==
  IF s.op = "PRINT" /\ s.rt = NoReg THEN Append(out, ReadMem(mem, s.imm)) ELSE out

Computed(regs, s, junk) ==
  IF s.op \in {"ADD", "SUB", "MUL", "DIV"}
  THEN [regs EXCEPT ![s.rd] = Result(s.op, regs[s.rs], regs[s.rt], junk)]
  ELSE regs

PrintedEarly(out, regs, s) ==
  IF s.op = "PRINT" /\ s.rt # NoReg THEN Append(out, regs[s.rt]) ELSE out

LEMMA WriteBackState ==
  ASSUME NEW x \in Machines, NEW s, NEW y, y = WriteBack(x, s)
  PROVE  y.regs = x.regs /\ y.out = x.out /\ y.mem = Stored(x.mem, x.regs, s)
<1>1. CASE s.op = "SW"
  <2> DEFINE n == WriteMem(x.mem, s.imm, x.regs[s.rt])
  <2>1. y = [x EXCEPT !.mem = n]
    BY <1>1 DEF WriteBack
  <2>2. Stored(x.mem, x.regs, s) = n
    BY <1>1 DEF Stored
  <2> HIDE DEF n
  <2> QED BY <2>1, <2>2 DEF Machines
<1>2. CASE s.op # "SW"
  BY <1>2 DEF WriteBack, Stored
<1> QED BY <1>1, <1>2

LEMMA PushRequestState ==
  ASSUME NEW x \in Machines, NEW value, NEW printLock, NEW y, y = PushRequest(x, value, printLock)
  PROVE  y.regs = x.regs /\ y.mem = x.mem /\ y.out = Append(x.out, value)
<1> DEFINE o == Append(x.out, value)
           b == x.blocked \/ printLock
           e == x.endExecution \/ printLock
<1>1. y = [x EXCEPT !.out = o, !.blocked = b, !.endExecution = e]
  BY DEF PushRequest
<1> HIDE DEF o, b, e
<1>2. y.regs = x.regs /\ y.mem = x.mem /\ y.out = o
  BY <1>1 DEF Machines
<1> QED BY <1>2 DEF o

LEMMA RegisterState ==
  ASSUME NEW x \in Machines, NEW r, NEW value,
         NEW y, y = [x EXCEPT !.regs = [@ EXCEPT ![r] = value]]
  PROVE  y.regs = [x.regs EXCEPT ![r] = value] /\ y.mem = x.mem /\ y.out = x.out
<1> DEFINE g == [x.regs EXCEPT ![r] = value]
<1>1. y = [x EXCEPT !.regs = g]
  OBVIOUS
<1> HIDE DEF g
<1>2. y.regs = g /\ y.mem = x.mem /\ y.out = x.out
  BY <1>1 DEF Machines
<1> QED BY <1>2 DEF g

LEMMA MemoryAccessState ==
  ASSUME NEW x \in Machines, NEW s, NEW printLock, NEW y, y = MemoryAccess(x, s, printLock)
  PROVE  /\ y.mem = x.mem
         /\ y.regs = Filled(x.regs, x.mem, s)
         /\ y.out = PrintedLate(x.out, x.mem, s)
<1>1. CASE s.op = "LW"
  <2>1. y = [x EXCEPT !.regs = [@ EXCEPT ![s.rt] = ReadMem(x.mem, s.imm)]]
    BY <1>1, Zenon DEF MemoryAccess
  <2>2. /\ Filled(x.regs, x.mem, s) = [x.regs EXCEPT ![s.rt] = ReadMem(x.mem, s.imm)]
        /\ PrintedLate(x.out, x.mem, s) = x.out
    BY <1>1 DEF Filled, PrintedLate
  <2> QED BY <2>1, <2>2, RegisterState
<1>2. CASE s.op \in {"LA", "LI"}
  <2>1. y = [x EXCEPT !.regs = [@ EXCEPT ![s.rt] = Wrap(s.imm)]]
    BY <1>2, Zenon DEF MemoryAccess
  <2>2. /\ Filled(x.regs, x.mem, s) = [x.regs EXCEPT ![s.rt] = Wrap(s.imm)]
        /\ PrintedLate(x.out, x.mem, s) = x.out
    BY <1>2 DEF Filled, PrintedLate
  <2> QED BY <2>1, <2>2, RegisterState
<1>3. CASE s.op = "PRINT" /\ s.rt = NoReg
  <2>1. y = PushRequest(x, ReadMem(x.mem, s.imm), printLock)
    BY <1>3, Zenon DEF MemoryAccess
  <2>2. /\ Filled(x.regs, x.mem, s) = x.regs
        /\ PrintedLate(x.out, x.mem, s) = Append(x.out, ReadMem(x.mem, s.imm))
    BY <1>3 DEF Filled, PrintedLate
  <2> QED BY <2>1, <2>2, PushRequestState
<1>4. CASE s.op \notin {"LW", "LA", "LI"} /\ ~(s.op = "PRINT" /\ s.rt = NoReg)
  <2>1. y = x
    BY <1>4, Zenon DEF MemoryAccess
  <2>2. Filled(x.regs, x.mem, s) = x.regs /\ PrintedLate(x.out, x.mem, s) = x.out
    BY <1>4 DEF Filled, PrintedLate
  <2> QED BY <2>1, <2>2
<1> QED BY <1>1, <1>2, <1>3, <1>4

(* Execute of anything but a jump.                                         *)
LEMMA ExecuteState ==
  ASSUME NEW x \in Machines, NEW s, s.op \notin Jumps, NEW printLock, NEW junk,
         NEW y, y = Execute(x, s, printLock, junk)
  PROVE  /\ y.mem = x.mem
         /\ y.regs = Computed(x.regs, s, junk)
         /\ y.out = PrintedEarly(x.out, x.regs, s)
<1> DEFINE arithmetic == {"ADD", "SUB", "MUL", "DIV"}
<1>0. s.op \notin Comparing \cup {"J", "BEQ", "BNE"}
  BY DEF Jumps
<1>1. CASE s.op \in arithmetic
  <2>1. y = [x EXCEPT !.regs = [@ EXCEPT ![s.rd] =
                 Result(s.op, x.regs[s.rs], x.regs[s.rt], junk)]]
    <3> HIDE DEF arithmetic
    <3>1. y = ExecuteArithmetic(x, s, junk)
      <4>1. s.op # "PRINT"
        BY <1>1 DEF arithmetic
      <4> QED BY <1>0, <1>1, <4>1, Zenon DEF Execute, arithmetic
    <3> QED BY <3>1 DEF ExecuteArithmetic
  <2>2. /\ Computed(x.regs, s, junk) =
             [x.regs EXCEPT ![s.rd] = Result(s.op, x.regs[s.rs], x.regs[s.rt], junk)]
        /\ PrintedEarly(x.out, x.regs, s) = x.out
    BY <1>1 DEF Computed, PrintedEarly
  <2> QED BY <2>1, <2>2, RegisterState
<1>2. CASE s.op = "PRINT" /\ s.rt # NoReg
  <2>1. y = PushRequest(x, x.regs[s.rt], printLock)
    BY <1>0, <1>2, Zenon DEF Execute
  <2>2. /\ Computed(x.regs, s, junk) = x.regs
        /\ PrintedEarly(x.out, x.regs, s) = Append(x.out, x.regs[s.rt])
    BY <1>2 DEF Computed, PrintedEarly
  <2> QED BY <2>1, <2>2, PushRequestState
<1>3. CASE s.op \notin arithmetic /\ ~(s.op = "PRINT" /\ s.rt # NoReg)
  <2>1. y = x
    BY <1>0, <1>3, Zenon DEF Execute
  <2>2. Computed(x.regs, s, junk) = x.regs /\ PrintedEarly(x.out, x.regs, s) = x.out
    BY <1>3 DEF Computed, PrintedEarly
  <2> QED BY <2>1, <2>2
<1> QED BY <1>1, <1>2, <1>3

(* Execute of a jump.                                                      *)
Taken(regs, s) == s.op = "J" \/ Holds(s.op, regs[s.rs], regs[s.rt])

LEMMA ExecuteJump ==
  ASSUME NEW x \in Machines, NEW s \in Fields, Executable(s, x.code), Lawful(x.code),
         s.op \in Jumps, NEW printLock, NEW junk,
         NEW y, y = Execute(x, s, printLock, junk)
  PROVE  y = IF Taken(x.regs, s) THEN Jump(x, s) ELSE x
<1>1. s.op \notin {"ADD", "SUB", "MUL", "DIV"} /\ s.op # "PRINT"
  BY DEF Jumps, Comparing
<1>2. s.op \in Comparing \cup {"J", "BEQ", "BNE"}
  BY DEF Jumps
<1>3. y = ExecuteLoop(x, s)
  BY <1>1, <1>2, Zenon DEF Execute
<1>4. s.op # "J" => ~Throws(x, s)
  <2>1. s.op # "J" => s.rs \in Regs /\ s.rt \in Regs
    BY <1>2 DEF Executable, Jumps
  <2>2. s.imm # NoImm
    BY DEF Executable, Lawful, NoImm
  <2> QED BY <2>1, <2>2, PipelineAssumption DEF Throws
<1> QED BY <1>3, <1>4, Zenon DEF ExecuteLoop, Taken

LEMMA JumpState ==
  ASSUME NEW x \in Machines, NEW s, NEW y, y = Jump(x, s)
  PROVE  /\ y.regs = x.regs /\ y.mem = x.mem /\ y.out = x.out
         /\ y.pc = s.imm /\ y.ir = x.code[s.imm]
BY DEF Jump, Machines

LEMMA AfterMemoryState ==
  ASSUME NEW x, Ready(x), NEW printLock \in BOOLEAN, NEW y, y = AfterMemory(x, printLock),
         NEW a, a = x.data[x.counter - 4], NEW b, b = x.data[x.counter - 3]
  PROVE  /\ y.mem = IF AtWriteBack(x) THEN Stored(x.mem, x.regs, a) ELSE x.mem
         /\ y.regs = IF AtMemory(x) THEN Filled(x.regs, y.mem, b) ELSE x.regs
         /\ y.out = IF AtMemory(x) THEN PrintedLate(x.out, y.mem, b) ELSE x.out
<1> DEFINE w == IF AtWriteBack(x) THEN WriteBack(x, a) ELSE x
<1>0. x \in Machines
  BY DEF Ready
<1>1. w \in Machines /\ Keeps(x, w)
  <2>1. CASE AtWriteBack(x)
    <3>1. 4 <= x.counter /\ x.counter - 4 <= LastSlot
      BY <1>0, <2>1, PipelineAssumption DEF AtWriteBack, Ready, Fits, Machines
    <3>2. a \in Fields /\ Executable(a, x.code)
      BY <3>1, Slot
    <3> QED BY <1>0, <2>1, <3>2, WriteBackKeeps
  <2>2. CASE ~AtWriteBack(x)
    BY <1>0, <2>2 DEF Keeps
  <2> QED BY <2>1, <2>2
<1>2. /\ w.regs = x.regs /\ w.out = x.out
      /\ w.mem = IF AtWriteBack(x) THEN Stored(x.mem, x.regs, a) ELSE x.mem
  BY <1>0, WriteBackState
<1>3. y = IF AtMemory(w) THEN MemoryAccess(w, w.data[w.counter - 3], printLock) ELSE w
  BY DEF AfterMemory
<1> HIDE DEF w
<1>4. AtMemory(w) = AtMemory(x) /\ w.data[w.counter - 3] = b
  BY <1>1 DEF Keeps, AtMemory
<1>5. y = IF AtMemory(x) THEN MemoryAccess(w, b, printLock) ELSE w
  BY <1>3, <1>4
<1>6. /\ y.mem = w.mem
      /\ y.regs = IF AtMemory(x) THEN Filled(w.regs, w.mem, b) ELSE w.regs
      /\ y.out = IF AtMemory(x) THEN PrintedLate(w.out, w.mem, b) ELSE w.out
  BY <1>1, <1>5, MemoryAccessState
<1> QED BY <1>2, <1>6

(* Whatever printLock is, flushing leaves what the turn leaves, and the    *)
(* store of the slot that was in the memory stage.                         *)
LEMMA FlushedState ==
  ASSUME NEW x, Ready(x), NEW printLock \in BOOLEAN, NEW y, y = AfterMemory(x, printLock),
         NEW b, b = x.data[x.counter - 3], NEW z, z = Flushed(x)
  PROVE  /\ z \in Machines
         /\ z.regs = y.regs /\ z.out = y.out
         /\ z.mem = IF AtMemory(x) THEN Stored(y.mem, y.regs, b) ELSE y.mem
<1> DEFINE w == AfterMemory(x, FALSE)
<1>1. w \in Machines /\ Keeps(x, w)
  BY AfterMemoryKeeps
<1>2. w.regs = y.regs /\ w.out = y.out /\ w.mem = y.mem
  <2> DEFINE a == x.data[x.counter - 4]
  <2>1. ASSUME NEW u \in BOOLEAN, NEW v, v = AfterMemory(x, u)
        PROVE  /\ v.mem = IF AtWriteBack(x) THEN Stored(x.mem, x.regs, a) ELSE x.mem
               /\ v.regs = IF AtMemory(x) THEN Filled(x.regs, v.mem, b) ELSE x.regs
               /\ v.out = IF AtMemory(x) THEN PrintedLate(x.out, v.mem, b) ELSE x.out
    BY <2>1, AfterMemoryState
  <2>2. FALSE \in BOOLEAN /\ w = AfterMemory(x, FALSE)
    OBVIOUS
  <2> HIDE DEF a, w
  <2> QED BY <2>1, <2>2
<1>3. z = IF AtMemory(x) THEN WriteBack(w, b) ELSE w
  BY DEF Flushed
<1> HIDE DEF w
<1>4. AtMemory(x) => b \in Fields /\ Executable(b, w.code)
  <2>1. ASSUME AtMemory(x) PROVE 3 <= x.counter /\ x.counter - 3 <= LastSlot
    BY <2>1, PipelineAssumption DEF AtMemory, Ready, Fits, Machines
  <2>2. w.code = x.code
    BY <1>1 DEF Keeps
  <2> QED BY <2>1, <2>2, Slot
<1>5. z \in Machines
  BY <1>1, <1>3, <1>4, WriteBackKeeps
<1>6. AtMemory(x) => z.regs = w.regs /\ z.out = w.out /\ z.mem = Stored(w.mem, w.regs, b)
  BY <1>1, <1>3, WriteBackState
<1>7. ~AtMemory(x) => z = w
  BY <1>3
<1> QED BY <1>2, <1>5, <1>6, <1>7

-----------------------------------------------------------------------------
(* A slot and the instruction it was decoded from.                         *)

Supported == {"ADD", "SUB", "DIV", "LI", "LA", "LW", "SW", "BLT", "BLTI", "BGT", "BGTI",
              "J", "PRINT", "END"}

(* What the regular programs leave for an instruction to be.               *)
LEMMA RegularInstruction ==
  ASSUME NEW p, Lawful(p), Regular(p), NEW k \in DOMAIN p, NEW i, i = p[k]
  PROVE  /\ i \in Fields /\ Executable(i, p) /\ Documented(i) /\ i.op \in Supported
         /\ i.op \in Arithmetic => i.rd # "zero"
         /\ i.op \in {"LI", "LA", "LW"} => i.rt # "zero"
<1>1. p \in Seq(Fields) /\ k \in 1..Len(p) /\ Executable(i, p)
  BY DEF Lawful
<1>2. i \in Fields
  BY <1>1
<1>3. Documented(i)
  BY <1>1 DEF Regular
<1>4. /\ i.op \notin {"", "AND", "MULT", "BEQ", "BNE"}
      /\ ~(i.op \in Arithmetic /\ i.rd = "zero")
      /\ ~(i.op \in {"LI", "LA", "LW"} /\ i.rt = "zero")
  BY <1>1 DEF Regular, Unsupported
<1>5. i.op \in Supported
  BY <1>2, <1>4 DEF Fields, Operations, Identified, Arithmetic, Immediate, Comparing, Supported
<1> QED BY <1>1, <1>2, <1>3, <1>4, <1>5

(* Decoding twice is decoding once.                                        *)
LEMMA DecodedTwice ==
  ASSUME NEW i, NEW s, NEW d, d = Decoded(i, s)
  PROVE  Decoded(i, d) = d
BY DEF Decoded

(* The fields of a decoded slot that its operation uses.                   *)
LEMMA DecodedFields ==
  ASSUME NEW i, i.op \in Supported, NEW s, Decoded(i, s) = s
  PROVE  /\ s.op = IF i.op = "END" THEN "" ELSE i.op
         /\ i.op \in {"ADD", "SUB", "DIV"} => s.rs = i.rs /\ s.rt = i.rt /\ s.rd = i.rd
         /\ i.op \in Comparing => s.rs = i.rs /\ s.rt = i.rt /\ s.imm = i.imm
         /\ i.op \in {"LI", "LA", "LW", "SW"} => s.rt = i.rt /\ s.imm = i.imm
         /\ i.op = "J" => s.imm = i.imm
         /\ i.op = "PRINT" /\ i.imm = NoImm => s.rt = i.rt
         /\ PrintsVariable(i) => s.imm = i.imm
<1> DEFINE op == IF i.op \in Identified THEN i.op ELSE ""
<1>1. op = IF i.op = "END" THEN "" ELSE i.op
  BY DEF Supported, Identified, Arithmetic, Immediate, Comparing
<1>2. /\ s.op = op
      /\ s.rs = IF op \in Arithmetic \cup Comparing THEN i.rs ELSE s.rs
      /\ s.rt = IF op \in Arithmetic \cup Immediate \cup Comparing
                   \/ (op = "PRINT" /\ i.imm = NoImm) THEN i.rt ELSE s.rt
      /\ s.rd = IF op \in Arithmetic THEN i.rd ELSE s.rd
      /\ s.imm = IF op \in Immediate \cup Comparing \cup {"J"}
                    \/ (op = "PRINT" /\ i.imm # NoImm) THEN i.imm ELSE s.imm
  <2> DEFINE d == Decoded(i, s)
  <2>1. /\ d.op = op
        /\ d.rs = IF op \in Arithmetic \cup Comparing THEN i.rs ELSE s.rs
        /\ d.rt = IF op \in Arithmetic \cup Immediate \cup Comparing
                     \/ (op = "PRINT" /\ i.imm = NoImm) THEN i.rt ELSE s.rt
        /\ d.rd = IF op \in Arithmetic THEN i.rd ELSE s.rd
        /\ d.imm = IF op \in Immediate \cup Comparing \cup {"J"}
                      \/ (op = "PRINT" /\ i.imm # NoImm) THEN i.imm ELSE s.imm
    BY DEF Decoded
  <2>2. d = s
    OBVIOUS
  <2> HIDE DEF d, op
  <2> QED BY <2>1, <2>2
<1> HIDE DEF op
<1>3. s.op = IF i.op = "END" THEN "" ELSE i.op
  BY <1>1, <1>2
<1>4. i.op \in {"ADD", "SUB", "DIV"} => s.rs = i.rs /\ s.rt = i.rt /\ s.rd = i.rd
  BY <1>1, <1>2 DEF Arithmetic
<1>5. i.op \in Comparing => s.rs = i.rs /\ s.rt = i.rt /\ s.imm = i.imm
  BY <1>1, <1>2 DEF Comparing
<1>6. i.op \in {"LI", "LA", "LW", "SW"} => s.rt = i.rt /\ s.imm = i.imm
  BY <1>1, <1>2 DEF Immediate
<1>7. i.op = "J" => s.imm = i.imm
  BY <1>1, <1>2
<1>8. i.op = "PRINT" /\ i.imm = NoImm => s.rt = i.rt
  BY <1>1, <1>2
<1>9. PrintsVariable(i) => s.imm = i.imm
  BY <1>1, <1>2 DEF PrintsVariable
<1> QED BY <1>3, <1>4, <1>5, <1>6, <1>7, <1>8, <1>9

-----------------------------------------------------------------------------
(* An instruction of the Isa, and what the stages do with its slot.        *)

LEMMA IsaState ==
  ASSUME NEW a \in States
  PROVE  /\ a = [regs |-> a.regs, mem |-> a.mem, pc |-> a.pc, out |-> a.out]
         /\ a.regs \in [Regs -> Word] /\ a.mem \in [Vars -> Word]
         /\ a.pc \in Nat /\ a.out \in Seq(Word)
BY DEF States

(* The operations of each case of IsaStep exclude the others.              *)
LEMMA Exclusive ==
  ASSUME NEW op
  PROVE  /\ op = "END" => op \notin {"LI", "LA"} /\ op # "LW" /\ op # "SW"
              /\ op \notin {"ADD", "SUB", "DIV"} /\ op # "MULT" /\ op # "J"
              /\ op \notin Branches /\ op # "PRINT"
         /\ op \in {"LI", "LA"} => op # "END" /\ op # "LW" /\ op # "SW"
              /\ op \notin {"ADD", "SUB", "DIV"} /\ op # "MULT" /\ op # "J"
              /\ op \notin Branches /\ op # "PRINT"
         /\ op = "LW" => op # "END" /\ op \notin {"LI", "LA"} /\ op # "SW"
              /\ op \notin {"ADD", "SUB", "DIV"} /\ op # "MULT" /\ op # "J"
              /\ op \notin Branches /\ op # "PRINT"
         /\ op = "SW" => op # "END" /\ op \notin {"LI", "LA"} /\ op # "LW"
              /\ op \notin {"ADD", "SUB", "DIV"} /\ op # "MULT" /\ op # "J"
              /\ op \notin Branches /\ op # "PRINT"
         /\ op \in {"ADD", "SUB", "DIV"} => op # "END" /\ op \notin {"LI", "LA"}
              /\ op # "LW" /\ op # "SW" /\ op # "MULT" /\ op # "J"
              /\ op \notin Branches /\ op # "PRINT"
         /\ op = "J" => op # "END" /\ op \notin {"LI", "LA"} /\ op # "LW" /\ op # "SW"
              /\ op \notin {"ADD", "SUB", "DIV"} /\ op # "MULT"
              /\ op \notin Branches /\ op # "PRINT"
         /\ op \in Branches => op # "END" /\ op \notin {"LI", "LA"} /\ op # "LW"
              /\ op # "SW" /\ op \notin {"ADD", "SUB", "DIV"} /\ op # "MULT" /\ op # "J"
              /\ op # "PRINT"
         /\ op = "PRINT" => op # "END" /\ op \notin {"LI", "LA"} /\ op # "LW" /\ op # "SW"
              /\ op \notin {"ADD", "SUB", "DIV"} /\ op # "MULT" /\ op # "J"
              /\ op \notin Branches
BY DEF Branches, Comparing

(* The instructions that jump, taken or not.                               *)
LEMMA IsaJump ==
  ASSUME NEW a \in States, NEW junk, NEW i,
         i.op \in Comparing \cup {"J"},
         NEW s, s.op = i.op, s.imm = i.imm, i.op # "J" => s.rs = i.rs /\ s.rt = i.rt,
         NEW b, b = IsaStep(a, i, junk)
  PROVE  /\ b = [regs |-> a.regs, mem |-> a.mem, pc |-> b.pc, out |-> a.out]
         /\ b.pc = IF Taken(a.regs, s) THEN s.imm ELSE a.pc + 1
<1>1. CASE i.op = "J"
  <2>1. b = [a EXCEPT !.pc = i.imm]
    BY <1>1, Exclusive, Zenon DEF IsaStep
  <2>2. Taken(a.regs, s)
    BY <1>1 DEF Taken
  <2> QED BY <2>1, <2>2 DEF States
<1>2. CASE i.op # "J"
  <2>1. i.op \in Branches /\ i.op \in Comparing
    BY <1>2 DEF Branches
  <2> DEFINE holds == Holds(i.op, a.regs[i.rs], a.regs[i.rt])
  <2>3. b = IF holds THEN [a EXCEPT !.pc = i.imm] ELSE [a EXCEPT !.pc = a.pc + 1]
    BY <2>1, Exclusive, Zenon DEF IsaStep
  <2>4. Taken(a.regs, s) <=> holds
    BY <1>2 DEF Taken
  <2> HIDE DEF holds
  <2>5. CASE holds
    BY <2>3, <2>4, <2>5 DEF States
  <2>6. CASE ~holds
    BY <2>3, <2>4, <2>6 DEF States
  <2> QED BY <2>5, <2>6
<1> QED BY <1>1, <1>2

(* The others, done by the stages one after the other.                     *)
LEMMA IsaOther ==
  ASSUME NEW a \in States, NEW junk, NEW i,
         i.op \in Supported, i.op \notin Jumps, Documented(i),
         i.op \in Arithmetic => i.rd # "zero",
         i.op \in {"LI", "LA", "LW"} => i.rt # "zero",
         NEW s, Decoded(i, s) = s, PrintsVariable(i) => s.rt = NoReg,
         NEW b, b = IsaStep(a, i, junk)
  PROVE  /\ b = [regs |-> b.regs, mem |-> b.mem, pc |-> b.pc, out |-> b.out]
         /\ b.regs = Filled(Computed(a.regs, s, junk), a.mem, s)
         /\ b.mem = Stored(a.mem, b.regs, s)
         /\ b.out = PrintedLate(PrintedEarly(a.out, a.regs, s), a.mem, s)
         /\ b.pc = IF i.op = "END" THEN a.pc ELSE a.pc + 1
<1> USE DEF Stored, Filled, PrintedLate, Computed, PrintedEarly
<1>0. /\ s.op = IF i.op = "END" THEN "" ELSE i.op
      /\ i.op \in {"ADD", "SUB", "DIV"} => s.rs = i.rs /\ s.rt = i.rt /\ s.rd = i.rd
      /\ i.op \in {"LI", "LA", "LW", "SW"} => s.rt = i.rt /\ s.imm = i.imm
      /\ i.op = "PRINT" /\ i.imm = NoImm => s.rt = i.rt
      /\ PrintsVariable(i) => s.imm = i.imm
  BY DecodedFields
<1> DEFINE n == [a EXCEPT !.pc = a.pc + 1]
<1>n. n.regs = a.regs /\ n.mem = a.mem /\ n.out = a.out /\ n.pc = a.pc + 1
  BY DEF States
<1>1. CASE i.op = "END"
  <2>1. b = a
    BY <1>1, Exclusive, Zenon DEF IsaStep
  <2> QED BY <1>0, <1>1, <2>1, IsaState
<1>2. CASE i.op \in {"LI", "LA"}
  <2> DEFINE r == [a.regs EXCEPT ![i.rt] = Wrap(i.imm)]
  <2>1. i.op \notin {"END"} /\ i.rt # "zero"
    BY <1>2
  <2>2. b = [n EXCEPT !.regs = r]
    BY <1>2, <2>1, Exclusive, Zenon DEF IsaStep, Write
  <2>3. /\ b = [regs |-> b.regs, mem |-> b.mem, pc |-> b.pc, out |-> b.out]
        /\ b.regs = r /\ b.mem = a.mem /\ b.out = a.out /\ b.pc = a.pc + 1
    <3> HIDE DEF r
    <3> QED BY <2>2 DEF States
  <2> QED BY <1>0, <1>2, <2>3
<1>3. CASE i.op = "LW"
  <2> DEFINE r == [a.regs EXCEPT ![i.rt] = a.mem[i.imm]]
  <2>1. i.op \notin {"END", "LI", "LA"} /\ i.rt # "zero"
    BY <1>3
  <2>2. b = [n EXCEPT !.regs = r]
    BY <1>3, <2>1, Exclusive, Zenon DEF IsaStep, Write
  <2>3. /\ b = [regs |-> b.regs, mem |-> b.mem, pc |-> b.pc, out |-> b.out]
        /\ b.regs = r /\ b.mem = a.mem /\ b.out = a.out /\ b.pc = a.pc + 1
    <3> HIDE DEF r
    <3> QED BY <2>2 DEF States
  <2>4. ReadMem(a.mem, i.imm) = a.mem[i.imm]
    BY <1>3 DEF Documented, ReadMem, States
  <2> QED BY <1>0, <1>3, <2>3, <2>4
<1>4. CASE i.op = "SW"
  <2> DEFINE r == [a.mem EXCEPT ![i.imm] = a.regs[i.rt]]
  <2>1. i.op \notin {"END", "LI", "LA", "LW"}
    BY <1>4
  <2>2. b = [n EXCEPT !.mem = [@ EXCEPT ![i.imm] = a.regs[i.rt]]]
    BY <1>4, <2>1, Exclusive, Zenon DEF IsaStep
  <2>3. b = [n EXCEPT !.mem = r]
    BY <1>n, <2>2
  <2>4. /\ b = [regs |-> b.regs, mem |-> b.mem, pc |-> b.pc, out |-> b.out]
        /\ b.regs = a.regs /\ b.mem = r /\ b.out = a.out /\ b.pc = a.pc + 1
    <3> HIDE DEF r
    <3> QED BY <2>3 DEF States
  <2>5. WriteMem(a.mem, i.imm, a.regs[i.rt]) = r
    BY <1>4 DEF Documented, WriteMem, States
  <2> QED BY <1>0, <1>4, <2>4, <2>5
<1>5. CASE i.op \in {"ADD", "SUB", "DIV"}
  <2> DEFINE r == [a.regs EXCEPT ![i.rd] = Result(i.op, a.regs[i.rs], a.regs[i.rt], junk)]
  <2>1. i.op \notin {"END", "LI", "LA", "LW", "SW"} /\ i.rd # "zero"
    BY <1>5 DEF Arithmetic
  <2>2. b = [n EXCEPT !.regs = r]
    BY <1>5, <2>1, Exclusive, Zenon DEF IsaStep, Write
  <2>3. /\ b = [regs |-> b.regs, mem |-> b.mem, pc |-> b.pc, out |-> b.out]
        /\ b.regs = r /\ b.mem = a.mem /\ b.out = a.out /\ b.pc = a.pc + 1
    <3> HIDE DEF r
    <3> QED BY <2>2 DEF States
  <2> QED BY <1>0, <1>5, <2>3
<1>6. CASE i.op = "PRINT"
  <2> DEFINE v == IF i.imm = NoImm THEN a.regs[i.rt] ELSE a.mem[i.imm]
  <2>1. i.op \notin {"END", "LI", "LA", "LW", "SW", "ADD", "SUB", "DIV", "MULT", "J"} \cup Branches
    BY <1>6 DEF Branches, Comparing
  <2>2. b = [n EXCEPT !.out = Append(@, v)]
    BY <1>6, <2>1, Exclusive, Zenon DEF IsaStep
  <2>3. /\ b = [regs |-> b.regs, mem |-> b.mem, pc |-> b.pc, out |-> b.out]
        /\ b.regs = a.regs /\ b.mem = a.mem /\ b.out = Append(a.out, v) /\ b.pc = a.pc + 1
    <3> HIDE DEF v
    <3> QED BY <2>2 DEF States
  <2>4. CASE i.imm = NoImm
    <3>1. s.rt = i.rt /\ i.rt # NoReg
      BY <1>0, <1>6, <2>4, PipelineAssumption DEF Documented
    <3> QED BY <1>0, <1>6, <2>3, <2>4, <3>1
  <2>5. CASE i.imm # NoImm
    <3>1. PrintsVariable(i)
      BY <1>6, <2>5 DEF PrintsVariable
    <3>2. s.rt = NoReg /\ s.imm = i.imm /\ ReadMem(a.mem, i.imm) = a.mem[i.imm]
      BY <1>0, <3>1 DEF Documented, ReadMem, States
    <3> QED BY <1>0, <1>6, <2>3, <2>5, <3>2
  <2> QED BY <2>4, <2>5
<1> QED BY <1>1, <1>2, <1>3, <1>4, <1>5, <1>6 DEF Supported, Jumps, Comparing

-----------------------------------------------------------------------------
(* The turn of a program in step.                                          *)

LEMMA RegularLawful == ASSUME AllRegular PROVE AllLawful
BY DEF AllRegular, AllLawful

(* The instruction in the execute stage: its effects are those of the      *)
(* stage, then those of the two that follow.                               *)
Done(s, t, w, a, x, junk) ==
  /\ a.mem = w.mem
  /\ a.regs = Computed(w.regs, x, junk)
  /\ a.out = PrintedEarly(w.out, w.regs, x)
  /\ t.regs = Filled(Computed(s.regs, x, junk), s.mem, x)
  /\ t.mem = Stored(s.mem, t.regs, x)
  /\ t.out = PrintedLate(PrintedEarly(s.out, s.regs, x), s.mem, x)

(* And those of a jump that is taken.                                      *)
Redirected(s, t, w, a) ==
  /\ a.regs = w.regs /\ a.mem = w.mem /\ a.out = w.out
  /\ t.regs = s.regs /\ t.mem = s.mem /\ t.out = s.out
  /\ a.pc = t.pc /\ a.ir = w.code[t.pc]

(* A state of the Isa is no more than its registers, memory, pc and output. *)
Complete(t) == t = [regs |-> t.regs, mem |-> t.mem, pc |-> t.pc, out |-> t.out]

(* What the turn does to the instruction i, decoded into the slot x.       *)
Executed(i, x, w, a, t, junk) ==
  /\ i \in Fields /\ i.op \in Supported
  /\ x.op = IF i.op = "END" THEN "" ELSE i.op
  /\ i.op \in {"ADD", "SUB", "DIV"} => x.rd = i.rd
  /\ i.op = "SW" => x.rt = i.rt
  /\ Complete(t)
  /\ \/ /\ Keeps(m, a) /\ Done(isa, t, w, a, x, junk)
        /\ t.pc = IF i.op = "END" THEN isa.pc ELSE isa.pc + 1
     \/ i.op \in Jumps /\ Jumped(m, a) /\ Redirected(isa, t, w, a)

LEMMA Executing ==
  ASSUME AllRegular, IInv, state = "Executing", InStep, AtExecute(m),
         NEW printLock \in BOOLEAN, NEW junk \in Word,
         NEW i, i = m.code[isa.pc], NEW x, x = m.data[m.counter - 2],
         NEW w, w = AfterMemory(m, printLock),
         NEW a, a = AfterExecute(m, printLock, junk),
         NEW t, t = IsaStep(isa, i, junk)
  PROVE  Executed(i, x, w, a, t, junk)
<1> USE DEF Executed
<1>1. Ready(m) /\ m \in Machines /\ Lawful(m.code) /\ Regular(m.code)
  BY RegularLawful, ReadyMachine, Numbers DEF AllRegular, IInv, Ready
<1>2. isa \in States /\ isa.pc \in DOMAIN m.code
  BY DEF InStep
<1>3. /\ i \in Fields /\ Executable(i, m.code) /\ Documented(i) /\ i.op \in Supported
      /\ i.op \in Arithmetic => i.rd # "zero"
      /\ i.op \in {"LI", "LA", "LW"} => i.rt # "zero"
  BY <1>1, <1>2, RegularInstruction
<1>4. Decoded(i, x) = x /\ (PrintsVariable(i) => x.rt = NoReg)
  BY DEF InStep, SlotsDecoded
<1>5. /\ x.op = IF i.op = "END" THEN "" ELSE i.op
      /\ i.op \in {"ADD", "SUB", "DIV"} => x.rd = i.rd
      /\ i.op \in Comparing => x.rs = i.rs /\ x.rt = i.rt /\ x.imm = i.imm
      /\ i.op = "SW" => x.rt = i.rt
      /\ i.op = "J" => x.imm = i.imm
  BY <1>3, <1>4, DecodedFields
<1>6. w \in Machines /\ Keeps(m, w)
  BY <1>1, AfterMemoryKeeps
<1>7. x \in Fields /\ Executable(x, m.code)
  <2>1. 2 <= m.counter /\ m.counter - 2 <= LastSlot
    BY <1>1, PipelineAssumption DEF AtExecute, Ready, Fits, Machines
  <2> QED BY <1>1, <2>1, Slot
<1>8. a = Execute(w, x, printLock, junk)
  BY <1>6 DEF AfterExecute, Keeps, AtExecute
<1>9. a \in Machines /\ (Keeps(m, a) \/ Jumped(m, a))
  BY <1>1, AfterExecuteKeeps
<1>10. CASE i.op \notin Jumps
  <2>1. x.op \notin Jumps
    BY <1>5, <1>10 DEF Jumps, Comparing
  <2>2. /\ Done(isa, t, w, a, x, junk) /\ t.pc = IF i.op = "END" THEN isa.pc ELSE isa.pc + 1
        /\ Complete(t)
    <3>1. a.mem = w.mem /\ a.regs = Computed(w.regs, x, junk)
          /\ a.out = PrintedEarly(w.out, w.regs, x)
      BY <1>6, <1>8, <2>1, ExecuteState
    <3>2. /\ t.regs = Filled(Computed(isa.regs, x, junk), isa.mem, x)
          /\ t.mem = Stored(isa.mem, t.regs, x)
          /\ t.out = PrintedLate(PrintedEarly(isa.out, isa.regs, x), isa.mem, x)
          /\ t.pc = IF i.op = "END" THEN isa.pc ELSE isa.pc + 1
          /\ Complete(t)
      BY <1>2, <1>3, <1>4, <1>10, IsaOther DEF Complete
    <3> QED BY <3>1, <3>2 DEF Done
  <2>3. Keeps(m, a)
    <3>1. Keeps(w, a)
      <4>1. Executable(x, w.code) /\ Lawful(w.code)
        BY <1>1, <1>6, <1>7 DEF Keeps
      <4> QED BY <1>6, <1>7, <1>8, <2>1, <4>1, ExecuteKeeps
    <3> QED BY <1>6, <3>1 DEF Keeps
  <2> QED BY <1>3, <1>5, <2>2, <2>3
<1>11. CASE i.op \in Jumps
  <2>0. i.op \in Comparing \cup {"J"}
    BY <1>3, <1>11 DEF Supported, Jumps
  <2>1. x.op = i.op /\ x.op \in Jumps /\ x.imm = i.imm
    BY <1>5, <1>11, <2>0 DEF Comparing
  <2>2. a = IF Taken(w.regs, x) THEN Jump(w, x) ELSE w
    <3>1. Executable(x, w.code) /\ Lawful(w.code)
      BY <1>1, <1>6, <1>7 DEF Keeps
    <3> QED BY <1>6, <1>7, <1>8, <2>1, <3>1, ExecuteJump
  <2>3. /\ t.regs = isa.regs /\ t.mem = isa.mem /\ t.out = isa.out
        /\ t.pc = IF Taken(isa.regs, x) THEN x.imm ELSE isa.pc + 1
        /\ Complete(t)
    <3>1. i.op # "J" => x.rs = i.rs /\ x.rt = i.rt
      BY <1>5, <2>0
    <3> QED BY <1>2, <2>0, <2>1, <3>1, IsaJump DEF Complete
  <2>4. isa.regs = w.regs
    BY <1>1, FlushedState DEF InStep, CaughtUp
  <2>5. CASE Taken(w.regs, x)
    <3>1. a = Jump(w, x) /\ Jumped(w, a)
      <4>1. Executable(x, w.code) /\ Lawful(w.code)
        BY <1>1, <1>6, <1>7 DEF Keeps
      <4> QED BY <1>6, <1>7, <2>1, <2>2, <2>5, <4>1, JumpJumped
    <3>2. Jumped(m, a)
      BY <1>6, <3>1 DEF Keeps, Jumped
    <3>3. Redirected(isa, t, w, a)
      BY <1>6, <2>3, <2>4, <2>5, <3>1, JumpState DEF Redirected
    <3> QED BY <1>3, <1>5, <1>11, <2>3, <3>2, <3>3
  <2>6. CASE ~Taken(w.regs, x)
    <3>1. a = w
      BY <2>2, <2>6
    <3>2. x.op \notin {"ADD", "SUB", "MUL", "DIV", "LI", "LA", "LW", "SW", "PRINT"}
      BY <2>0, <2>1 DEF Comparing
    <3>3. Done(isa, t, w, a, x, junk)
      BY <2>3, <3>1, <3>2 DEF Done, Computed, PrintedEarly, PrintedLate, Filled, Stored
    <3>4. i.op # "END"
      BY <2>0 DEF Comparing
    <3> QED BY <1>3, <1>5, <1>6, <2>3, <2>4, <2>6, <3>1, <3>3, <3>4
  <2> QED BY <2>5, <2>6
<1> QED BY <1>10, <1>11

(* The rest of the turn, after the execute stage, but for the registers,   *)
(* the memory and the output: y is the machine at the start of the next.   *)
Moved(a, y) ==
  /\ y.code = a.code
  /\ y.data = IF AtDecode(a)
              THEN [a.data EXCEPT ![a.counter - 1] = Decoded(a.ir, a.data[a.counter - 1])]
              ELSE a.data
  /\ IF AtFetch(a) /\ a.ir # End
     THEN y.ir = a.code[a.pc] /\ y.pc = a.pc + 1
     ELSE y.ir = a.ir /\ y.pc = a.pc
  /\ y.endProgram <=> a.endProgram \/ (AtFetch(a) /\ a.ir = End)
  /\ y.counter = a.counter + 1
  /\ y.counterForEnd \in {a.counterForEnd, a.counterForEnd - 1}
  /\ a.endExecution \/ y.endProgram => y.counterForEnd = a.counterForEnd - 1

(* The turn, but for the count of its clock.                               *)
Clocked(x, printLock, junk, k) == [Turn(x, printLock, junk) EXCEPT !.clock = k]

LEMMA TurnTicks ==
  ASSUME NEW x, NEW printLock, NEW junk, NEW k,
         NEW a, a = AfterExecute(x, printLock, junk), a \in Machines,
         NEW y, y = Clocked(x, printLock, junk, k)
  PROVE  Moved(a, y) /\ y.regs = a.regs /\ y.mem = a.mem /\ y.out = a.out
<1> DEFINE d == IF AtDecode(a) THEN Decode(a, a.counter - 1) ELSE a
           z == IF AtFetch(d) THEN Fetch(d) ELSE d
           data == IF AtDecode(a)
              THEN [a.data EXCEPT ![a.counter - 1] = Decoded(a.ir, a.data[a.counter - 1])]
              ELSE a.data
           fetches == AtFetch(a) /\ a.ir # End
           ends == AtFetch(a) /\ a.ir = End
           ir == IF fetches THEN a.code[a.pc] ELSE a.ir
           pc == IF fetches THEN a.pc + 1 ELSE a.pc
           over == IF ends THEN TRUE ELSE a.endProgram
<1>1. y = [Tick(z) EXCEPT !.clock = k]
  BY DEF Turn, Clocked
<1>2. d = [a EXCEPT !.data = data]
  <2>1. CASE AtDecode(a)
    BY <2>1 DEF Decode
  <2>2. CASE ~AtDecode(a)
    BY <2>2 DEF Machines
  <2> QED BY <2>1, <2>2
<1>3. z = IF AtFetch(d) THEN Fetch(d) ELSE d
  OBVIOUS
<1> HIDE DEF d, z, data
<1>4. z = [a EXCEPT !.data = data, !.ir = ir, !.pc = pc, !.endProgram = over]
  <2>1. d.ir = a.ir /\ d.code = a.code /\ d.pc = a.pc /\ AtFetch(d) = AtFetch(a)
        /\ d.endProgram = a.endProgram
    BY <1>2 DEF Machines, AtFetch
  <2>2. CASE ends
    <3>1. z = [d EXCEPT !.endProgram = TRUE]
      BY <1>3, <2>1, <2>2 DEF Fetch
    <3> QED BY <1>2, <2>2, <3>1 DEF Machines
  <2>3. CASE fetches
    <3>1. z = [d EXCEPT !.ir = a.code[a.pc], !.pc = a.pc + 1]
      BY <1>3, <2>1, <2>3 DEF Fetch
    <3> QED BY <1>2, <2>3, <3>1 DEF Machines
  <2>4. CASE ~AtFetch(a)
    <3>1. z = d
      BY <1>3, <2>1, <2>4
    <3> QED BY <1>2, <2>4, <3>1 DEF Machines
  <2> QED BY <2>2, <2>3, <2>4
<1> DEFINE ending == z.endExecution \/ z.clock + 1 >= z.quantum \/ z.endProgram
           left == IF ending THEN z.counterForEnd - 1 ELSE z.counterForEnd
<1>5. over \in BOOLEAN /\ (over <=> a.endProgram \/ ends)
  BY DEF Machines
<1> HIDE DEF over, ir, pc
<1>6. /\ z.regs = a.regs /\ z.mem = a.mem /\ z.out = a.out /\ z.code = a.code
      /\ z.data = data /\ z.ir = ir /\ z.pc = pc /\ z.endProgram = over
      /\ z.counter = a.counter /\ z.counterForEnd = a.counterForEnd
      /\ z.endExecution = a.endExecution
  BY <1>4 DEF Machines
<1>7. y = [z EXCEPT !.counter = z.counter + 1, !.clock = k,
                    !.endExecution = ending, !.counterForEnd = left]
  <2>1. Tick(z) = [z EXCEPT !.counter = z.counter + 1, !.clock = z.clock + 1,
                            !.endExecution = ending, !.counterForEnd = left]
    BY DEF Tick
  <2> DEFINE T == Tick(z)
  <2>2. T = [z EXCEPT !.counter = z.counter + 1, !.clock = z.clock + 1,
                      !.endExecution = ending, !.counterForEnd = left]
    BY <2>1
  <2>3. y = [T EXCEPT !.clock = k]
    BY <1>1
  <2>4. DOMAIN z = DOMAIN a /\ "clock" \in DOMAIN a /\ z = [f \in DOMAIN z |-> z[f]]
    BY <1>4 DEF Machines
  <2> HIDE DEF ending, left, T
  <2> QED BY <2>2, <2>3, <2>4
<1>8. /\ left \in {z.counterForEnd, z.counterForEnd - 1}
      /\ z.endExecution \/ z.endProgram => left = z.counterForEnd - 1
  OBVIOUS
<1> HIDE DEF ending, left
<1>9. /\ y.regs = z.regs /\ y.mem = z.mem /\ y.out = z.out /\ y.code = z.code
      /\ y.data = z.data /\ y.ir = z.ir /\ y.pc = z.pc /\ y.endProgram = z.endProgram
      /\ y.counter = z.counter + 1 /\ y.counterForEnd = left
  BY <1>4, <1>7 DEF Machines
<1>10. y.endProgram <=> a.endProgram \/ ends
  BY <1>5, <1>6, <1>9
<1>11. a.endExecution \/ y.endProgram => y.counterForEnd = a.counterForEnd - 1
  <2>1. y.endProgram = z.endProgram /\ z.endExecution = a.endExecution
    BY <1>6, <1>9
  <2>2. y.counterForEnd = left /\ z.counterForEnd = a.counterForEnd
    BY <1>6, <1>9
  <2> QED BY <1>8, <2>1, <2>2, Zenon
<1>12. /\ y.counter = a.counter + 1
       /\ y.counterForEnd \in {a.counterForEnd, a.counterForEnd - 1}
  BY <1>6, <1>8, <1>9
<1>13. IF fetches THEN y.ir = a.code[a.pc] /\ y.pc = a.pc + 1
                  ELSE y.ir = a.ir /\ y.pc = a.pc
  BY <1>6, <1>9 DEF ir, pc
<1>14. y.regs = a.regs /\ y.mem = a.mem /\ y.out = a.out /\ y.code = a.code /\ y.data = data
  BY <1>6, <1>9
<1> QED BY <1>10, <1>11, <1>12, <1>13, <1>14, Zenon DEF Moved, data

LEMMA KeptMoved ==
  ASSUME NEW x, NEW a, Keeps(x, a), NEW y, Moved(a, y) PROVE Moved(x, y)
<1>1. /\ x.code = a.code /\ x.data = a.data /\ x.ir = a.ir /\ x.pc = a.pc
      /\ x.counter = a.counter /\ x.counterForEnd = a.counterForEnd
      /\ x.endProgram = a.endProgram /\ (x.endExecution => a.endExecution)
  BY DEF Keeps
<1>2. AtDecode(x) = AtDecode(a) /\ AtFetch(x) = AtFetch(a)
  BY <1>1 DEF AtDecode, AtFetch
<1>3. y.endProgram <=> x.endProgram \/ (AtFetch(x) /\ x.ir = End)
  BY <1>1, <1>2, Zenon DEF Moved
<1>4. x.endExecution \/ y.endProgram => y.counterForEnd = x.counterForEnd - 1
  BY <1>1, Zenon DEF Moved
<1>5. /\ y.code = x.code
      /\ y.data = IF AtDecode(x)
              THEN [x.data EXCEPT ![x.counter - 1] = Decoded(x.ir, x.data[x.counter - 1])]
              ELSE x.data
      /\ IF AtFetch(x) /\ x.ir # End
         THEN y.ir = x.code[x.pc] /\ y.pc = x.pc + 1
         ELSE y.ir = x.ir /\ y.pc = x.pc
      /\ y.counter = x.counter + 1
      /\ y.counterForEnd \in {x.counterForEnd, x.counterForEnd - 1}
  BY <1>1, <1>2 DEF Moved
<1> QED BY <1>3, <1>4, <1>5, Zenon DEF Moved

(* A turn without a jump moves each slot to the next stage.                *)
Shifted(x, y) ==
  /\ AtWriteBack(y) <=> AtMemory(x)
  /\ AtMemory(y) <=> AtExecute(x)
  /\ AtExecute(y) <=> AtDecode(x)
  /\ y.counterForEnd >= 4 => x.counterForEnd = 5
  /\ AtMemory(x) => y.data[y.counter - 4] = x.data[x.counter - 3]
  /\ AtExecute(x) => y.data[y.counter - 3] = x.data[x.counter - 2]
  /\ AtDecode(x) => y.data[y.counter - 2] = Decoded(x.ir, x.data[x.counter - 1])

(* A call counts down from the turn that is to end it.                     *)
Counting(x) ==
  /\ x.counter + x.counterForEnd >= 5
  /\ x.counterForEnd \in 1..5
  /\ x.counterForEnd <= 4 => x.endExecution

LEMMA Shifts ==
  ASSUME NEW x, Ready(x), Counting(x), NEW y, Moved(x, y)
  PROVE  Shifted(x, y) /\ y.counter + y.counterForEnd >= 5
<1>1. /\ x.counter \in Nat /\ LastSlot \in Nat /\ x.counterForEnd \in 1..5
      /\ x.counter + x.counterForEnd >= 5
      /\ x.counter + x.counterForEnd <= LastSlot + 5
  BY PipelineAssumption DEF Ready, Machines, Fits, Counting
<1>2. /\ y.counter = x.counter + 1
      /\ y.counterForEnd \in {x.counterForEnd, x.counterForEnd - 1}
      /\ x.counterForEnd <= 4 => y.counterForEnd = x.counterForEnd - 1
  BY DEF Counting, Moved
<1>3. /\ AtWriteBack(y) <=> AtMemory(x)
      /\ AtMemory(y) <=> AtExecute(x)
      /\ AtExecute(y) <=> AtDecode(x)
      /\ y.counterForEnd >= 4 => x.counterForEnd = 5
      /\ y.counter + y.counterForEnd >= 5
  BY <1>1, <1>2 DEF AtWriteBack, AtMemory, AtExecute, AtDecode
<1>4. x.data \in [0..LastSlot -> Fields]
  BY DEF Ready, Machines
<1>5. y.data = IF AtDecode(x)
         THEN [x.data EXCEPT ![x.counter - 1] = Decoded(x.ir, x.data[x.counter - 1])]
         ELSE x.data
  BY DEF Moved
<1> DEFINE d == Decoded(x.ir, x.data[x.counter - 1])
<1> HIDE DEF d
<1>6. AtMemory(x) => y.data[y.counter - 4] = x.data[x.counter - 3]
  BY <1>1, <1>2, <1>4, <1>5 DEF AtMemory, d
<1>7. AtExecute(x) => y.data[y.counter - 3] = x.data[x.counter - 2]
  BY <1>1, <1>2, <1>4, <1>5 DEF AtExecute, d
<1>8. AtDecode(x) => y.data[y.counter - 2] = d
  BY <1>1, <1>2, <1>4, <1>5 DEF AtDecode, d
<1> QED BY <1>3, <1>6, <1>7, <1>8 DEF Shifted, d

-----------------------------------------------------------------------------
(* What a turn preserves: the parts of the invariant one after the other.  *)

(* Flushing the next machine does to the slots in flight, one stage on,    *)
(* what it did to them, and to the one executed what the Isa does at once: *)
(* no store on its way sees what the execute stage writes.                 *)
LEMMA CaughtUpOnward ==
  ASSUME Ready(m), Ready(m'), CaughtUp, Shifted(m, m'),
         NEW printLock \in BOOLEAN, NEW w, w = AfterMemory(m, printLock),
         NEW junk, NEW a, m'.regs = a.regs, m'.mem = a.mem, m'.out = a.out,
         NEW x, x = m.data[m.counter - 2], NEW b, b = m.data[m.counter - 3],
         AtExecute(m) => Done(isa, isa', w, a, x, junk),
         ~AtExecute(m) => a = w /\ isa' = isa,
         AtExecute(m) /\ AtMemory(m) /\ b.op = "SW" /\ x.op \in {"ADD", "SUB", "MUL", "DIV"}
           => x.rd # b.rt
  PROVE  CaughtUp'
<1> DEFINE n == AfterMemory(m', FALSE)
           z == Flushed(m')
<1>1. w \in Machines /\ Keeps(m, w) /\ m \in Machines /\ FALSE \in BOOLEAN
  BY AfterMemoryKeeps DEF Ready
<1>2. /\ isa.regs = w.regs /\ isa.out = w.out
      /\ isa.mem = IF AtMemory(m) THEN Stored(w.mem, w.regs, b) ELSE w.mem
  BY FlushedState DEF CaughtUp
<1>3. /\ n.mem = IF AtMemory(m) THEN Stored(a.mem, a.regs, b) ELSE a.mem
      /\ n.regs = IF AtExecute(m) THEN Filled(a.regs, n.mem, x) ELSE a.regs
      /\ n.out = IF AtExecute(m) THEN PrintedLate(a.out, n.mem, x) ELSE a.out
      /\ z.regs = n.regs /\ z.out = n.out
      /\ z.mem = IF AtExecute(m) THEN Stored(n.mem, n.regs, x) ELSE n.mem
  <2> DEFINE c == m'.data[m'.counter - 4]
             d == m'.data[m'.counter - 3]
  <2>1. n = AfterMemory(m', FALSE) /\ z = Flushed(m') /\ FALSE \in BOOLEAN
    OBVIOUS
  <2>2. ASSUME NEW u \in BOOLEAN, NEW v, v = AfterMemory(m', u), NEW f, f = Flushed(m')
        PROVE  /\ v.mem = IF AtWriteBack(m') THEN Stored(m'.mem, m'.regs, c) ELSE m'.mem
               /\ v.regs = IF AtMemory(m') THEN Filled(m'.regs, v.mem, d) ELSE m'.regs
               /\ v.out = IF AtMemory(m') THEN PrintedLate(m'.out, v.mem, d) ELSE m'.out
               /\ f.regs = v.regs /\ f.out = v.out
               /\ f.mem = IF AtMemory(m') THEN Stored(v.mem, v.regs, d) ELSE v.mem
    BY <2>2, AfterMemoryState, FlushedState
  <2>3. /\ AtWriteBack(m') <=> AtMemory(m)
        /\ AtMemory(m') <=> AtExecute(m)
        /\ AtMemory(m) => c = b
        /\ AtExecute(m) => d = x
    BY DEF Shifted
  <2> HIDE DEF n, z, c, d
  <2>4. /\ n.mem = IF AtWriteBack(m') THEN Stored(m'.mem, m'.regs, c) ELSE m'.mem
        /\ n.regs = IF AtMemory(m') THEN Filled(m'.regs, n.mem, d) ELSE m'.regs
        /\ n.out = IF AtMemory(m') THEN PrintedLate(m'.out, n.mem, d) ELSE m'.out
        /\ z.regs = n.regs /\ z.out = n.out
        /\ z.mem = IF AtMemory(m') THEN Stored(n.mem, n.regs, d) ELSE n.mem
    BY <2>1, <2>2
  <2> QED BY <2>3, <2>4
<1> HIDE DEF n, z
<1>4. CASE ~AtExecute(m)
  <2>1. isa'.regs = z.regs /\ isa'.mem = z.mem /\ isa'.out = z.out
    BY <1>2, <1>3, <1>4
  <2> QED BY <2>1 DEF CaughtUp, z
<1>5. CASE AtExecute(m)
  <2>1. /\ a.mem = w.mem
        /\ a.regs = Computed(isa.regs, x, junk)
        /\ a.out = PrintedEarly(isa.out, isa.regs, x)
        /\ isa'.regs = Filled(a.regs, isa.mem, x)
        /\ isa'.mem = Stored(isa.mem, isa'.regs, x)
        /\ isa'.out = PrintedLate(a.out, isa.mem, x)
    BY <1>2, <1>5 DEF Done
  <2>2. n.mem = isa.mem
    <3>1. CASE AtMemory(m) /\ b.op = "SW"
      <4>1. b.rt \in Regs
        <5>0. /\ m.counter \in Nat /\ m.counterForEnd \in Nat /\ LastSlot \in Nat
              /\ m.counter + m.counterForEnd <= LastSlot + 5
          <6>1. m.counter \in Nat /\ m.counterForEnd \in Nat
            BY <1>1 DEF Machines
          <6>2. m.counter + m.counterForEnd <= LastSlot + 5
            BY DEF Ready, Fits
          <6> QED BY <6>1, <6>2, PipelineAssumption
        <5>1. 3 <= m.counter /\ m.counter - 3 <= LastSlot
          BY <3>1, <5>0 DEF AtMemory
        <5>2. Executable(b, m.code)
          BY <5>1, Slot
        <5> QED BY <3>1, <5>2 DEF Executable
      <4>2. a.regs[b.rt] = w.regs[b.rt]
        <5>1. CASE x.op \in {"ADD", "SUB", "MUL", "DIV"}
          <6>1. x.rd # b.rt
            BY <1>5, <3>1, <5>1
          <6>2. w.regs \in [Regs -> Word]
            BY <1>1 DEF Machines
          <6>3. a.regs = [w.regs EXCEPT ![x.rd] = Result(x.op, w.regs[x.rs], w.regs[x.rt], junk)]
            BY <1>2, <2>1, <5>1 DEF Computed
          <6> QED BY <4>1, <6>1, <6>2, <6>3
        <5>2. CASE x.op \notin {"ADD", "SUB", "MUL", "DIV"}
          BY <1>2, <2>1, <5>2 DEF Computed
        <5> QED BY <5>1, <5>2
      <4> QED BY <1>2, <1>3, <2>1, <3>1, <4>2 DEF Stored
    <3>2. CASE ~(AtMemory(m) /\ b.op = "SW")
      BY <1>2, <1>3, <2>1, <3>2 DEF Stored
    <3> QED BY <3>1, <3>2
  <2>3. isa'.regs = z.regs /\ isa'.mem = z.mem /\ isa'.out = z.out
    BY <1>3, <1>5, <2>1, <2>2
  <2> QED BY <2>3 DEF CaughtUp, z
<1> QED BY <1>4, <1>5

(* A jump that is taken empties the pipeline: no store was in it.          *)
LEMMA CaughtUpJump ==
  ASSUME Ready(m), Ready(m'), CaughtUp, m'.counter = 1,
         NEW printLock \in BOOLEAN, NEW w, w = AfterMemory(m, printLock),
         NEW a, m'.regs = a.regs, m'.mem = a.mem, m'.out = a.out,
         Redirected(isa, isa', w, a),
         AtMemory(m) => m.data[m.counter - 3].op # "SW"
  PROVE  CaughtUp'
<1> DEFINE b == m.data[m.counter - 3]
           n == AfterMemory(m', FALSE)
           z == Flushed(m')
<1>1. /\ isa.regs = w.regs /\ isa.out = w.out
      /\ isa.mem = IF AtMemory(m) THEN Stored(w.mem, w.regs, b) ELSE w.mem
  BY FlushedState DEF CaughtUp
<1>2. isa.mem = w.mem
  BY <1>1 DEF Stored
<1>3. ~AtWriteBack(m') /\ ~AtMemory(m')
  BY DEF AtWriteBack, AtMemory
<1>4. z = m'
  BY <1>3 DEF Flushed, AfterMemory
<1> QED BY <1>1, <1>2, <1>4 DEF CaughtUp, Redirected

(* The END is the instruction with that operation, and comes last.         *)
Terminated(p) ==
  /\ Len(p) \in Nat /\ DOMAIN p = 1..Len(p) /\ p # <<>>
  /\ p[Len(p)] = End
  /\ \A k \in DOMAIN p : p[k].op = "END" <=> p[k] = End

LEMMA RegularTerminated ==
  ASSUME NEW p, Lawful(p), Regular(p) PROVE Terminated(p)
<1>1. p \in Seq(Fields) /\ p # <<>> /\ p[Len(p)] = End
  BY DEF Lawful
<1>2. \A k \in 1..Len(p) : p[k].op = "END" => p[k] = End
  BY DEF Regular, Documented
<1>3. End.op = "END"
  BY DEF End, Instr
<1> QED BY <1>1, <1>2, <1>3 DEF Terminated

(* The pc and the ir follow the Isa: what an instruction leaves behind is  *)
(* the next one in the ir, in the last slot decoded, or about to be        *)
(* fetched.                                                                *)
LEMMA PlaceOnward ==
  ASSUME Ready(m), Counting(m), Terminated(m.code), state = "Executing", Settings,
         isa.pc \in DOMAIN m.code,
         NEW j \in 0..Len(m.code), Holding(j), Place(j),
         Moved(m, m'),
         AtExecute(m) => isa'.pc = IF m.code[isa.pc] = End THEN isa.pc ELSE isa.pc + 1,
         ~AtExecute(m) => isa'.pc = isa.pc
  PROVE  /\ isa'.pc \in DOMAIN m'.code
         /\ \E k \in 0..Len(m'.code) : Holding(k)' /\ Place(k)'
         /\ AtDecode(m) => m.ir = m.code[isa'.pc]
         /\ AtExecute(m) /\ m.code[isa.pc] = End => m.ir = End /\ m.counterForEnd <= 4
<1> DEFINE c == m.code
           P == isa.pc
<1>1. /\ m.counter \in Nat /\ m.counterForEnd \in 1..5 /\ m.counter + m.counterForEnd >= 5
      /\ m.pc \in Nat /\ Len(c) \in Nat /\ P \in 1..Len(c) /\ j \in Nat
  BY DEF Ready, Machines, Counting, Terminated
<1>2. /\ m'.code = c /\ m'.counter = m.counter + 1
      /\ m'.counterForEnd \in {m.counterForEnd, m.counterForEnd - 1}
      /\ m.counterForEnd <= 4 => m'.counterForEnd = m.counterForEnd - 1
      /\ m'.endProgram => m'.counterForEnd = m.counterForEnd - 1
  BY DEF Moved, Counting
<1>3. m.endProgram => m.ir = End /\ m.counterForEnd <= 4
  BY DEF Settings
<1>4. c[P] # End => P < Len(c)
  BY <1>1 DEF Terminated
<1>5. c[P] # End => P + 1 \in DOMAIN c
  BY <1>1, <1>4 DEF Terminated
<1>6. isa'.pc \in DOMAIN m'.code
  BY <1>1, <1>2, <1>5
<1>7. EmptySlot # End
  BY Constant
<1>8. m.counterForEnd = 5 => m.pc = j + 1
  BY <1>1, <1>3 DEF Holding
(* The turn does not fetch: the ir and the pc stay.                        *)
<1>9. ASSUME ~AtFetch(m) \/ m.ir = End, j # 0
      PROVE  /\ Holding(j)'
             /\ m'.ir = m.ir /\ (AtFetch(m) => m'.endProgram)
             /\ (m.endProgram => m'.endProgram)
  <2>1. m'.ir = m.ir /\ m'.pc = m.pc
    BY <1>9 DEF Moved
  <2>2. (AtFetch(m) => m'.endProgram) /\ (m.endProgram => m'.endProgram)
    BY <1>9, Zenon DEF Moved
  <2>3. j \in DOMAIN c /\ m.ir = c[j] /\ (m.pc = j + 1 \/ (m.pc = j /\ m.endProgram))
    BY <1>9 DEF Holding
  <2>4. m'.pc = j + 1 \/ (m'.pc = j /\ m'.endProgram)
    BY <2>1, <2>2, <2>3
  <2> QED BY <1>2, <2>1, <2>2, <2>3, <2>4 DEF Holding
(* It fetches the instruction after it.                                    *)
<1>10. ASSUME AtFetch(m), m.ir # End, j + 1 \in DOMAIN c
       PROVE  Holding(j + 1)' /\ j + 1 \in 0..Len(m'.code)
  <2>1. m.pc = j + 1
    BY <1>8, <1>10 DEF AtFetch
  <2>2. m'.ir = c[j + 1] /\ m'.pc = (j + 1) + 1
    BY <1>10, <2>1 DEF Moved
  <2>3. j + 1 \in 0..Len(c)
    BY <1>1, <1>10 DEF Terminated
  <2> QED BY <1>2, <1>10, <2>2, <2>3 DEF Holding
<1>11. CASE m.counter = 0
  <2>1. m.counterForEnd = 5 /\ AtFetch(m) /\ ~AtExecute(m) /\ ~AtDecode(m)
    BY <1>1, <1>11 DEF AtFetch, AtExecute, AtDecode
  <2>2. P = IF m.ir = End THEN j ELSE j + 1
    BY <1>11 DEF Place
  <2>3. isa'.pc = P /\ m'.counter = 1 /\ m'.counterForEnd \in {4, 5}
    BY <1>2, <1>11, <2>1
  <2>4. CASE m.ir = End
    <3>1. isa'.pc = j /\ j # 0
      BY <1>1, <2>2, <2>3, <2>4
    <3>2. Place(j)'
      BY <2>3, <3>1 DEF Place
    <3> QED BY <1>2, <1>6, <1>9, <2>1, <2>4, <3>1, <3>2
  <2>5. CASE m.ir # End
    <3>1. isa'.pc = j + 1 /\ j + 1 \in DOMAIN c
      BY <2>2, <2>3, <2>5
    <3>2. Place(j + 1)'
      BY <2>3, <3>1 DEF Place
    <3> QED BY <1>6, <1>10, <2>1, <2>5, <3>1, <3>2
  <2> QED BY <2>4, <2>5
<1>12. CASE m.counter >= 1 /\ m.counterForEnd = 5
  <2>1. AtFetch(m) /\ ~m.endProgram
    BY <1>3, <1>12 DEF AtFetch
  <2>2. isa'.pc = j /\ (AtExecute(m) => c[P] # End)
    <3>1. CASE m.counter = 1
      <4>1. P = j /\ ~AtExecute(m)
        BY <1>1, <1>12, <3>1 DEF Place, AtExecute
      <4> QED BY <4>1
    <3>2. CASE m.counter # 1
      <4>1. P = j - 1 /\ c[P] # End /\ AtExecute(m)
        BY <1>1, <1>12, <2>1, <3>2 DEF Place, AtExecute
      <4> QED BY <1>1, <4>1
    <3> QED BY <3>1, <3>2
  <2>3. m'.counter = m.counter + 1 /\ m'.counterForEnd \in {4, 5} /\ j # 0 /\ j \in DOMAIN c
        /\ m.ir = c[j]
    <3>1. j \in DOMAIN c /\ j # 0
      BY <1>1, <1>2, <1>6, <2>2 DEF Terminated
    <3> QED BY <1>2, <1>12, <3>1 DEF Holding
  <2>4. CASE m.ir = End
    <3>1. Holding(j)' /\ m'.ir = End /\ m'.endProgram
      BY <1>9, <2>1, <2>3, <2>4
    <3>2. m'.counterForEnd = 4
      BY <1>2, <1>12, <3>1
    <3>3. Place(j)'
      BY <1>1, <1>12, <2>2, <2>3, <3>1, <3>2 DEF Place
    <3> QED BY <1>2, <1>6, <2>2, <2>3, <3>1, <3>3
  <2>5. CASE m.ir # End
    <3>1. j < Len(c)
      BY <1>1, <2>3, <2>5 DEF Terminated
    <3>2. j + 1 \in DOMAIN c
      BY <1>1, <3>1 DEF Terminated
    <3>3. isa'.pc = (j + 1) - 1 /\ m'.code[isa'.pc] # End
      BY <1>1, <1>2, <2>2, <2>3, <2>5
    <3>4. Place(j + 1)'
      BY <1>1, <1>12, <2>3, <3>3 DEF Place
    <3> QED BY <1>6, <1>10, <2>1, <2>2, <2>3, <2>5, <3>2, <3>4
  <2> QED BY <2>4, <2>5
<1>13. CASE m.counter >= 1 /\ m.counterForEnd = 4
  <2>1. ~AtFetch(m) /\ m'.counterForEnd = 3 /\ m'.counter = m.counter + 1
    BY <1>2, <1>13 DEF AtFetch
  <2>2. isa'.pc = j /\ (AtExecute(m) /\ c[P] = End => m.ir = End)
    <3>1. CASE m.counter = 1
      <4>1. P = j /\ ~AtExecute(m)
        BY <1>1, <1>13, <3>1 DEF Place, AtExecute
      <4> QED BY <4>1
    <3>2. CASE m.counter # 1
      <4>1. /\ AtExecute(m)
            /\ (P = j - 1 /\ c[P] # End) \/ (P = j /\ m.ir = End)
        BY <1>1, <1>13, <3>2 DEF Place, AtExecute
      <4>2. CASE P = j - 1 /\ c[P] # End
        BY <1>1, <4>1, <4>2
      <4>3. CASE P = j /\ m.ir = End
        <5>1. c[j] = m.ir
          BY <1>1, <4>3 DEF Holding
        <5> QED BY <4>1, <4>3, <5>1
      <4> QED BY <4>1, <4>2, <4>3
    <3> QED BY <3>1, <3>2
  <2>3. j # 0 /\ m.ir = c[j]
    <3>1. j # 0
      BY <1>1, <1>2, <1>6, <2>2 DEF Terminated
    <3> QED BY <3>1 DEF Holding
  <2>4. Place(j)'
    BY <1>1, <1>13, <2>1, <2>2 DEF Place
  <2> QED BY <1>2, <1>6, <1>9, <1>13, <2>1, <2>2, <2>3, <2>4
<1>14. CASE m.counter >= 1 /\ m.counterForEnd <= 3
  <2>1. ~AtFetch(m) /\ ~AtDecode(m) /\ m'.counterForEnd <= 2
    BY <1>1, <1>2, <1>14 DEF AtFetch, AtDecode
  <2>2. isa'.pc = IF m.ir = End THEN j ELSE j + 1
    <3>1. CASE m.counterForEnd = 3
      <4>1. P = j /\ AtExecute(m)
        BY <1>1, <1>14, <3>1 DEF Place, AtExecute
      <4>2. c[j] = m.ir
        BY <1>1, <4>1 DEF Holding
      <4> QED BY <4>1, <4>2
    <3>2. CASE m.counterForEnd # 3
      <4>1. m.counterForEnd <= 2 /\ ~AtExecute(m)
        BY <1>1, <1>14, <3>2 DEF AtExecute
      <4> QED BY <4>1 DEF Place
    <3> QED BY <3>1, <3>2
  <2>3. AtExecute(m) /\ c[P] = End => m.ir = End /\ m.counterForEnd <= 4
    <3>1. ASSUME AtExecute(m), c[P] = End PROVE m.ir = End
      <4>1. P = j
        BY <1>1, <1>14, <3>1 DEF Place, AtExecute
      <4> QED BY <1>1, <3>1, <4>1 DEF Holding
    <3> QED BY <1>1, <1>14, <3>1
  <2>4. CASE j # 0
    <3>1. Holding(j)' /\ m'.ir = m.ir
      BY <1>9, <2>1, <2>4
    <3>2. Place(j)'
      BY <2>1, <2>2, <3>1 DEF Place
    <3> QED BY <1>2, <1>6, <2>1, <2>3, <3>1, <3>2
  <2>5. CASE j = 0
    <3>1. m.ir = EmptySlot /\ m.pc = 1 /\ 0 \notin DOMAIN c
      BY <1>1, <2>5 DEF Holding, Terminated
    <3>2. m'.ir = EmptySlot /\ m'.pc = 1
      BY <2>1, <3>1 DEF Moved
    <3>3. Holding(0)'
      BY <3>2 DEF Holding
    <3>4. Place(0)'
      BY <1>7, <2>1, <2>2, <2>5, <3>1, <3>2 DEF Place
    <3> QED BY <1>2, <1>6, <2>1, <2>3, <2>5, <3>3, <3>4
  <2> QED BY <2>4, <2>5
<1> QED BY <1>1, <1>11, <1>12, <1>13, <1>14

(* A slot is decoded from the instruction the Isa will execute, and the    *)
(* slots not yet used are empty.                                           *)
LEMMA SlotsOnward ==
  ASSUME Ready(m), Regular(m.code), SlotsDecoded, Counting(m),
         Moved(m, m'), Shifted(m, m'),
         isa'.pc \in DOMAIN m.code, AtDecode(m) => m.ir = m.code[isa'.pc]
  PROVE  SlotsDecoded'
<1> DEFINE old == m.data[m.counter - 1]
           new == m'.data[m'.counter - 2]
<1>1. /\ m.counter \in Nat /\ LastSlot \in Nat
      /\ m.counter + m.counterForEnd <= LastSlot + 5
      /\ m.counterForEnd \in 1..5
      /\ m.data \in [0..LastSlot -> Fields]
      /\ m'.code = m.code /\ m'.counter = m.counter + 1
  <2>1. Fits(m) /\ m \in Machines
    BY DEF Ready
  <2> QED BY <2>1, PipelineAssumption DEF Fits, Machines, Counting, Moved
<1>2. ASSUME AtExecute(m')
      PROVE  LET i == m'.code[isa'.pc] IN
             Decoded(i, new) = new /\ (PrintsVariable(i) => new.rt = NoReg)
  <2> DEFINE i == m.code[isa'.pc]
  <2>1. AtDecode(m) /\ new = Decoded(i, old)
    BY <1>2 DEF Shifted
  <2>2. Decoded(i, new) = new
    BY <2>1, DecodedTwice
  <2>3. ASSUME PrintsVariable(i) PROVE new.rt = NoReg
    <3>1. \A k \in DOMAIN m.code : m.code[k].op \notin Jumps
      <4>1. ~PrintAmongJumps(m.code)
        BY DEF Regular
      <4>2. DOMAIN m.code = 1..Len(m.code)
        BY DEF Ready, Lawful
      <4> QED BY <2>3, <4>1, <4>2 DEF PrintAmongJumps
    <3>2. old.rt = NoReg
      <4>1. m.counter - 1 \in 0..LastSlot /\ m.counterForEnd >= 4
        BY <1>1, <2>1 DEF AtDecode
      <4> QED BY <1>1, <3>1, <4>1 DEF SlotsDecoded
    <3>3. Decoded(i, old).rt = old.rt
      <4>1. i.op = "PRINT" /\ i.imm # NoImm
        BY <2>3 DEF PrintsVariable
      <4> QED BY <4>1 DEF Decoded, Identified, Arithmetic, Immediate, Comparing
    <3> QED BY <2>1, <3>2, <3>3
  <2> HIDE DEF i, new
  <2>4. m'.code[isa'.pc] = i
    BY <1>1 DEF i
  <2> QED BY <2>2, <2>3, <2>4
<1>3. ASSUME \A k \in DOMAIN m'.code : m'.code[k].op \notin Jumps, m'.counterForEnd >= 4,
             NEW k \in 0..LastSlot, k >= m'.counter - 1
      PROVE  m'.data[k].rt = NoReg
  <2>1. m.counterForEnd = 5 /\ k # m.counter - 1 /\ k >= m.counter - 1
    BY <1>1, <1>3 DEF Shifted
  <2>2. m'.data[k] = m.data[k]
    BY <1>1, <1>3, <2>1 DEF Moved
  <2> QED BY <1>1, <1>3, <2>1, <2>2 DEF SlotsDecoded
<1> QED BY <1>2, <1>3 DEF SlotsDecoded

LEMMA StoreOnward ==
  ASSUME Shifted(m, m'), m'.code = m.code, isa.pc \in DOMAIN m.code, isa.pc \in Nat \ {0},
         NEW i, i = m.code[isa.pc], NEW x, x = m.data[m.counter - 2],
         AtExecute(m) => /\ x.op = IF i.op = "END" THEN "" ELSE i.op
                         /\ i.op = "SW" => x.rt = i.rt
                         /\ isa'.pc = IF i.op = "END" THEN isa.pc ELSE isa.pc + 1
  PROVE  StoreInFlight'
<1> SUFFICES ASSUME AtMemory(m'), m'.data[m'.counter - 3].op = "SW"
             PROVE  /\ isa'.pc > 1
                    /\ m'.code[isa'.pc - 1].op = "SW"
                    /\ m'.code[isa'.pc - 1].rt = m'.data[m'.counter - 3].rt
  BY DEF StoreInFlight
<1>1. AtExecute(m) /\ m'.data[m'.counter - 3] = x
  BY DEF Shifted
<1>2. i.op = "SW" /\ x.rt = i.rt
  BY <1>1
<1>3. isa'.pc = isa.pc + 1 /\ isa'.pc - 1 = isa.pc
  BY <1>1, <1>2
<1> QED BY <1>1, <1>2, <1>3

LEMMA SettingsOnward ==
  ASSUME Ready(m), Counting(m), Settings, state' = "Executing",
         Moved(m, m'), m'.counter + m'.counterForEnd >= 5,
         AtExecute(m) /\ m.code[isa.pc] = End => m.ir = End /\ m.counterForEnd <= 4,
         AtExecute(m) /\ m.code[isa.pc] # End => advanced',
         advanced => advanced'
  PROVE  Settings'
<1>1. /\ m.counter \in Nat /\ m.counterForEnd \in 1..5 /\ m.counter + m.counterForEnd >= 5
  BY DEF Ready, Machines, Counting
<1>2. /\ m'.counter = m.counter + 1
      /\ m'.counterForEnd \in {m.counterForEnd, m.counterForEnd - 1}
      /\ m.counterForEnd <= 4 => m'.counterForEnd = m.counterForEnd - 1
      /\ m'.endProgram => m'.counterForEnd = m.counterForEnd - 1
  BY DEF Moved, Counting
<1>3. m.ir = End => m'.ir = End
  BY DEF Moved
<1>4. ASSUME m'.endProgram PROVE m'.ir = End /\ m'.counterForEnd <= 4
  <2>1. m.ir = End
    <3>1. m.endProgram \/ (AtFetch(m) /\ m.ir = End)
      BY <1>4, Zenon DEF Moved
    <3> QED BY <3>1, Zenon DEF Settings
  <2> QED BY <1>1, <1>2, <1>3, <1>4, <2>1
<1>5. ASSUME m'.counter >= 3 \/ m'.counterForEnd <= 2
      PROVE  advanced' \/ m'.ir = End
  <2>1. CASE AtExecute(m)
    BY <1>3, <2>1
  <2>2. CASE ~AtExecute(m)
    <3>1. m.counter >= 3 \/ m.counterForEnd <= 2
      BY <1>1, <1>2, <1>5, <2>2 DEF AtExecute
    <3> QED BY <1>3, <3>1 DEF Settings
  <2> QED BY <2>1, <2>2
<1> QED BY <1>4, <1>5 DEF Settings

(* After a jump the target is in the ir and nothing is in the pipeline.    *)
LEMMA RestartInStep ==
  ASSUME Ready(m), state' = "Executing",
         NEW i, i.op \in Jumps, i = m.code[isa.pc], isa.pc \in DOMAIN m.code,
         NEW a, a \in Machines, Jumped(m, a), Moved(a, m'),
         NEW k, k = a.pc, isa'.pc = k
  PROVE  /\ m'.counter = 1
         /\ isa'.pc \in DOMAIN m'.code
         /\ Settings'
         /\ \E n \in 0..Len(m'.code) : Holding(n)' /\ Place(n)'
         /\ SlotsDecoded' /\ StoreInFlight'
<1>1. /\ a.code = m.code /\ a.counter = 0 /\ a.counterForEnd = 5
      /\ k \in DOMAIN m.code /\ a.ir = m.code[k] /\ ~a.endProgram
  BY DEF Jumped
<1>2. AtFetch(a)
  BY <1>1 DEF AtFetch
<1>3. /\ m'.code = m.code /\ m'.counter = 1 /\ m'.counterForEnd \in {4, 5}
      /\ m'.endProgram => m'.counterForEnd = 4
  BY <1>1 DEF Moved
<1>4. m'.endProgram <=> a.ir = End
  <2>1. m'.endProgram <=> a.endProgram \/ (AtFetch(a) /\ a.ir = End)
    BY Zenon DEF Moved
  <2> QED BY <1>1, <1>2, <2>1, Zenon
<1>5. m'.ir = m.code[k] /\ m'.pc = IF a.ir = End THEN k ELSE k + 1
  <2>1. CASE a.ir = End
    BY <1>1, <2>1 DEF Moved
  <2>2. CASE a.ir # End
    BY <1>1, <1>2, <2>2 DEF Moved
  <2> QED BY <2>1, <2>2
<1>6. Holding(k)'
  BY <1>1, <1>3, <1>4, <1>5 DEF Holding
<1>7. Place(k)'
  BY <1>3 DEF Place
<1>8. k \in 0..Len(m'.code)
  <2>1. DOMAIN m.code = 1..Len(m.code) /\ Len(m.code) \in Nat
    BY DEF Ready, Lawful
  <2> QED BY <1>1, <1>3, <2>1
<1>9. Settings'
  <2>1. m'.endProgram => m'.ir = End /\ m'.counterForEnd <= 4
    BY <1>1, <1>3, <1>4, <1>5
  <2>2. m'.counter + m'.counterForEnd >= 5 /\ ~(m'.counter >= 3 \/ m'.counterForEnd <= 2)
    BY <1>3
  <2> QED BY <2>1, <2>2 DEF Settings
<1>10. SlotsDecoded' /\ StoreInFlight'
  <2>1. ~AtExecute(m') /\ ~AtMemory(m')
    BY <1>3 DEF AtExecute, AtMemory
  <2>2. ~ \A n \in DOMAIN m'.code : m'.code[n].op \notin Jumps
    BY <1>3
  <2> QED BY <2>1, <2>2 DEF SlotsDecoded, StoreInFlight
<1> QED BY <1>1, <1>3, <1>6, <1>7, <1>8, <1>9, <1>10

-----------------------------------------------------------------------------
(* The invariant.                                                          *)

LEMMA FlushedMachine ==
  ASSUME NEW x, Ready(x), NEW z, z = Flushed(x) PROVE z \in Machines
<1>1. ASSUME NEW u \in BOOLEAN, NEW y, y = AfterMemory(x, u), NEW b, b = x.data[x.counter - 3]
      PROVE  z \in Machines
  BY <1>1, FlushedState
<1>2. FALSE \in BOOLEAN
  OBVIOUS
<1> QED BY <1>1, <1>2

LEMMA ReadyNext ==
  ASSUME AllLawful, IInv', state' = "Executing" PROVE Ready(m')
<1>1. /\ m' \in Machines /\ m'.code \in Programs /\ m'.quantum \in Quanta
      /\ m'.counter \in Nat /\ m'.counterForEnd \in 0..5 /\ m'.clock \in Nat
  BY DEF IInv, TypeOK, Machines
<1>2. m'.quantum \in 1..(LastSlot + 1) /\ LastSlot \in Nat
  BY <1>1, PipelineAssumption
<1>3. Lawful(m'.code)
  BY <1>1 DEF AllLawful
<1>4. Loaded(m')
  BY DEF IInv, CallInv, Decodable, TypeOK, Loaded
<1>5. Fits(m')
  <2>1. Drains'
    BY DEF IInv, CallInv
  <2>2. CASE m'.endExecution
    <3>1. m'.counter + m'.counterForEnd <= m'.quantum + 4
      BY <2>1, <2>2 DEF Drains
    <3> QED BY <1>1, <1>2, <3>1 DEF Fits
  <2>3. CASE ~m'.endExecution
    <3>1. m'.counterForEnd = 5 /\ m'.counter <= m'.clock /\ m'.clock < m'.quantum
      BY <2>1, <2>3 DEF Drains
    <3> QED BY <1>1, <1>2, <3>1 DEF Fits
  <2> QED BY <2>2, <2>3
<1> QED BY <1>1, <1>3, <1>4, <1>5 DEF Ready

LEMMA CountingMachine ==
  ASSUME IInv, InStep, state = "Executing", m.counterForEnd > 0 PROVE Counting(m)
<1>1. m.counterForEnd \in 0..5 /\ Drains
  BY DEF IInv, TypeOK, Machines, CallInv
<1>2. m.counterForEnd <= 4 => m.endExecution
  BY <1>1 DEF Drains
<1> QED BY <1>1, <1>2 DEF InStep, Settings, Counting

(* In a regular program the instruction behind a store neither computes    *)
(* its register nor jumps.                                                 *)
LEMMA BehindStore ==
  ASSUME Terminated(m.code), Regular(m.code), isa.pc \in DOMAIN m.code, StoreInFlight,
         AtMemory(m), NEW b, b = m.data[m.counter - 3], b.op = "SW",
         NEW i, i = m.code[isa.pc]
  PROVE  /\ i.op \in Arithmetic => i.rd # b.rt
         /\ i.op \notin Jumps
<1> DEFINE k == isa.pc - 1
<1>1. k \in 1..(Len(m.code) - 1) /\ k + 1 = isa.pc
  BY DEF Terminated, StoreInFlight
<1>2. m.code[k].op = "SW" /\ m.code[k].rt = b.rt
  BY DEF StoreInFlight
<1> HIDE DEF k
<1>3. m.code[k + 1] = i
  BY <1>1
<1> QED BY <1>1, <1>2, <1>3 DEF Regular, StoreThenCompute, StoreThenJump

LEMMA ClockInStep ==
  ASSUME AllRegular, IInv, InStep, Clock, IInv' PROVE InStep'
<1>1. /\ state = "Executing" /\ state' = "Executing" /\ m.counterForEnd > 0
  BY DEF Clock
<1>p. PICK printLock \in BOOLEAN, junk \in Word :
      /\ m' = LET t == Turn(m, printLock, junk) IN
              [t EXCEPT !.clock = IF @ > m.quantum THEN m.quantum ELSE @]
      /\ IF AtExecute(m)
         THEN /\ isa' = IsaStep(isa, m.code[isa.pc], junk)
              /\ advanced' = (advanced \/ m.code[isa.pc] # End)
         ELSE UNCHANGED <<isa, advanced>>
  BY DEF Clock
<1>q. PICK i, w, a, x, b, k :
      /\ i = m.code[isa.pc]
      /\ w = AfterMemory(m, printLock) /\ a = AfterExecute(m, printLock, junk)
      /\ x = m.data[m.counter - 2] /\ b = m.data[m.counter - 3]
      /\ m' = Clocked(m, printLock, junk, k)
  BY <1>p DEF Clocked
<1>2. Ready(m) /\ Ready(m')
  BY <1>1, RegularLawful, ReadyMachine, ReadyNext
<1>3. Counting(m)
  BY <1>1, CountingMachine
<1>4. Lawful(m.code) /\ Regular(m.code) /\ Terminated(m.code)
  BY Numbers, RegularTerminated DEF AllRegular, IInv
<1>5. /\ isa \in States /\ isa.pc \in DOMAIN m.code /\ isa.pc \in Nat \ {0}
      /\ Settings /\ SlotsDecoded /\ StoreInFlight /\ CaughtUp
  BY <1>4 DEF InStep, Terminated
<1>j. PICK j \in 0..Len(m.code) : Holding(j) /\ Place(j)
  BY DEF InStep
<1>6. w \in Machines /\ Keeps(m, w)
  BY <1>2, <1>q, AfterMemoryKeeps
<1>7. a \in Machines
  BY <1>2, <1>q, AfterExecuteKeeps
<1>8. Moved(a, m') /\ m'.regs = a.regs /\ m'.mem = a.mem /\ m'.out = a.out
  BY <1>7, <1>q, TurnTicks
<1>9. ASSUME AtExecute(m)
      PROVE  /\ i \in Fields /\ i.op \in Supported
             /\ x.op = IF i.op = "END" THEN "" ELSE i.op
             /\ i.op \in {"ADD", "SUB", "DIV"} => x.rd = i.rd
             /\ i.op = "SW" => x.rt = i.rt
             /\ Complete(isa')
             /\ \/ /\ Keeps(m, a) /\ Done(isa, isa', w, a, x, junk)
                   /\ isa'.pc = IF i.op = "END" THEN isa.pc ELSE isa.pc + 1
                \/ i.op \in Jumps /\ Jumped(m, a) /\ Redirected(isa, isa', w, a)
  <2>1. ASSUME NEW t, t = IsaStep(isa, i, junk) PROVE Executed(i, x, w, a, t, junk)
    BY <1>1, <1>9, <1>q, <2>1, Executing
  <2>2. isa' = IsaStep(isa, i, junk)
    BY <1>9, <1>p, <1>q
  <2>3. Executed(i, x, w, a, isa', junk)
    BY <2>1, <2>2
  <2> QED BY <2>3 DEF Executed
<1>10. ~AtExecute(m) => a = w /\ isa' = isa /\ advanced' = advanced
  BY <1>6, <1>p, <1>q DEF AfterExecute, AtExecute, Keeps
<1>11. advanced => advanced'
  BY <1>p
<1>12. AtExecute(m) /\ i # End => advanced'
  BY <1>p, <1>q
<1>13. AtMemory(m) /\ b.op = "SW" => (i.op \in Arithmetic => i.rd # b.rt) /\ i.op \notin Jumps
  BY <1>4, <1>5, <1>q, BehindStore
<1>14. i.op = "END" <=> i = End
  BY <1>4, <1>5, <1>q DEF Terminated
<1>15. Complete(isa')
  BY <1>5, <1>9, <1>10, IsaState DEF Complete
(* No jump is taken.                                                       *)
<1>16. ASSUME Keeps(m, a),
              AtExecute(m) => /\ Done(isa, isa', w, a, x, junk)
                              /\ isa'.pc = IF i.op = "END" THEN isa.pc ELSE isa.pc + 1
       PROVE  /\ isa'.pc \in DOMAIN m'.code
              /\ Settings'
              /\ \E n \in 0..Len(m'.code) : Holding(n)' /\ Place(n)'
              /\ SlotsDecoded' /\ StoreInFlight' /\ CaughtUp'
  <2>1. Moved(m, m')
    BY <1>8, <1>16, KeptMoved
  <2>2. Shifted(m, m') /\ m'.counter + m'.counterForEnd >= 5
    <3>1. ASSUME NEW y, Moved(m, y) PROVE Shifted(m, y) /\ y.counter + y.counterForEnd >= 5
      BY <1>2, <1>3, <3>1, Shifts
    <3> QED BY <2>1, <3>1
  <2>3. /\ AtExecute(m) => isa'.pc = IF m.code[isa.pc] = End THEN isa.pc ELSE isa.pc + 1
        /\ ~AtExecute(m) => isa'.pc = isa.pc
    BY <1>10, <1>14, <1>16, <1>q
  <2>4. /\ isa'.pc \in DOMAIN m'.code
        /\ \E n \in 0..Len(m'.code) : Holding(n)' /\ Place(n)'
        /\ AtDecode(m) => m.ir = m.code[isa'.pc]
        /\ AtExecute(m) /\ m.code[isa.pc] = End => m.ir = End /\ m.counterForEnd <= 4
    BY <1>1, <1>2, <1>3, <1>4, <1>5, <1>j, <2>1, <2>3, PlaceOnward
  <2>5. m'.code = m.code
    BY <2>1 DEF Moved
  <2>6. SlotsDecoded'
    <3>1. isa'.pc \in DOMAIN m.code
      BY <2>4, <2>5
    <3> QED BY <1>2, <1>3, <1>4, <1>5, <2>1, <2>2, <2>4, <3>1, SlotsOnward
  <2>7. StoreInFlight'
    BY <1>5, <1>9, <1>16, <1>q, <2>2, <2>5, StoreOnward
  <2>8. Settings'
    BY <1>1, <1>2, <1>3, <1>5, <1>11, <1>12, <1>q, <2>1, <2>2, <2>4, SettingsOnward
  <2>9. CaughtUp'
    <3>1. AtExecute(m) /\ AtMemory(m) /\ b.op = "SW" /\ x.op \in {"ADD", "SUB", "MUL", "DIV"}
            => x.rd # b.rt
      <4>1. ASSUME AtExecute(m), AtMemory(m), b.op = "SW", x.op \in {"ADD", "SUB", "MUL", "DIV"}
            PROVE  x.rd # b.rt
        <5>1. i.op = x.op /\ i.op \in {"ADD", "SUB", "DIV"}
          <6>1. i.op \in Supported /\ x.op = IF i.op = "END" THEN "" ELSE i.op
            BY <1>9, <4>1
          <6> QED BY <4>1, <6>1 DEF Supported
        <5> QED BY <1>9, <1>13, <4>1, <5>1 DEF Arithmetic
      <4> QED BY <4>1
    <3>2. /\ AtExecute(m) => Done(isa, isa', w, a, x, junk)
          /\ ~AtExecute(m) => a = w /\ isa' = isa
      BY <1>10, <1>16
    <3>3. /\ w = AfterMemory(m, printLock) /\ Shifted(m, m') /\ CaughtUp
          /\ x = m.data[m.counter - 2] /\ b = m.data[m.counter - 3]
          /\ m'.regs = a.regs /\ m'.mem = a.mem /\ m'.out = a.out
      BY <1>5, <1>8, <1>q, <2>2
    <3> QED BY <1>2, <3>1, <3>2, <3>3, CaughtUpOnward
  <2> QED BY <2>4, <2>6, <2>7, <2>8, <2>9
(* One is.                                                                 *)
<1>17. ASSUME AtExecute(m), i.op \in Jumps, Jumped(m, a), Redirected(isa, isa', w, a)
       PROVE  /\ isa'.pc \in DOMAIN m'.code
              /\ Settings'
              /\ \E n \in 0..Len(m'.code) : Holding(n)' /\ Place(n)'
              /\ SlotsDecoded' /\ StoreInFlight' /\ CaughtUp'
  <2>1. isa'.pc = a.pc
    BY <1>17 DEF Redirected
  <2>2. /\ m'.counter = 1
        /\ isa'.pc \in DOMAIN m'.code
        /\ Settings'
        /\ \E n \in 0..Len(m'.code) : Holding(n)' /\ Place(n)'
        /\ SlotsDecoded' /\ StoreInFlight'
    BY <1>1, <1>2, <1>5, <1>7, <1>8, <1>17, <1>q, <2>1, RestartInStep
  <2>3. CaughtUp'
    BY <1>2, <1>5, <1>8, <1>13, <1>17, <1>q, <2>2, CaughtUpJump
  <2> QED BY <2>2, <2>3
<1>18. /\ isa'.pc \in DOMAIN m'.code
       /\ Settings'
       /\ \E n \in 0..Len(m'.code) : Holding(n)' /\ Place(n)'
       /\ SlotsDecoded' /\ StoreInFlight' /\ CaughtUp'
  BY <1>6, <1>9, <1>10, <1>16, <1>17
<1>19. isa' \in States
  <2> PICK z : z = Flushed(m')
    OBVIOUS
  <2>1. z \in Machines
    BY <1>2, FlushedMachine
  <2>2. isa'.regs = z.regs /\ isa'.mem = z.mem /\ isa'.out = z.out
    BY <1>18, Zenon DEF CaughtUp
  <2>4. /\ isa'.regs \in [Regs -> Word] /\ isa'.mem \in [Vars -> Word] /\ isa'.out \in Seq(Word)
    BY <2>1, <2>2 DEF Machines
  <2>3. isa'.pc \in Nat
    BY <1>2, <1>18 DEF Ready, Lawful
  <2> QED BY <1>15, <2>3, <2>4 DEF States, Complete
<1> QED BY <1>18, <1>19 DEF InStep

(* Nothing is on its way in a machine that starts or ends a call.          *)
LEMMA Idle ==
  ASSUME NEW x, x.counter = 0 \/ x.counterForEnd = 0 PROVE Flushed(x) = x
<1>1. ~AtWriteBack(x) /\ ~AtMemory(x)
  BY DEF AtWriteBack, AtMemory
<1> QED BY <1>1 DEF Flushed, AfterMemory

(* At the start of a call the pipeline is empty.                           *)
LEMMA StartSlots ==
  ASSUME m.counter = 0, m.data = [k \in 0..LastSlot |-> EmptySlot]
  PROVE  SlotsDecoded /\ StoreInFlight
<1>1. ~AtExecute(m) /\ ~AtMemory(m)
  BY DEF AtExecute, AtMemory
<1>2. EmptySlot.rt = NoReg
  BY DEF EmptySlot, Instr
<1>3. \A k \in 0..LastSlot : m.data[k].rt = NoReg
  BY <1>2
<1> QED BY <1>1, <1>3 DEF SlotsDecoded, StoreInFlight

LEMMA InitInStep == ASSUME AllRegular, Init, IInv PROVE InStep
<1>1. /\ m.pc = 1 /\ m.ir = EmptySlot /\ m.counter = 0 /\ m.counterForEnd = 5
      /\ m.data = [k \in 0..LastSlot |-> EmptySlot] /\ ~m.endProgram
      /\ state = "Ready" /\ calls = 0
      /\ isa = [regs |-> m.regs, mem |-> m.mem, pc |-> 1, out |-> m.out]
  BY DEF Init
<1>2. Terminated(m.code) /\ m \in Machines
  BY Numbers, RegularTerminated DEF AllRegular, IInv
<1>3. isa \in States
  BY <1>1, <1>2 DEF States, Machines
<1>4. 1 \in DOMAIN m.code /\ 0 \in 0..Len(m.code)
  BY <1>2 DEF Terminated
<1>5. Settings
  BY <1>1 DEF Settings
<1>6. Holding(0) /\ Place(0)
  BY <1>1, Constant DEF Holding, Place
<1>7. CaughtUp
  BY <1>1, Idle DEF CaughtUp
<1>8. SlotsDecoded /\ StoreInFlight
  BY <1>1, StartSlots
<1> QED BY <1>1, <1>3, <1>4, <1>5, <1>6, <1>7, <1>8 DEF InStep

LEMMA DispatchInStep == ASSUME IInv, InStep, Dispatch PROVE InStep'
<1>1. state = "Ready" /\ state' = "Executing" /\ isa' = isa /\ m' = Fresh(m)
  BY DEF Dispatch
<1>2. m \in Machines
  BY Numbers DEF IInv
<1>3. /\ m'.code = m.code /\ m'.pc = m.pc /\ m'.ir = m.ir
      /\ m'.regs = m.regs /\ m'.mem = m.mem /\ m'.out = m.out
      /\ m'.counter = 0 /\ m'.counterForEnd = 5 /\ ~m'.endProgram
      /\ m'.data = [k \in 0..LastSlot |-> EmptySlot]
  <2> DEFINE empty == [k \in 0..LastSlot |-> EmptySlot]
  <2>1. m' = [m EXCEPT !.data = empty,
                !.counter = 0, !.counterForEnd = 5, !.clock = 0,
                !.endProgram = FALSE, !.endExecution = FALSE, !.blocked = FALSE]
    BY <1>1 DEF Fresh
  <2> HIDE DEF empty
  <2>2. /\ m'.code = m.code /\ m'.pc = m.pc /\ m'.ir = m.ir
        /\ m'.regs = m.regs /\ m'.mem = m.mem /\ m'.out = m.out
        /\ m'.counter = 0 /\ m'.counterForEnd = 5 /\ ~m'.endProgram
        /\ m'.data = empty
    BY <1>2, <2>1 DEF Machines
  <2> QED BY <2>2 DEF empty
<1>4. /\ m.counterForEnd = 0 \/ m.counter = 0
      /\ ~m.endProgram
  BY <1>1 DEF InStep, Settings
<1> PICK i \in 0..Len(m.code) : Holding(i) /\ Place(i)
  BY DEF InStep
<1>5. Holding(i)'
  BY <1>3, <1>4 DEF Holding
<1>6. Place(i)'
  BY <1>1, <1>3, <1>4 DEF Place
<1>7. Settings'
  BY <1>1, <1>3 DEF Settings
<1>8. CaughtUp'
  <2>1. Flushed(m) = m /\ Flushed(m') = m'
    BY <1>3, <1>4, Idle
  <2>2. isa.regs = m.regs /\ isa.mem = m.mem /\ isa.out = m.out
    BY <2>1 DEF InStep, CaughtUp
  <2> QED BY <1>1, <1>3, <2>1, <2>2 DEF CaughtUp
<1>9. SlotsDecoded' /\ StoreInFlight'
  <2>1. ~AtExecute(m') /\ ~AtMemory(m')
    BY <1>3 DEF AtExecute, AtMemory
  <2>2. \A k \in 0..LastSlot : m'.data[k].rt = NoReg
    <3>1. EmptySlot.rt = NoReg
      BY DEF EmptySlot, Instr
    <3> QED BY <1>3, <3>1
  <2> QED BY <2>1, <2>2 DEF SlotsDecoded, StoreInFlight
<1>10. isa' \in States /\ isa'.pc \in DOMAIN m'.code
  BY <1>1, <1>3 DEF InStep
<1>11. \E n \in 0..Len(m'.code) : Holding(n)' /\ Place(n)'
  BY <1>3, <1>5, <1>6
<1> QED BY <1>7, <1>8, <1>9, <1>10, <1>11 DEF InStep

LEMMA ReturnInStep == ASSUME IInv, InStep, Return PROVE InStep'
<1>1. /\ m' = m /\ isa' = isa /\ advanced' = advanced /\ calls' = calls
      /\ m.counterForEnd = 0
      /\ state' = IF m.endProgram THEN "Finished" ELSE "Ready"
  BY DEF Return
<1>2. Settings'
  BY <1>1 DEF InStep, Settings
<1> QED BY <1>1, <1>2 DEF InStep, Holding, Place, SlotsDecoded, StoreInFlight, CaughtUp

LEMMA StutterInStep == ASSUME InStep, UNCHANGED vars PROVE InStep'
BY DEF vars, InStep, Settings, Holding, Place, SlotsDecoded, StoreInFlight, CaughtUp

LEMMA NextInStep ==
  ASSUME AllRegular, IInv, InStep, [Next]_vars PROVE IInv' /\ InStep'
<1>1. IInv'
  BY RegularLawful, NextInv
<1> QED BY <1>1, DispatchInStep, ClockInStep, ReturnInStep, StutterInStep DEF Next, Halted

LEMMA PreciseInvariant == ASSUME AllRegular PROVE Spec => [](IInv /\ InStep)
<1>1. Init => IInv /\ InStep
  BY RegularLawful, InitInv, InitInStep
<1>2. IInv /\ InStep /\ [Next]_vars => (IInv /\ InStep)'
  BY NextInStep
<1> QED BY <1>1, <1>2, PTL DEF Spec

-----------------------------------------------------------------------------
(* The theorems.                                                           *)

(* After every turn, whatever printLock a print has found and whatever     *)
(* has cut the call short, what is on its way to the memory and the write  *)
(* back makes of the machine the state of the Isa, and the ir, the slots   *)
(* and the pc are where the Isa is (CONTROL_UNIT.cpp:24-56, 82-140).       *)
THEOREM TurnByTurn == ASSUME AllRegular PROVE Spec => []InStep
BY PreciseInvariant, PTL

(* A call returns with the registers, the data, the output and the place   *)
(* in the program that its instructions give one after the other: whatever *)
(* the quantum and wherever it falls, preemption is transparent            *)
(* (CONTROL_UNIT.cpp:24-60).                                               *)
THEOREM PreciselyPreempted == ASSUME AllRegular PROVE Spec => []Precise
<1>1. ASSUME IInv, InStep PROVE Precise
  <2>1. ASSUME state # "Executing"
        PROVE  m.regs = isa.regs /\ m.mem = isa.mem /\ m.out = isa.out
    <3>1. m.counter = 0 \/ m.counterForEnd = 0
      BY <1>1, <2>1 DEF InStep, Settings
    <3>2. Flushed(m) = m
      BY <3>1, Idle
    <3> QED BY <1>1, <3>2 DEF InStep, CaughtUp
  <2>2. PICK i \in 0..Len(m.code) : Holding(i) /\ Place(i)
    BY <1>1 DEF InStep
  <2>3. Terminated(m.code) /\ m.pc \in Nat
    BY <1>1, Numbers, RegularTerminated DEF AllRegular, IInv, Machines
  <2>4. EmptySlot # End
    BY Constant
  <2>5. ASSUME state = "Ready" PROVE Resume = isa.pc
    <3>1. (m.counter = 0 \/ m.counterForEnd = 0) /\ ~m.endProgram
      BY <1>1, <2>5 DEF InStep, Settings
    <3>2. isa.pc = IF m.ir = End THEN i ELSE i + 1
      BY <2>2, <3>1 DEF Place
    <3>3. m.pc = i + 1
      BY <2>2, <3>1 DEF Holding
    <3> QED BY <2>2, <3>2, <3>3 DEF Resume
  <2>6. ASSUME state = "Finished" PROVE m.code[isa.pc] = End
    <3>1. (m.counter = 0 \/ m.counterForEnd = 0) /\ m.ir = End
      BY <1>1, <2>6 DEF InStep, Settings
    <3>2. isa.pc = i
      BY <2>2, <3>1 DEF Place
    <3>3. m.ir = m.code[i]
      BY <2>2, <2>4, <3>1 DEF Holding
    <3> QED BY <3>1, <3>2, <3>3
  <2> QED BY <2>1, <2>5, <2>6 DEF Precise
<1> QED BY <1>1, PreciseInvariant, PTL

(* A call that does not finish the program gets on with it, or leaves the  *)
(* END in the ir for the next (CONTROL_UNIT.cpp:24-56, 92-100).            *)
THEOREM GetsOn == ASSUME AllRegular PROVE Spec => []Progress
<1>1. IInv /\ InStep => Progress
  BY Numbers DEF IInv, InStep, Settings, Progress, TypeOK
<1> QED BY <1>1, PreciseInvariant, PTL

(* What is printed early and late comes out in the order of the program:   *)
(* at most the last print is still on its way                              *)
(* (CONTROL_UNIT.cpp:176-188, 454-464).                                    *)
THEOREM PrintedInOrder == ASSUME AllRegular PROVE Spec => []PrintsInOrder
<1>1. ASSUME IInv, InStep PROVE PrintsInOrder
  <2>1. m \in Machines /\ m.out \in Seq(Word)
    BY <1>1, Numbers DEF IInv, Machines
  <2>2. isa.out = Flushed(m).out
    BY <1>1 DEF InStep, CaughtUp
  <2>3. isa.out = m.out \/ \E v \in Word : isa.out = Append(m.out, v)
    <3>1. CASE state # "Executing"
      <4>1. m.counter = 0 \/ m.counterForEnd = 0
        BY <1>1, <3>1 DEF InStep, Settings
      <4> QED BY <2>2, <4>1, Idle
    <3>2. CASE state = "Executing"
      <4>1. Ready(m)
        BY <1>1, <3>2, RegularLawful, ReadyMachine
      <4> PICK u \in BOOLEAN : TRUE
        OBVIOUS
      <4> PICK y, s, z : y = AfterMemory(m, u) /\ s = m.data[m.counter - 3] /\ z = Flushed(m)
        OBVIOUS
      <4>3. y \in Machines /\ z.out = y.out
        BY <4>1, AfterMemoryKeeps, FlushedState
      <4>4. y.out = IF AtMemory(m) THEN PrintedLate(m.out, y.mem, s) ELSE m.out
        <5>1. ASSUME NEW t, t = m.data[m.counter - 4]
              PROVE  y.out = IF AtMemory(m) THEN PrintedLate(m.out, y.mem, s) ELSE m.out
          BY <4>1, <5>1, AfterMemoryState
        <5> QED BY <5>1
      <4>5. ReadMem(y.mem, s.imm) \in Word
        BY <4>3, ReadMemWord
      <4> QED BY <2>2, <4>3, <4>4, <4>5 DEF PrintedLate
    <3> QED BY <3>1, <3>2
  <2>4. CASE isa.out = m.out
    <3>1. SubSeq(m.out, 1, Len(m.out)) = m.out /\ Len(m.out) \in Nat
      BY <2>1, SubSeqFull, LenProperties
    <3> QED BY <2>4, <3>1 DEF PrintsInOrder
  <2>5. ASSUME NEW v \in Word, isa.out = Append(m.out, v) PROVE PrintsInOrder
    <3> DEFINE n == Len(m.out)
               p == SubSeq(isa.out, 1, n)
    <3>1. /\ n \in Nat /\ isa.out \in Seq(Word) /\ Len(isa.out) = n + 1
          /\ \A k \in 1..n : isa.out[k] = m.out[k]
      BY <2>1, <2>5, AppendProperties, LenProperties
    <3>2. p \in Seq(Word) /\ Len(p) = n /\ \A k \in 1..n : p[k] = m.out[k]
      BY <3>1, SubSeqProperties
    <3>3. p = m.out
      BY <2>1, <3>2, SeqEqual
    <3> QED BY <3>1, <3>3 DEF PrintsInOrder
  <2> QED BY <2>3, <2>4, <2>5
<1> QED BY <1>1, PreciseInvariant, PTL

=============================================================================
