--------------------------- MODULE PipelineProofs ---------------------------
(***************************************************************************)
(* Proofs about module Pipeline, for any lawful programs, registers,       *)
(* memory, width of a word and quanta: the types, that a call that is to   *)
(* end ends, and that no instruction takes the simulator down.             *)
(***************************************************************************)
EXTENDS Pipeline, FiniteSetTheorems, TLAPS

AllLawful == \A p \in Programs : Lawful(p)

-----------------------------------------------------------------------------
(* Words.                                                                  *)

(* A word of Width bits is a set of bit positions.                         *)
LEMMA ModulusPositive == Modulus \in Nat \ {0}
<1> DEFINE bits == 1..Width
<1>1. IsFiniteSet(bits) /\ Cardinality(bits) = Width
  BY WidthAssumption, FS_Interval
<1> HIDE DEF bits
<1>2. IsFiniteSet(SUBSET bits) /\ Cardinality(SUBSET bits) = Modulus
  BY <1>1, FS_SUBSET DEF Modulus
<1>3. {} \in SUBSET bits
  OBVIOUS
<1>4. SUBSET bits # {}
  BY <1>3
<1> QED BY <1>2, <1>4, FS_CardinalityType, FS_EmptySet

LEMMA WrapWord == ASSUME NEW n \in Int PROVE Wrap(n) \in Word
BY ModulusPositive DEF Wrap, Word

LEMMA QuotientWord == ASSUME NEW A \in Word, NEW B \in Word, B # 0 PROVE A \div B \in Word
<1>1. A \in Nat /\ B \in Nat /\ A < Modulus /\ Modulus \in Nat
  BY ModulusPositive DEF Word
<1> DEFINE q == A \div B
<1>2. q \in Int /\ A = B * q + (A % B) /\ A % B \in 0..(B - 1)
  BY <1>1
<1> HIDE DEF q
<1>3. q >= 0
  BY <1>1, <1>2
<1>4. q <= A
  BY <1>1, <1>2, <1>3
<1> QED BY <1>1, <1>2, <1>3, <1>4 DEF Word, q

LEMMA ResultWord ==
  ASSUME NEW op \in {"ADD", "SUB", "MUL", "DIV"},
         NEW A \in Word, NEW B \in Word, NEW junk \in Word
  PROVE  Result(op, A, B, junk) \in Word
<1>1. A \in Int /\ B \in Int
  BY ModulusPositive DEF Word
<1>2. A + B \in Int /\ A - B \in Int /\ A * B \in Int
  BY <1>1
<1>3. Wrap(A + B) \in Word /\ Wrap(A - B) \in Word /\ Wrap(A * B) \in Word
  BY <1>2, WrapWord
<1>4. (IF B = 0 THEN junk ELSE A \div B) \in Word
  BY QuotientWord
<1> QED BY <1>3, <1>4, Zenon DEF Result

-----------------------------------------------------------------------------
(* Instructions.                                                           *)

LEMMA Constant ==
  /\ EmptySlot \in Fields /\ End \in Fields
  /\ \A p : Executable(EmptySlot, p) /\ Executable(End, p)
  /\ EmptySlot # End /\ End.op \notin Jumps
<1>1. /\ EmptySlot = [op |-> "", rs |-> NoReg, rt |-> NoReg, rd |-> NoReg, imm |-> NoImm]
      /\ End = [op |-> "END", rs |-> NoReg, rt |-> NoReg, rd |-> NoReg, imm |-> NoImm]
  BY DEF EmptySlot, End, Instr
<1>2. EmptySlot \in Fields /\ End \in Fields
  BY <1>1 DEF Fields, Names, Operations
<1>3. /\ \A p : Executable(EmptySlot, p) /\ Executable(End, p)
      /\ EmptySlot # End /\ End.op \notin Jumps
  <2>1. EmptySlot.op = "" /\ End.op = "END"
    BY <1>1
  <2>2. EmptySlot # End /\ End.op \notin Jumps
    BY <2>1 DEF Jumps, Comparing
  <2>3. \A p : Executable(EmptySlot, p) /\ Executable(End, p)
    BY <2>1 DEF Executable, Jumps, Comparing, Arithmetic
  <2> QED BY <2>2, <2>3
<1> QED BY <1>2, <1>3

(* Decode writes the fields the operation needs, and what it leaves stays  *)
(* a name or a number.                                                     *)
LEMMA DecodedKeeps ==
  ASSUME NEW p, NEW i \in Fields, NEW s \in Fields, Executable(i, p), Executable(s, p)
  PROVE  /\ Decoded(i, s) \in Fields
         /\ Executable(Decoded(i, s), p)
         /\ i.op \notin Jumps => Decoded(i, s).op \notin Jumps
<1> DEFINE op == IF i.op \in Identified THEN i.op ELSE ""
           d == Decoded(i, s)
<1>1. op \in Operations /\ op \in {i.op, ""} /\ op \in Identified \cup {""}
  <2>1. CASE i.op \in Identified
    BY <2>1 DEF Operations
  <2>2. CASE i.op \notin Identified
    BY <2>2 DEF Operations
  <2> QED BY <2>1, <2>2
<1>2. d = [op |-> op, rs |-> d.rs, rt |-> d.rt, rd |-> d.rd, imm |-> d.imm]
  BY DEF Decoded
<1>3. /\ d.rs = IF op \in Arithmetic \cup Comparing THEN i.rs ELSE s.rs
      /\ op \in Arithmetic \cup Comparing => d.rt = i.rt
      /\ op \in Immediate => d.rt = i.rt
      /\ op \in Comparing \cup {"J"} => d.imm = i.imm
      /\ d.rt \in {i.rt, s.rt} /\ d.rd \in {i.rd, s.rd} /\ d.imm \in {i.imm, s.imm}
  BY DEF Decoded
<1> HIDE DEF op, d
<1>4. d \in Fields /\ d.op = op
  <2>1. d.op = op
    BY <1>2
  <2>2. d.rs \in Names /\ d.rt \in Names /\ d.rd \in Names /\ d.imm \in Nat \cup {NoImm}
    BY <1>3 DEF Fields
  <2> QED BY <1>1, <1>2, <2>1, <2>2 DEF Fields
<1>5. i.op \notin Jumps => d.op \notin Jumps
  BY <1>1, <1>4 DEF Jumps, Comparing
<1>6. Executable(d, p)
  <2>1. d.op # "BEQ"
    BY <1>1, <1>4 DEF Executable
  <2>2. ASSUME op \in Arithmetic \cup Comparing \cup {"BNE"}
        PROVE  d.rs \in Regs /\ d.rt \in Regs
    BY <1>1, <1>3, <2>2 DEF Executable, Arithmetic, Comparing, Identified, Immediate
  <2>3. op = "SW" => d.rt \in Regs
    BY <1>1, <1>3 DEF Executable, Immediate
  <2>4. ASSUME op \in Jumps PROVE d.imm \in DOMAIN p /\ p[d.imm].op \notin Jumps
    BY <1>1, <1>3, <1>4, <2>1, <2>4 DEF Executable, Jumps, Comparing, Identified,
       Arithmetic, Immediate
  <2> QED BY <1>4, <2>1, <2>2, <2>3, <2>4 DEF Executable
<1> QED BY <1>4, <1>5, <1>6 DEF d

-----------------------------------------------------------------------------
(* The stages.                                                             *)

(* What a stage does that neither jumps, decodes nor fetches.              *)
Keeps(x, y) ==
  /\ y.code = x.code /\ y.quantum = x.quantum
  /\ y.pc = x.pc /\ y.ir = x.ir /\ y.data = x.data
  /\ y.counter = x.counter /\ y.counterForEnd = x.counterForEnd /\ y.clock = x.clock
  /\ y.crashed = x.crashed /\ y.endProgram = x.endProgram
  /\ x.endExecution => y.endExecution

LEMMA WriteBackKeeps ==
  ASSUME NEW x \in Machines, NEW s \in Fields, Executable(s, x.code)
  PROVE  WriteBack(x, s) \in Machines /\ Keeps(x, WriteBack(x, s))
<1> DEFINE w == WriteMem(x.mem, s.imm, x.regs[s.rt])
<1>1. CASE s.op = "SW"
  <2>1. x.regs[s.rt] \in Word
    BY <1>1 DEF Executable, Machines
  <2>2. w \in [Vars -> Word]
    BY <2>1 DEF WriteMem, Machines
  <2>3. WriteBack(x, s) = [x EXCEPT !.mem = w]
    BY <1>1 DEF WriteBack
  <2> HIDE DEF w
  <2> QED BY <2>2, <2>3 DEF Machines, Keeps
<1>2. CASE s.op # "SW"
  BY <1>2 DEF WriteBack, Keeps
<1> QED BY <1>1, <1>2

LEMMA PushRequestKeeps ==
  ASSUME NEW x \in Machines, NEW value \in Word, NEW printLock \in BOOLEAN
  PROVE  /\ PushRequest(x, value, printLock) \in Machines
         /\ Keeps(x, PushRequest(x, value, printLock))
<1> DEFINE o == Append(x.out, value)
           b == x.blocked \/ printLock
           e == x.endExecution \/ printLock
<1>1. o \in Seq(Word)
  BY DEF Machines
<1>2. b \in BOOLEAN /\ e \in BOOLEAN
  OBVIOUS
<1>3. x.endExecution => e
  OBVIOUS
<1>4. PushRequest(x, value, printLock)
        = [x EXCEPT !.out = o, !.blocked = b, !.endExecution = e]
  BY DEF PushRequest
<1> HIDE DEF o, b, e
<1>5. PushRequest(x, value, printLock) \in Machines
  BY <1>1, <1>2, <1>4 DEF Machines
<1>6. Keeps(x, PushRequest(x, value, printLock))
  BY <1>3, <1>4 DEF Machines, Keeps
<1> QED BY <1>5, <1>6

LEMMA ReadMemWord ==
  ASSUME NEW x \in Machines, NEW a PROVE ReadMem(x.mem, a) \in Word
BY ModulusPositive DEF Machines, ReadMem, Word

LEMMA WriteRegister ==
  ASSUME NEW x \in Machines, NEW r, NEW value \in Word,
         NEW y, y = [x EXCEPT !.regs = [@ EXCEPT ![r] = value]]
  PROVE  y \in Machines /\ Keeps(x, y)
<1> DEFINE g == [x.regs EXCEPT ![r] = value]
<1>1. g \in [Regs -> Word]
  BY DEF Machines
<1>2. y = [x EXCEPT !.regs = g]
  OBVIOUS
<1> HIDE DEF g
<1> QED BY <1>1, <1>2 DEF Machines, Keeps

LEMMA MemoryAccessKeeps ==
  ASSUME NEW x \in Machines, NEW s \in Fields, NEW printLock \in BOOLEAN,
         NEW y, y = MemoryAccess(x, s, printLock)
  PROVE  y \in Machines /\ Keeps(x, y)
<1>1. CASE s.op = "LW"
  <2>1. y = [x EXCEPT !.regs = [@ EXCEPT ![s.rt] = ReadMem(x.mem, s.imm)]]
    BY <1>1, Zenon DEF MemoryAccess
  <2>2. ReadMem(x.mem, s.imm) \in Word
    BY ReadMemWord
  <2> QED BY <2>1, <2>2, WriteRegister, Zenon
<1>2. CASE s.op \in {"LA", "LI"}
  <2>1. y = [x EXCEPT !.regs = [@ EXCEPT ![s.rt] = Wrap(s.imm)]]
    BY <1>2, Zenon DEF MemoryAccess
  <2>2. Wrap(s.imm) \in Word
    BY WrapWord DEF Fields, NoImm
  <2> QED BY <2>1, <2>2, WriteRegister, Zenon
<1>3. CASE s.op = "PRINT" /\ s.rt = NoReg
  <2>1. y = PushRequest(x, ReadMem(x.mem, s.imm), printLock)
    BY <1>3, Zenon DEF MemoryAccess
  <2> QED BY <2>1, ReadMemWord, PushRequestKeeps
<1>4. CASE s.op \notin {"LW", "LA", "LI"} /\ ~(s.op = "PRINT" /\ s.rt = NoReg)
  <2>1. y = x
    BY <1>4, Zenon DEF MemoryAccess
  <2> QED BY <2>1 DEF Keeps
<1> QED BY <1>1, <1>2, <1>3, <1>4

(* A jump that is taken.                                                   *)
Jumped(x, y) ==
  /\ y.code = x.code /\ y.quantum = x.quantum /\ y.data = x.data
  /\ y.clock = x.clock /\ y.crashed = x.crashed
  /\ y.counter = 0 /\ y.counterForEnd = 5
  /\ y.pc \in DOMAIN x.code /\ y.ir = x.code[y.pc] /\ y.ir.op \notin Jumps
  /\ ~y.endProgram /\ (x.endExecution => y.endExecution)

LEMMA JumpJumped ==
  ASSUME NEW x \in Machines, NEW s \in Fields, Executable(s, x.code),
         Lawful(x.code), s.op \in Jumps,
         NEW y, y = Jump(x, s)
  PROVE  y \in Machines /\ Jumped(x, y)
<1> DEFINE c == x.code
           k == s.imm
<1>1. k \in DOMAIN c /\ c[k].op \notin Jumps
  BY DEF Executable
<1>2. c \in Seq(Fields)
  BY DEF Lawful
<1>3. c[k] \in Fields /\ k \in Nat
  BY <1>1, <1>2
<1>4. y = [x EXCEPT !.pc = k, !.ir = c[k], !.counter = 0, !.counterForEnd = 5,
                    !.endProgram = FALSE]
  BY DEF Jump
<1>5. 0 \in 0..(LastSlot + 5) /\ 5 \in 0..5
  BY PipelineAssumption
<1> HIDE DEF k
<1>6. y \in Machines
  BY <1>3, <1>4, <1>5 DEF Machines
<1>7. Jumped(x, y)
  BY <1>1, <1>4 DEF Machines, Jumped
<1> QED BY <1>6, <1>7

LEMMA ExecuteKeeps ==
  ASSUME NEW x \in Machines, NEW s \in Fields, Executable(s, x.code), Lawful(x.code),
         NEW printLock \in BOOLEAN, NEW junk \in Word,
         NEW y, y = Execute(x, s, printLock, junk)
  PROVE  /\ y \in Machines
         /\ Keeps(x, y) \/ (s.op \in Jumps /\ Jumped(x, y))
<1> DEFINE arithmetic == {"ADD", "SUB", "MUL", "DIV"}
<1>1. CASE s.op \in arithmetic
  <2>1. y = [x EXCEPT !.regs = [@ EXCEPT ![s.rd] =
                 Result(s.op, x.regs[s.rs], x.regs[s.rt], junk)]]
    <3>1. s.op \notin Comparing \cup {"J", "BEQ", "BNE"} /\ s.op # "PRINT"
      BY <1>1 DEF Comparing
    <3> HIDE DEF arithmetic
    <3>2. y = ExecuteArithmetic(x, s, junk)
      BY <1>1, <3>1, Zenon DEF Execute, arithmetic
    <3> QED BY <3>2 DEF ExecuteArithmetic
  <2>2. s.rs \in Regs /\ s.rt \in Regs
    BY <1>1 DEF Fields, Operations, Identified, Arithmetic, Immediate, Comparing, Executable
  <2>3. x.regs[s.rs] \in Word /\ x.regs[s.rt] \in Word
    BY <2>2 DEF Machines
  <2>4. Result(s.op, x.regs[s.rs], x.regs[s.rt], junk) \in Word
    BY <1>1, <2>3, ResultWord
  <2> QED BY <2>1, <2>4, WriteRegister, Zenon
<1>2. CASE s.op \in Comparing \cup {"J", "BEQ", "BNE"}
  <2>1. y = ExecuteLoop(x, s)
    <3>1. s.op \notin arithmetic /\ s.op # "PRINT"
      BY <1>2 DEF Comparing
    <3> QED BY <1>2, <3>1, Zenon DEF Execute
  <2>2. s.op \in Jumps
    BY <1>2 DEF Jumps
  <2>3. s.op # "J" => ~Throws(x, s)
    <3>1. s.op # "J" => s.rs \in Regs /\ s.rt \in Regs
      BY <1>2 DEF Executable, Jumps
    <3>2. s.imm # NoImm
      BY <2>2 DEF Executable, Lawful, NoImm
    <3> QED BY <3>1, <3>2, PipelineAssumption DEF Throws
  <2>4. y = Jump(x, s) \/ y = x
    BY <2>1, <2>3 DEF ExecuteLoop
  <2>5. CASE y = x
    BY <2>5 DEF Keeps
  <2> QED BY <2>2, <2>4, <2>5, JumpJumped
<1>3. CASE s.op = "PRINT" /\ s.rt # NoReg
  <2>1. y = PushRequest(x, x.regs[s.rt], printLock)
    BY <1>3, Zenon DEF Execute, Comparing
  <2>2. x.regs[s.rt] \in Word
    BY <1>3 DEF Machines, Fields, Names
  <2> QED BY <2>1, <2>2, PushRequestKeeps
<1>4. CASE /\ s.op \notin arithmetic \cup Comparing \cup {"J", "BEQ", "BNE"}
           /\ ~(s.op = "PRINT" /\ s.rt # NoReg)
  <2>1. y = x
    BY <1>4, Zenon DEF Execute
  <2> QED BY <2>1 DEF Keeps
<1> QED BY <1>1, <1>2, <1>3, <1>4

-----------------------------------------------------------------------------
(* A turn.                                                                 *)

(* Decodable and the range of the pc, of any machine.                      *)
Loaded(x) ==
  /\ Executable(x.ir, x.code)
  /\ \A k \in 0..LastSlot : Executable(x.data[k], x.code)
  /\ x.pc \in 1..(Len(x.code) + 1)
  /\ x.pc > Len(x.code) => x.ir = End

(* No stage works on a slot beyond the last one.                           *)
Fits(x) == x.counter + x.counterForEnd <= LastSlot + 5

Ready(x) == x \in Machines /\ Lawful(x.code) /\ Loaded(x) /\ Fits(x)

LEMMA KeepsReady ==
  ASSUME NEW x, Ready(x), NEW y \in Machines, Keeps(x, y) PROVE Ready(y)
BY DEF Ready, Keeps, Loaded, Fits

LEMMA Slot ==
  ASSUME NEW x, Ready(x), NEW n \in Nat, n <= x.counter, x.counter - n <= LastSlot
  PROVE  /\ x.data[x.counter - n] \in Fields
         /\ Executable(x.data[x.counter - n], x.code)
<1>1. x.counter - n \in 0..LastSlot
  BY PipelineAssumption DEF Ready, Machines
<1> QED BY <1>1 DEF Ready, Loaded, Machines

LEMMA AfterMemoryKeeps ==
  ASSUME NEW x, Ready(x), NEW printLock \in BOOLEAN,
         NEW y, y = AfterMemory(x, printLock)
  PROVE  y \in Machines /\ Keeps(x, y)
<1>0. x \in Machines /\ x.counter \in Nat /\ x.counterForEnd \in Nat /\ LastSlot \in Nat
  BY PipelineAssumption DEF Ready, Machines
<1> DEFINE w == IF AtWriteBack(x) THEN WriteBack(x, x.data[x.counter - 4]) ELSE x
<1>1. w \in Machines /\ Keeps(x, w)
  <2>1. CASE AtWriteBack(x)
    <3>1. 4 <= x.counter /\ x.counter - 4 <= LastSlot
      BY <1>0, <2>1 DEF AtWriteBack, Ready, Fits
    <3>2. x.data[x.counter - 4] \in Fields /\ Executable(x.data[x.counter - 4], x.code)
      BY <3>1, Slot
    <3> QED BY <1>0, <2>1, <3>2, WriteBackKeeps
  <2>2. CASE ~AtWriteBack(x)
    BY <1>0, <2>2 DEF Keeps
  <2> QED BY <2>1, <2>2
<1>2. y = IF AtMemory(w) THEN MemoryAccess(w, w.data[w.counter - 3], printLock) ELSE w
  BY DEF AfterMemory
<1> HIDE DEF w
<1>3. Ready(w)
  BY <1>1, KeepsReady
<1>4. w.counter \in Nat /\ w.counterForEnd \in Nat
  BY <1>0, <1>1 DEF Keeps
<1>5. y \in Machines /\ Keeps(w, y)
  <2>1. CASE AtMemory(w)
    <3>1. 3 <= w.counter /\ w.counter - 3 <= LastSlot
      BY <1>0, <1>3, <1>4, <2>1 DEF AtMemory, Ready, Fits
    <3>2. w.data[w.counter - 3] \in Fields
      BY <1>3, <3>1, Slot
    <3> QED BY <1>1, <1>2, <2>1, <3>2, MemoryAccessKeeps
  <2>2. CASE ~AtMemory(w)
    BY <1>1, <1>2, <2>2 DEF Keeps
  <2> QED BY <2>1, <2>2
<1> QED BY <1>1, <1>5 DEF Keeps

(* The stage that may jump.                                                *)
LEMMA AfterExecuteKeeps ==
  ASSUME NEW x, Ready(x), NEW printLock \in BOOLEAN, NEW junk \in Word,
         NEW y, y = AfterExecute(x, printLock, junk)
  PROVE  /\ y \in Machines
         /\ \/ Keeps(x, y)
            \/ AtExecute(x) /\ x.data[x.counter - 2].op \in Jumps /\ Jumped(x, y)
<1> DEFINE a == AfterMemory(x, printLock)
<1>1. a \in Machines /\ Keeps(x, a)
  BY AfterMemoryKeeps
<1>2. y = IF AtExecute(a) THEN Execute(a, a.data[a.counter - 2], printLock, junk) ELSE a
  BY DEF AfterExecute
<1> HIDE DEF a
<1>3. Ready(a)
  BY <1>1, KeepsReady
<1>4. CASE AtExecute(a)
  <2>1. a.counter \in Nat /\ a.counterForEnd \in Nat /\ LastSlot \in Nat
    BY <1>1, PipelineAssumption DEF Machines
  <2>2. 2 <= a.counter /\ a.counter - 2 <= LastSlot
    BY <1>3, <1>4, <2>1 DEF AtExecute, Ready, Fits
  <2> DEFINE s == a.data[a.counter - 2]
  <2>3. s \in Fields /\ Executable(s, a.code)
    BY <1>3, <2>2, Slot
  <2>4. s = x.data[x.counter - 2] /\ AtExecute(x)
    BY <1>1, <1>4 DEF Keeps, AtExecute
  <2>5. y = Execute(a, s, printLock, junk)
    BY <1>2, <1>4
  <2> HIDE DEF s
  <2>6. y \in Machines /\ (Keeps(a, y) \/ (s.op \in Jumps /\ Jumped(a, y)))
    BY <1>1, <1>3, <2>3, <2>5, ExecuteKeeps DEF Ready
  <2>7. CASE Keeps(a, y)
    BY <1>1, <2>6, <2>7 DEF Keeps
  <2>8. CASE s.op \in Jumps /\ Jumped(a, y) /\ ~Keeps(a, y)
    BY <1>1, <2>4, <2>6, <2>8 DEF Keeps, Jumped
  <2> QED BY <2>6, <2>7, <2>8
<1>5. CASE ~AtExecute(a)
  BY <1>1, <1>2, <1>5
<1> QED BY <1>4, <1>5

(* Decode writes a slot with what is in the ir.                            *)
LEMMA DecodeKeeps ==
  ASSUME NEW x, x \in Machines, Lawful(x.code), Loaded(x),
         AtDecode(x) => x.counter - 1 <= LastSlot,
         NEW y, y = IF AtDecode(x) THEN Decode(x, x.counter - 1) ELSE x
  PROVE  /\ y \in Machines /\ Loaded(y)
         /\ \E data \in [0..LastSlot -> Fields] :
              /\ y = [x EXCEPT !.data = data]
              /\ AtDecode(x) /\ x.ir.op \notin Jumps => data[x.counter - 1].op \notin Jumps
<1>1. CASE AtDecode(x)
  <2> DEFINE k == x.counter - 1
             d == Decoded(x.ir, x.data[k])
             data == [x.data EXCEPT ![k] = d]
  <2>1. k \in 0..LastSlot
    BY <1>1, PipelineAssumption DEF AtDecode, Machines
  <2>2. /\ x.ir \in Fields /\ x.data[k] \in Fields
        /\ Executable(x.ir, x.code) /\ Executable(x.data[k], x.code)
    BY <2>1 DEF Machines, Loaded
  <2> HIDE DEF k
  <2>3. d \in Fields /\ Executable(d, x.code) /\ (x.ir.op \notin Jumps => d.op \notin Jumps)
    BY <2>2, DecodedKeeps
  <2>4. y = [x EXCEPT !.data = data]
    BY <1>1 DEF Decode, k
  <2> HIDE DEF d
  <2>5. /\ data \in [0..LastSlot -> Fields] /\ data[k] = d
        /\ \A j \in 0..LastSlot : Executable(data[j], x.code)
    BY <2>1, <2>3 DEF Machines, Loaded
  <2> HIDE DEF data
  <2>6. y \in Machines /\ Loaded(y)
    BY <2>4, <2>5 DEF Machines, Loaded
  <2> QED BY <2>3, <2>4, <2>5, <2>6 DEF k
<1>2. CASE ~AtDecode(x)
  <2>1. x.data \in [0..LastSlot -> Fields] /\ x = [x EXCEPT !.data = x.data]
    BY DEF Machines
  <2> QED BY <1>2, <2>1
<1> QED BY <1>1, <1>2

(* Fetch finds an instruction, or the END.                                 *)
LEMMA FetchKeeps ==
  ASSUME NEW x, x \in Machines, Lawful(x.code), Loaded(x),
         NEW y, y = IF AtFetch(x) THEN Fetch(x) ELSE x
  PROVE  /\ y \in Machines /\ Loaded(y)
         /\ y.code = x.code /\ y.quantum = x.quantum /\ y.data = x.data
         /\ y.counter = x.counter /\ y.counterForEnd = x.counterForEnd /\ y.clock = x.clock
         /\ y.crashed = x.crashed /\ y.endExecution = x.endExecution
         /\ y.ir = x.code[x.pc] \/ y.ir = x.ir
<1>1. CASE AtFetch(x) /\ x.ir = End
  <2>1. y = [x EXCEPT !.endProgram = TRUE]
    BY <1>1 DEF Fetch
  <2> QED BY <2>1 DEF Machines, Loaded
<1>2. CASE AtFetch(x) /\ x.ir # End
  <2> DEFINE c == x.code
             k == x.pc
  <2>1. y = [x EXCEPT !.ir = c[k], !.pc = k + 1]
    BY <1>2 DEF Fetch
  <2>2. c \in Seq(Fields) /\ k \in DOMAIN c /\ Len(c) \in Nat
    BY <1>2 DEF Loaded, Lawful
  <2>3. c[k] \in Fields /\ Executable(c[k], c) /\ (k = Len(c) => c[k] = End)
    BY <2>2 DEF Lawful
  <2>4. k \in 1..Len(c)
    BY <2>2
  <2> DEFINE i == c[k]
  <2> HIDE DEF i
  <2>5. y = [x EXCEPT !.ir = i, !.pc = k + 1] /\ i \in Fields /\ k + 1 \in Nat
    BY <2>1, <2>3, <2>4 DEF i
  <2>6. y \in Machines
    BY <2>5 DEF Machines
  <2>7. /\ y.ir = i /\ y.pc = k + 1 /\ y.code = c
        /\ y.quantum = x.quantum /\ y.data = x.data
        /\ y.counter = x.counter /\ y.counterForEnd = x.counterForEnd /\ y.clock = x.clock
        /\ y.crashed = x.crashed /\ y.endExecution = x.endExecution
    BY <2>5 DEF Machines
  <2>8. k + 1 \in 1..(Len(c) + 1) /\ (k + 1 > Len(c) => k = Len(c))
    BY <2>2, <2>4
  <2>9. Loaded(y)
    BY <2>3, <2>7, <2>8 DEF i, Loaded
  <2> QED BY <2>6, <2>7, <2>9 DEF i
<1>3. CASE ~AtFetch(x)
  BY <1>3
<1> QED BY <1>1, <1>2, <1>3

(* What a turn leaves, its counters apart.                                 *)
Settled(x, z) ==
  /\ z \in Machines /\ Loaded(z)
  /\ z.code = x.code /\ z.quantum = x.quantum /\ z.clock = x.clock /\ z.crashed = x.crashed
  /\ x.endExecution => z.endExecution

(* The counters when no jump was taken.                                    *)
Straight(x, z) ==
  /\ z.counter = x.counter /\ z.counterForEnd = x.counterForEnd
  /\ AtDecode(x) /\ x.ir.op \notin Jumps => z.data[x.counter - 1].op \notin Jumps

(* And when one was.                                                       *)
Restarted(x, z) ==
  /\ AtExecute(x) /\ x.data[x.counter - 2].op \in Jumps
  /\ z.counter = 0 /\ z.counterForEnd = 5 /\ z.ir.op \notin Jumps

LEMMA TurnSettles ==
  ASSUME NEW x, Ready(x), NEW printLock \in BOOLEAN, NEW junk \in Word
  PROVE  \E z : /\ Turn(x, printLock, junk) = Tick(z)
                /\ Settled(x, z)
                /\ Straight(x, z) \/ Restarted(x, z)
<1> DEFINE a == AfterExecute(x, printLock, junk)
           d == IF AtDecode(a) THEN Decode(a, a.counter - 1) ELSE a
           z == IF AtFetch(d) THEN Fetch(d) ELSE d
<1>0. Turn(x, printLock, junk) = Tick(z)
  BY DEF Turn
<1>1. /\ a \in Machines
      /\ \/ Keeps(x, a)
         \/ AtExecute(x) /\ x.data[x.counter - 2].op \in Jumps /\ Jumped(x, a)
  BY AfterExecuteKeeps
<1>2. d = IF AtDecode(a) THEN Decode(a, a.counter - 1) ELSE a
  OBVIOUS
<1>3. z = IF AtFetch(d) THEN Fetch(d) ELSE d
  OBVIOUS
<1> HIDE DEF a, d, z
<1>4. CASE Keeps(x, a)
  <2>1. Ready(a)
    BY <1>1, <1>4, KeepsReady
  <2>2. AtDecode(a) => a.counter - 1 <= LastSlot
    BY <2>1, PipelineAssumption DEF AtDecode, Ready, Fits, Machines
  <2>3. /\ d \in Machines /\ Loaded(d)
        /\ \E data \in [0..LastSlot -> Fields] :
             /\ d = [a EXCEPT !.data = data]
             /\ AtDecode(a) /\ a.ir.op \notin Jumps => data[a.counter - 1].op \notin Jumps
    BY <1>2, <2>1, <2>2, DecodeKeeps DEF Ready
  <2>4. /\ d.code = a.code /\ d.quantum = a.quantum /\ d.clock = a.clock
        /\ d.crashed = a.crashed /\ d.endExecution = a.endExecution
        /\ d.counter = a.counter /\ d.counterForEnd = a.counterForEnd
        /\ AtDecode(a) /\ a.ir.op \notin Jumps => d.data[a.counter - 1].op \notin Jumps
    BY <1>1, <2>3 DEF Machines
  <2>5. /\ z \in Machines /\ Loaded(z)
        /\ z.code = d.code /\ z.quantum = d.quantum /\ z.data = d.data
        /\ z.counter = d.counter /\ z.counterForEnd = d.counterForEnd /\ z.clock = d.clock
        /\ z.crashed = d.crashed /\ z.endExecution = d.endExecution
    <3>1. d \in Machines /\ Lawful(d.code) /\ Loaded(d)
      BY <2>1, <2>3, <2>4 DEF Ready
    <3> QED BY <1>3, <3>1, FetchKeeps
  <2>6. AtDecode(a) = AtDecode(x)
    BY <1>4 DEF AtDecode, Keeps
  <2>7. Settled(x, z)
    BY <1>4, <2>4, <2>5 DEF Settled, Keeps
  <2>8. Straight(x, z)
    BY <1>4, <2>4, <2>5, <2>6 DEF Straight, Keeps
  <2> QED BY <1>0, <2>7, <2>8
<1>5. CASE AtExecute(x) /\ x.data[x.counter - 2].op \in Jumps /\ Jumped(x, a)
  <2>1. d = a
    BY <1>2, <1>5 DEF AtDecode, Jumped
  <2>2. Lawful(a.code) /\ Loaded(a)
    <3>1. Lawful(x.code) /\ Loaded(x)
      BY DEF Ready
    <3>2. a.code = x.code /\ a.data = x.data /\ a.pc \in DOMAIN x.code /\ a.ir = x.code[a.pc]
      BY <1>5 DEF Jumped
    <3>3. a.pc \in 1..Len(x.code) /\ Len(x.code) \in Nat /\ Executable(a.ir, x.code)
      BY <3>1, <3>2 DEF Lawful
    <3> QED BY <3>1, <3>2, <3>3 DEF Loaded
  <2>3. /\ z \in Machines /\ Loaded(z)
        /\ z.code = a.code /\ z.quantum = a.quantum /\ z.data = a.data
        /\ z.counter = a.counter /\ z.counterForEnd = a.counterForEnd /\ z.clock = a.clock
        /\ z.crashed = a.crashed /\ z.endExecution = a.endExecution
        /\ z.ir = a.code[a.pc] \/ z.ir = a.ir
    BY <1>1, <1>3, <2>1, <2>2, FetchKeeps
  <2>4. Settled(x, z)
    BY <1>5, <2>3 DEF Settled, Jumped
  <2>5. Restarted(x, z)
    BY <1>5, <2>3 DEF Restarted, Jumped
  <2> QED BY <1>0, <2>4, <2>5
<1> QED BY <1>1, <1>4, <1>5

-----------------------------------------------------------------------------
(* The invariant.                                                          *)

IInv == TypeOK /\ CallInv

LEMMA Numbers ==
  ASSUME TypeOK
  PROVE  /\ m \in Machines /\ m.code \in Programs
         /\ m.quantum \in Nat /\ m.quantum >= 1 /\ m.quantum <= LastSlot + 1
         /\ m.clock \in Nat /\ m.counter \in Nat /\ m.counterForEnd \in 0..5
         /\ drain \in Nat /\ LastSlot \in Nat
         /\ m.endExecution \in BOOLEAN
<1>1. /\ m \in Machines /\ m.code \in Programs /\ m.quantum \in Quanta
      /\ m.counter \in 0..(LastSlot + 5) /\ m.counterForEnd \in 0..5
      /\ m.clock \in Nat /\ m.endExecution \in BOOLEAN
  BY DEF TypeOK, Machines
<1>2. drain \in 0..MaxDrain
  BY DEF TypeOK
<1>3. m.quantum \in 1..(LastSlot + 1) /\ LastSlot \in Nat /\ MaxDrain \in Nat
  BY <1>1, PipelineAssumption
<1> QED BY <1>1, <1>2, <1>3

LEMMA ReadyMachine ==
  ASSUME AllLawful, IInv, state = "Executing" PROVE Ready(m)
<1>1. Lawful(m.code)
  BY Numbers DEF AllLawful, IInv
<1>2. Loaded(m)
  BY DEF IInv, CallInv, Decodable, TypeOK, Loaded
<1>3. Fits(m)
  BY Numbers DEF IInv, CallInv, Drains, Fits
<1> QED BY <1>1, <1>2, <1>3, Numbers DEF Ready, IInv

LEMMA InitInv == ASSUME AllLawful, Init PROVE IInv
<1> PICK p \in Programs, q \in Quanta :
       m = [code |-> p, quantum |-> q, regs |-> NewRegs, mem |-> NewMem,
            pc |-> 1, ir |-> EmptySlot, out |-> <<>>, crashed |-> FALSE,
            data |-> [k \in 0..LastSlot |-> EmptySlot],
            counter |-> 0, counterForEnd |-> 5, clock |-> 0,
            endProgram |-> FALSE, endExecution |-> FALSE, blocked |-> FALSE]
  BY DEF Init
<1>1. NewRegs \in [Regs -> Word] /\ NewMem \in [Vars -> Word]
  <2>1. 0 \in Word
    BY ModulusPositive DEF Word
  <2>2. \A v \in Vars : Wrap(v) \in Word
    BY PipelineAssumption, WrapWord
  <2> QED BY <2>1, <2>2 DEF NewRegs, NewMem
<1>2. p \in Seq(Fields) /\ p # <<>> /\ 1 <= Len(p) /\ Len(p) \in Nat
  BY DEF AllLawful, Lawful
<1>3. m \in Machines
  <2>1. [k \in 0..LastSlot |-> EmptySlot] \in [0..LastSlot -> Fields]
    BY Constant
  <2>2. q \in Nat /\ <<>> \in Seq(Word) /\ 5 \in 0..5 /\ 0 \in 0..(LastSlot + 5)
    BY PipelineAssumption
  <2> QED BY <1>1, <2>1, <2>2, Constant DEF Machines
<1>4. TypeOK
  <2>1. m.pc = 1 /\ m.code = p /\ m.clock = 0 /\ m.quantum = q /\ q \in Nat
    BY PipelineAssumption
  <2> QED BY <1>2, <1>3, <2>1, PipelineAssumption DEF TypeOK, Init
<1>5. CallInv
  <2>1. m.ir = EmptySlot /\ m.pc = 1 /\ m.code = p /\ m.crashed = FALSE
        /\ m.data = [k \in 0..LastSlot |-> EmptySlot]
    OBVIOUS
  <2>2. Decodable
    BY <1>2, <2>1, Constant DEF Decodable
  <2> QED BY <2>1, <2>2 DEF CallInv, DrainBounded, Init
<1> QED BY <1>4, <1>5 DEF IInv

LEMMA DispatchInv == ASSUME AllLawful, IInv, Dispatch PROVE IInv'
<1>1. m' = [m EXCEPT !.data = [k \in 0..LastSlot |-> EmptySlot],
              !.counter = 0, !.counterForEnd = 5, !.clock = 0,
              !.endProgram = FALSE, !.endExecution = FALSE, !.blocked = FALSE]
  BY DEF Dispatch, Fresh
<1>2. [k \in 0..LastSlot |-> EmptySlot] \in [0..LastSlot -> Fields]
      /\ 5 \in 0..5 /\ 0 \in 0..(LastSlot + 5)
  BY Constant, PipelineAssumption
<1>3. m \in Machines
  BY DEF IInv, TypeOK
<1>4. /\ m'.code = m.code /\ m'.quantum = m.quantum /\ m'.pc = m.pc /\ m'.ir = m.ir
      /\ m'.crashed = m.crashed /\ m'.data = [k \in 0..LastSlot |-> EmptySlot]
      /\ m'.counter = 0 /\ m'.counterForEnd = 5 /\ m'.clock = 0 /\ m'.endExecution = FALSE
  BY <1>1, <1>3 DEF Machines
<1>5. m' \in Machines
  BY <1>1, <1>2, <1>3 DEF Machines
<1>6. TypeOK'
  BY <1>4, <1>5, Numbers, PipelineAssumption DEF Dispatch, IInv, TypeOK
<1>7. Decodable'
  BY <1>4, Constant DEF IInv, CallInv, Decodable
<1>8. Drains' /\ DrainBounded'
  BY <1>4, Numbers DEF Dispatch, IInv, Drains, DrainBounded
<1> QED BY <1>4, <1>6, <1>7, <1>8 DEF IInv, CallInv

LEMMA ReturnInv == ASSUME IInv, Return PROVE IInv'
<1>1. state' \in {"Ready", "Finished"}
  BY DEF Return
<1>2. UNCHANGED <<m, calls, drain>>
  BY DEF Return
<1>3. TypeOK'
  BY <1>1, <1>2 DEF IInv, TypeOK
<1>4. CallInv'
  BY <1>1, <1>2 DEF IInv, CallInv, Decodable, DrainBounded
<1> QED BY <1>3, <1>4 DEF IInv

LEMMA StutterInv == ASSUME IInv, UNCHANGED vars PROVE IInv'
BY DEF IInv, TypeOK, CallInv, Decodable, Drains, Refilled, DrainBounded, vars

(* A turn counts as Drains says, jump or no jump.                          *)
LEMMA ClockInv == ASSUME AllLawful, IInv, Clock PROVE IInv'
<1>1. /\ state = "Executing" /\ ~m.crashed /\ m.counterForEnd > 0
      /\ state' = state /\ calls' = calls
      /\ drain' = IF m.endExecution /\ drain < MaxDrain THEN drain + 1 ELSE drain
  BY DEF Clock
<1> PICK printLock \in BOOLEAN, junk \in Word :
      m' = LET t == Turn(m, printLock, junk) IN
           [t EXCEPT !.clock = IF @ > m.quantum THEN m.quantum ELSE @]
  BY DEF Clock
<1>2. Ready(m)
  BY <1>1, ReadyMachine
<1> PICK z : /\ Turn(m, printLock, junk) = Tick(z)
             /\ Settled(m, z)
             /\ Straight(m, z) \/ Restarted(m, z)
  BY <1>2, TurnSettles
<1> DEFINE ending == z.endExecution \/ z.clock + 1 >= z.quantum \/ z.endProgram
           clock == IF z.clock + 1 > m.quantum THEN m.quantum ELSE z.clock + 1
           left == IF ending THEN z.counterForEnd - 1 ELSE z.counterForEnd
<1>3. m' = [z EXCEPT !.counter = z.counter + 1, !.clock = clock,
                     !.endExecution = ending, !.counterForEnd = left]
  <2>1. Turn(m, printLock, junk)
          = [z EXCEPT !.counter = z.counter + 1, !.clock = z.clock + 1,
                      !.endExecution = ending, !.counterForEnd = left]
    BY DEF Tick
  <2> HIDE DEF ending, left
  <2>2. z \in Machines
    BY DEF Settled
  <2> QED BY <2>1, <2>2 DEF Machines
<1>4. /\ m \in Machines /\ m.quantum \in Nat /\ m.quantum >= 1 /\ m.quantum <= LastSlot + 1
      /\ m.clock \in Nat /\ m.counter \in Nat /\ m.counterForEnd \in 0..5
      /\ drain \in Nat /\ LastSlot \in Nat /\ m.endExecution \in BOOLEAN
      /\ m.clock <= m.quantum
  BY Numbers DEF IInv, TypeOK
<1>5. /\ z \in Machines /\ z.counterForEnd \in 0..5 /\ z.counter \in Nat
      /\ z.endExecution \in BOOLEAN /\ z.endProgram \in BOOLEAN
      /\ z.quantum = m.quantum /\ z.clock = m.clock
  BY DEF Settled, Machines
<1>6. ending \in BOOLEAN /\ (m.endExecution => ending)
      /\ (~ending => m.clock + 1 < m.quantum)
  BY <1>4, <1>5 DEF Settled
<1>7. clock \in Nat /\ clock <= m.quantum /\ (~ending => clock = m.clock + 1)
  BY <1>4, <1>5
<1>8. left = IF ending THEN z.counterForEnd - 1 ELSE z.counterForEnd
  OBVIOUS
<1> HIDE DEF ending, clock, left
<1>9. Drains
  BY <1>1 DEF IInv, CallInv
<1>10. /\ z.counterForEnd \in 1..5
       /\ z.counter + 1 \in 0..(LastSlot + 5)
       /\ left \in 0..5
  BY <1>1, <1>4, <1>5, <1>6, <1>8, <1>9 DEF Straight, Restarted, Drains
<1>11. m' \in Machines
  BY <1>3, <1>5, <1>6, <1>7, <1>10 DEF Machines
<1>12. /\ m'.counter = z.counter + 1 /\ m'.counterForEnd = left /\ m'.clock = clock
       /\ m'.endExecution = ending
       /\ m'.quantum = m.quantum /\ m'.code = m.code /\ m'.crashed = m.crashed
       /\ m'.pc = z.pc /\ m'.ir = z.ir /\ m'.data = z.data /\ z.code = m.code
  BY <1>3, <1>5 DEF Settled, Machines
<1>19. ending => m'.endExecution
  BY <1>12, Zenon
<1>13. /\ drain' \in Nat /\ drain' <= drain + 1 /\ (~m.endExecution => drain' = drain)
       /\ drain' \in 0..MaxDrain
  BY <1>1, <1>4, PipelineAssumption DEF IInv, TypeOK
<1>14. TypeOK'
  BY <1>1, <1>7, <1>11, <1>12, <1>13 DEF IInv, TypeOK, Settled, Loaded
<1>15. Decodable'
  BY <1>12 DEF Settled, Loaded, Decodable
<1>16. Drains'
  <2>1. CASE ~ending
    BY <1>4, <1>5, <1>6, <1>7, <1>8, <1>9, <1>12, <1>13, <2>1
       DEF Drains, Straight, Restarted
  <2>2. CASE ending /\ ~m.endExecution
    <3>1. m.counterForEnd = 5 /\ drain = 0 /\ m.counter <= m.clock /\ m.clock < m.quantum
      BY <1>9, <2>2 DEF Drains
    <3>2. z.counterForEnd = 5 /\ z.counter <= m.counter
      BY <1>4, <3>1 DEF Straight, Restarted
    <3>3. m'.endExecution /\ m'.counterForEnd = 4 /\ m'.counter = z.counter + 1 /\ drain' = 0
      <4>1. left = 4
        BY <1>8, <2>2, <3>2
      <4> QED BY <1>12, <1>19, <1>13, <2>2, <3>1, <4>1
    <3>4. m'.counter + m'.counterForEnd <= m'.quantum + 4
      BY <1>4, <1>5, <1>12, <3>1, <3>2, <3>3
    <3> QED BY <3>3, <3>4 DEF Drains
  <2>3. CASE ending /\ m.endExecution /\ Straight(m, z)
    <3>1. /\ m'.counter = m.counter + 1 /\ m'.counterForEnd = m.counterForEnd - 1
          /\ m'.endExecution
      BY <1>8, <1>12, <2>3 DEF Straight
    <3>2. Refilled => Refilled'
      <4>1. ASSUME Refilled, m'.counterForEnd = 3 PROVE m'.data[0].op \notin Jumps
        <5>1. m.counterForEnd = 4 /\ m.counter = 1 /\ m.ir.op \notin Jumps
          BY <1>4, <3>1, <4>1 DEF Refilled
        <5>2. AtDecode(m)
          BY <5>1 DEF AtDecode
        <5> QED BY <1>12, <2>3, <5>1, <5>2 DEF Straight
      <4>2. m'.counterForEnd # 4
        BY <1>4, <1>9, <2>3, <3>1 DEF Drains
      <4> QED BY <1>4, <3>1, <4>1, <4>2 DEF Refilled
    <3>3. /\ m.counterForEnd <= 4 /\ m.counter + m.counterForEnd <= m.quantum + 4
          /\ \/ drain + m.counterForEnd <= 4
             \/ drain + m.counterForEnd <= 6 /\ Refilled
      BY <1>9, <2>3 DEF Drains
    <3>4. m'.counterForEnd <= 4 /\ m'.counter + m'.counterForEnd <= m'.quantum + 4
      BY <1>4, <1>12, <3>1, <3>3
    <3>5. drain' + m'.counterForEnd <= drain + m.counterForEnd
      BY <1>4, <1>13, <3>1
    <3>6. \/ drain' + m'.counterForEnd <= 4
          \/ drain' + m'.counterForEnd <= 6 /\ Refilled'
      <4>1. drain' + m'.counterForEnd \in Int /\ drain + m.counterForEnd \in Int
        BY <1>4, <1>13, <3>1
      <4> QED BY <3>2, <3>3, <3>5, <4>1
    <3> QED BY <3>1, <3>4, <3>6 DEF Drains
  <2>4. CASE ending /\ m.endExecution /\ Restarted(m, z)
    <3>1. /\ m'.counter = 1 /\ m'.counterForEnd = 4 /\ m'.endExecution
          /\ m'.ir.op \notin Jumps
      <4>1. z.counter = 0 /\ z.counterForEnd = 5 /\ z.ir.op \notin Jumps
        BY <2>4 DEF Restarted
      <4>2. left = 4
        BY <1>8, <2>4, <4>1
      <4> QED BY <1>12, <1>19, <2>4, <4>1, <4>2
    <3>2. m.counter >= 2 /\ m.counterForEnd >= 3 /\ m.data[m.counter - 2].op \in Jumps
      BY <2>4 DEF Restarted, AtExecute
    <3>3. ~Refilled
      <4> SUFFICES ASSUME Refilled PROVE FALSE
        OBVIOUS
      <4>1. m.counterForEnd = 3 /\ m.counter = 2
        BY <1>4, <3>2 DEF Refilled
      <4>2. m.data[0].op \notin Jumps
        BY <4>1 DEF Refilled
      <4> QED BY <3>2, <4>1, <4>2
    <3>4. drain' <= 2
      BY <1>4, <1>9, <1>13, <2>4, <3>2, <3>3 DEF Drains
    <3>5. Refilled'
      BY <3>1 DEF Refilled
    <3> QED BY <1>4, <1>12, <1>13, <3>1, <3>4, <3>5 DEF Drains
  <2> QED BY <1>6, <2>1, <2>2, <2>3, <2>4
<1>17. DrainBounded'
  BY <1>4, <1>9, <1>10, <1>12, <1>13, <1>16 DEF Drains, DrainBounded
<1>18. m'.crashed = FALSE
  BY <1>1, <1>12, <1>4 DEF Machines
<1> QED BY <1>14, <1>15, <1>16, <1>17, <1>18 DEF IInv, CallInv

LEMMA NextInv == ASSUME AllLawful, IInv, [Next]_vars PROVE IInv'
BY DispatchInv, ClockInv, ReturnInv, StutterInv DEF Next, Halted

LEMMA Invariant == ASSUME AllLawful PROVE Spec => []IInv
BY InitInv, NextInv, PTL DEF Spec

(* The machine keeps its types: the pc stays within the program and one    *)
(* past it, the slots within those pushed, and every register and address  *)
(* holds a word (Core, CONTROL_UNIT.cpp:9-63).                             *)
THEOREM Typed == ASSUME AllLawful PROVE Spec => []TypeOK
BY Invariant, PTL DEF IInv

(* What is in the ir and in the slots can be executed, and a call that     *)
(* ends counts down, from the start again at most once                     *)
(* (CONTROL_UNIT.cpp:24-56, 385-393).                                      *)
THEOREM Calls == ASSUME AllLawful PROVE Spec => []CallInv
BY Invariant, PTL DEF IInv

(* Once a call is to end it ends within six turns, whatever jump is taken  *)
(* meanwhile (CONTROL_UNIT.cpp:49-55, 368-370).                            *)
THEOREM Drained == ASSUME AllLawful PROVE Spec => []DrainBounded
<1>1. IInv => DrainBounded
  BY DEF IInv, CallInv
<1> QED BY <1>1, Invariant, PTL

(* No instruction takes the simulator down                                 *)
(* (CONTROL_UNIT.cpp:313-347, 355-438, 455).                               *)
THEOREM Survives == ASSUME AllLawful PROVE Spec => []NoCrash
<1>1. IInv => NoCrash
  BY DEF IInv, CallInv, NoCrash
<1> QED BY <1>1, Invariant, PTL

=============================================================================
