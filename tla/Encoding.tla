------------------------------ MODULE Encoding ------------------------------
(***************************************************************************)
(* Instructions as words: what src/assembler/assembler.cpp writes and what *)
(* src/cpu/CONTROL_UNIT.cpp reads, each with tables of its own.            *)
(*                                                                         *)
(* A word is cut into the fields of an immediate instruction: opcode (6    *)
(* bits), rs, rt (5 bits each) and the low half.  The other fields of an   *)
(* arithmetic instruction lie in the low half, rd on top.                  *)
(***************************************************************************)
EXTENDS ALU, Sequences

Half == {n \in Nat : n < 65536}

(* bitset<16> keeps the low bits of a number.                              *)
Low(n) == n % 65536

Bits(op, rs, rt, low) == [op |-> op, rs |-> rs, rt |-> rt, low |-> low]

Words == [op : 0..63, rs : 0..31, rt : 0..31, low : Half]

EndBits == Bits(63, 0, 0, 0)

(* A slip: a number is taken to fit the low half.                          *)
IntBitsUnsigned(n) == Bits(0, 0, 0, n)

(* An int in a word, in two's complement.                                  *)
IntBits(n) ==
  Bits((n \div 67108864) % 64, (n \div 2097152) % 32, (n \div 65536) % 32, Low(n))

(* The 16 digits before the low half, as a number.                         *)
HighOf(w) == w.op * 1024 + w.rs * 32 + w.rt

-----------------------------------------------------------------------------
(* The assembler's side.                                                   *)

instructionMap ==
  [ADD |-> 0, AND |-> 1, DIV |-> 2, MULT |-> 3, SUB |-> 4, BEQ |-> 5, BNE |-> 6,
   BGT |-> 7, BGTI |-> 8, BLT |-> 9, BLTI |-> 10, J |-> 11, LW |-> 12, SW |-> 13,
   LI |-> 14, LA |-> 15, PRINT |-> 16, END |-> 63]

registerMap ==
  [zero |-> 0, ra |-> 1, at |-> 2, v0 |-> 3, v1 |-> 4, a0 |-> 5, a1 |-> 6,
   a2 |-> 7, a3 |-> 8, t0 |-> 9, t1 |-> 10, t2 |-> 11, t3 |-> 12, t4 |-> 13,
   t5 |-> 14, t6 |-> 15, t7 |-> 16, s0 |-> 17, s1 |-> 18, s2 |-> 19, s3 |-> 20,
   s4 |-> 21, s5 |-> 22, s6 |-> 23, s7 |-> 24, t8 |-> 25, t9 |-> 26, k0 |-> 27,
   k1 |-> 28, gp |-> 29, sp |-> 30, fp |-> 31]

(* A name that is no register has a code too, which some callers test for. *)
getRegisterCode(reg) ==
  IF reg \in DOMAIN registerMap THEN registerMap[reg] ELSE -1

(* bitset<5> takes a -1 as 31.                                             *)
IType(op, rs, rt, low) == Bits(instructionMap[op], rs % 32, rt % 32, low)

(* A slip: the destination where the control unit reads the target.        *)
RTypeSwapped(op, rs, rt, rd) ==
  IType(op, rs, rd, rt * 2048 + instructionMap[op])

(* shamt is 0, funct repeats the opcode.                                   *)
RType(op, rs, rt, rd) == IType(op, rs, rt, rd * 2048 + instructionMap[op])

-----------------------------------------------------------------------------
(* The control unit's side.                                                *)

opcodes ==
  [ADD |-> 0, AND |-> 1, DIV |-> 2, MULT |-> 3, SUB |-> 4, BEQ |-> 5, BNE |-> 6,
   BGT |-> 7, BGTI |-> 8, BLT |-> 9, BLTI |-> 10, J |-> 11, LW |-> 12, SW |-> 13,
   LI |-> 14, LA |-> 15, PRINT |-> 16, END |-> 63]

(* The register names in the order of their codes.                         *)
Map ==
  <<"zero", "ra", "at", "v0", "v1", "a0", "a1", "a2", "a3", "t0", "t1", "t2",
    "t3", "t4", "t5", "t6", "t7", "s0", "s1", "s2", "s3", "s4", "s5", "s6",
    "s7", "t8", "t9", "k0", "k1", "gp", "sp", "fp">>

(* The binary digits of n, read as a decimal number of a word (stoul, then *)
(* the parameter of ConvertToDecimalValue).                                *)
AsDecimal[n \in Half] ==
  IF n = 0 THEN 0 ELSE Wrap(10 * AsDecimal[n \div 2] + (n % 2))

(* The decimal digits of n that are 1, as powers of two.                   *)
OnesOf[n \in Word] ==
  IF n = 0 THEN 0 ELSE 2 * OnesOf[n \div 10] + (IF n % 10 = 1 THEN 1 ELSE 0)

(* A slip: every weight one power too high.                                *)
ConvertShifted(low) == 2 * OnesOf[AsDecimal[low]]

ConvertToDecimalValue(low) == OnesOf[AsDecimal[low]]

(* A register name, or an immediate, that no decode has written: an empty  *)
(* string.                                                                 *)
NoReg == ""
NoImm == -1

Instr(op, rs, rt, rd, imm) ==
  [op |-> op, rs |-> rs, rt |-> rt, rd |-> rd, imm |-> imm]

End == Instr("END", NoReg, NoReg, NoReg, NoImm)

(* A new Instruction_Data.                                                 *)
EmptySlot == Instr("", NoReg, NoReg, NoReg, NoImm)

(* What the control unit reads in a word: the fields the Get_ functions    *)
(* cut out, through its tables.  A print whose 16 digits are all 0 is one  *)
(* of a register: it has no immediate.                                     *)
Read(w) ==
  IF w = EndBits THEN End
  ELSE LET named == {op \in DOMAIN opcodes : opcodes[op] = w.op}
           ofRegister == w.op = opcodes.PRINT /\ w.low = 0 IN
       Instr(IF named = {} THEN "" ELSE CHOOSE op \in named : TRUE,
             Map[w.rs + 1], Map[w.rt + 1], Map[w.low \div 2048 + 1],
             IF ofRegister THEN NoImm ELSE ConvertToDecimalValue(w.low))

Arithmetic == {"ADD", "SUB", "MULT", "DIV"}
Immediate  == {"LI", "LW", "LA", "SW"}
Comparing  == {"BLT", "BGT", "BGTI", "BLTI"}

(* Identificacao_instrucao names these; any other opcode gets no name.     *)
Identified == Arithmetic \cup Immediate \cup Comparing \cup {"J", "BEQ", "PRINT"}

(* A slip: a comparison takes one register only.                           *)
DecodedNoSource(i, slot) ==
  LET op == IF i.op \in Identified THEN i.op ELSE "" IN
  [slot EXCEPT !.op = op, !.rt = i.rt, !.rd = i.rd, !.imm = i.imm,
               !.rs = IF op \in Comparing THEN @ ELSE i.rs]

(* What Decode writes into a slot: the fields of the operation, and only   *)
(* those.  The others keep what the slot's last instruction left there.    *)
Decoded(i, slot) ==
  LET op == IF i.op \in Identified THEN i.op ELSE ""
      sources == op \in Arithmetic \cup Comparing
      ofRegister == op = "PRINT" /\ i.imm = NoImm
      ofVariable == op = "PRINT" /\ i.imm # NoImm
      targets == op \in Arithmetic \cup Immediate \cup Comparing \/ ofRegister
      numbers == op \in Immediate \cup Comparing \cup {"J"} \/ ofVariable IN
  [op  |-> op,
   rs  |-> IF sources THEN i.rs ELSE slot.rs,
   rt  |-> IF targets THEN i.rt ELSE slot.rt,
   rd  |-> IF op \in Arithmetic THEN i.rd ELSE slot.rd,
   imm |-> IF numbers THEN i.imm ELSE slot.imm]

=============================================================================
