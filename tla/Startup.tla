------------------------------ MODULE Startup ------------------------------
(***************************************************************************)
(* What main does before the threads run (src/main.cpp:128-142): it        *)
(* assembles every file of the command line, then loads every program.     *)
(* What it must give the threads: programs that the control unit reads as  *)
(* their authors wrote them, each with its own data, none in the way of    *)
(* another.                                                                *)
(***************************************************************************)
EXTENDS Loader

vars == <<assemblerVars, loaderVars>>

Init == AssemblerInit /\ LoaderInit

Started ==
  /\ file > Len(args)
  /\ ~Loading
  /\ UNCHANGED vars

Next ==
  \/ AssemblerStep /\ UNCHANGED loaderVars
  \/ LoaderStep /\ UNCHANGED assemblerVars
  \/ Started

Spec == Init /\ [][Next]_vars

-----------------------------------------------------------------------------
(* The programs as written, read off the files alone.                      *)

(* The files whose .bin file is theirs: a later file of the same name,     *)
(* from another directory, has it otherwise.                               *)
Unshadowed(i) == \A j \in (i + 1)..Len(args) : args[j].name # args[i].name

(* And that have their place in the memory: code beyond it is not stored,  *)
(* and the simulator goes on.                                              *)
Loaded == {i \in 1..(Program - 1) : Unshadowed(i) /\ initProgram[i + 1] <= MemorySize + 1}

Line(i, l) == args[i].text[l]

(* Line l of a text is behind a .text and no other section since.          *)
InText(text, l) ==
  \E s \in 1..(l - 1) :
    /\ text[s] = Section(TRUE)
    /\ \A r \in (s + 1)..(l - 1) : text[r].kind # "section"

LabelsOf(text) == {l \in DOMAIN text : text[l].kind = "colon" /\ InText(text, l)}
LabelLines(i) == LabelsOf(args[i].text)

DeclarationsOf(text, n) ==
  {l \in DOMAIN text : /\ text[l].kind = "colon"
                       /\ text[l].name = n
                       /\ ~InText(text, l)
                       /\ Defines(text[l])}
Declarations(i, n) == DeclarationsOf(args[i].text, n)

(* The files up to the i-th that declare n; its values for the i-th.       *)
Declaring(i, n) == {j \in 1..i : Declarations(j, n) # {}}
ValuesOf(i, n) ==
  LET j == Max(Declaring(i, n)) IN Parsed(Line(j, Max(Declarations(j, n))).values)

HasLabel(i, n) == \E l \in LabelLines(i) : Line(i, l).name = n

(* The operand that may be a number or a symbol, and a print of what is    *)
(* not in a register.                                                      *)
Operand(i) == i.args[Arity(i.op)]
PrintsWord(i) == i.op = "PRINT" /\ Operand(i) \notin DOMAIN registerMap
Symbolic(i) == /\ i.op \notin Calculating
               /\ Operand(i) \notin DOMAIN Stoi
               /\ i.op = "PRINT" => PrintsWord(i)

(* The registers an instruction names.                                     *)
Named(i) ==
  CASE i.op \in Calculating -> {i.args[1], i.args[2], i.args[3]}
    [] i.op \in Branching -> {i.args[1], i.args[2]}
    [] i.op \in Immediate -> {i.args[1]}
    [] OTHER -> {}

(* What README.MD:252-269 has an instruction with that operand say.        *)
Meaning(i, imm) ==
  CASE i.op \in Calculating -> Instr(i.op, i.args[2], i.args[3], i.args[1], NoImm)
    [] i.op \in Branching -> Instr(i.op, i.args[1], i.args[2], NoReg, imm)
    [] i.op \in Immediate -> Instr(i.op, NoReg, i.args[1], NoReg, imm)
    [] i.op = "J" \/ PrintsWord(i) -> Instr(i.op, NoReg, NoReg, NoReg, imm)
    [] OTHER -> Instr("PRINT", NoReg, i.args[1], NoReg, NoImm)

(* The addresses of the code of a loaded program, and the lines it comes   *)
(* from.  An END of the assembler has the line of the label it is put      *)
(* before, or the line behind the last.                                    *)
Code(i) == {a \in Addresses : a \in initProgram[i]..(initProgram[i + 1] - 1) /\ origin[a] > 0}

FromInstruction(i, a) == /\ origin[a] \in DOMAIN args[i].text
                         /\ Line(i, origin[a]).kind = "op"
Instructions(i) == {a \in Code(i) : FromInstruction(i, a)}
Source(i, a) == Line(i, origin[a])

(* The immediates the control unit can read: a word holds that many        *)
(* decimal digits (10, and Limit is 1024, for a word of 32 bits).          *)
DigitsOf[n \in Word] == IF n < 10 THEN 1 ELSE 1 + DigitsOf[n \div 10]
Limit == 2 ^ DigitsOf[Modulus - 1]

-----------------------------------------------------------------------------
(* Properties.                                                             *)

Items == [label : Texts, bits : Words, sym : Texts, line : Nat]

IsTable(f, range) == DOMAIN f \subseteq Texts /\ \A x \in DOMAIN f : f[x] \in range

(* The END of a .bin file: behind every label there is an instruction.     *)
IsBin(bin) ==
  /\ bin.code \in Seq(Items)
  /\ bin.code # <<>>
  /\ bin.code[Len(bin.code)].label = NoText
  /\ IsTable(bin.data, Seq(Numbers))

(* The types of the variables of the assembler and of the loader: every    *)
(* word built has its fields in range, every file behind has its .bin.     *)
AssemblerTypeOK ==
  /\ args \in CommandLines
  /\ file \in 1..(Len(args) + 1)
  /\ line \in Nat \ {0}
  /\ textSection \in BOOLEAN
  /\ insideLabel \in BOOLEAN
  /\ output \in Seq(Items)
  /\ IsTable(dataMap, Seq(Numbers))
  /\ \A i \in 1..(file - 1) : args[i].name \in DOMAIN bins
  /\ \A n \in DOMAIN bins : IsBin(bins[n])

LoaderTypeOK ==
  /\ initProgram \in Seq(Nat) \ {<<>>}
  /\ position \in Nat \ {0}
  /\ IsTable(labelAddresses, Nat)
  /\ IsTable(variableAddresses, Nat)
  /\ instructions \in Seq(Items)
  /\ address \in Nat
  /\ memAddress \in Nat
  /\ ram \in [Addresses -> Words]
  /\ origin \in [Addresses -> Nat]
  /\ written \subseteq Addresses
  /\ aborted \in BOOLEAN

(* Type correctness.                                                       *)
TypeOK == AssemblerTypeOK /\ LoaderTypeOK

(* How the loader counts (loader.cpp:47, 69, 86, 92, 97, 125): between the *)
(* two counters there is room for the instructions read and not yet        *)
(* stored, exactly that room until the data begins, and no word there or   *)
(* behind address has been written.                                        *)
RoomKept ==
  /\ memAddress + Len(instructions) <= address
  /\ file <= Len(args) \/ ReadingCode => address = memAddress + Len(instructions)
  /\ \A a \in written :
       a < address /\ (a < memAddress \/ a >= memAddress + Len(instructions))

(* No word of the memory is written twice: neither the data of a program   *)
(* over its code, nor a program over one loaded before it, whatever the    *)
(* loader counts with two counters and in two passes (loader.cpp:64, 69,   *)
(* 91-92, 121-128; main.cpp:141).                                          *)
WrittenOnce ==
  [][\A a \in written : ram'[a] = ram[a] /\ origin'[a] = origin[a]]_vars

(* The control unit reads in every word of code the instruction its line   *)
(* says, through tables and bit fields of its own, or the END of the       *)
(* assembler.  A lw or sw that was assembled finds its variable; only they *)
(* are assembled when a register is none.  A print of a word at 0 is taken *)
(* for one of a register (assembler.cpp:71-99, 247-260,                    *)
(* CONTROL_UNIT.cpp:211-309).                                              *)
InstructionsAsWritten ==
  \A i \in Loaded : \A a \in Code(i) :
    LET s == Source(i, a)
        r == Read(ram[a])
        known == Symbolic(s) => \/ s.op \in {"LW", "SW"} \/ HasLabel(i, Operand(s))
                                \/ Declaring(i, Operand(s)) # {}
        legible == s.op \in Calculating \/ ram[a].low < Limit
        told == PrintsWord(s) => ram[a].low # 0 IN
    IF ~FromInstruction(i, a) THEN r = End
    ELSE /\ s.op \in {"LW", "SW"} \/ Named(s) \subseteq DOMAIN registerMap
         /\ Named(s) \subseteq DOMAIN registerMap /\ known /\ legible /\ told
           => /\ Decoded(r, EmptySlot) = Decoded(Meaning(s, r.imm), EmptySlot)
              /\ s.op \notin Calculating /\ Operand(s) \in DOMAIN Stoi =>
                   r.imm = Low(Stoi[Operand(s)])

(* A word that names a label of its program holds the address of what      *)
(* comes after the label (the last of that name) in the file, although the *)
(* loader counts addresses before the symbols are known and ENDs have been *)
(* put in between (assembler.cpp:184-193, loader.cpp:78-105).              *)
LabelsAsDefined ==
  \A i \in Loaded : \A a \in Instructions(i) :
    LET n == Operand(Source(i, a))
        l == Max({k \in LabelLines(i) : Line(i, k).name = n}) IN
    Symbolic(Source(i, a)) /\ HasLabel(i, n) =>
      ram[a].low = Low(Min({b \in Code(i) : origin[b] > l}))

(* Any other symbol that the file or one before it declares is read from   *)
(* the data of this program alone, and has there the values of the last of *)
(* these declarations: programs share the names of dataMap but no variable *)
(* (assembler.cpp:69, 313-319, 372; loader.cpp:52-70, 106-112).            *)
VariablesAsDeclared ==
  \A i \in Loaded : \A a \in Instructions(i) :
    LET n == Operand(Source(i, a)) IN
    Symbolic(Source(i, a)) /\ ~HasLabel(i, n) /\ Declaring(i, n) # {} =>
      \E b \in Addresses :
        /\ ram[a].low = Low(b)
        /\ \A k \in DOMAIN ValuesOf(i, n) :
             /\ b + k - 1 \in Addresses \ Code(i)
             /\ b + k - 1 \in initProgram[i]..(initProgram[i + 1] - 1)
             /\ ram[b + k - 1] = IntBits(ValuesOf(i, n)[k])

(* The code of a program starts at its base address and follows the order  *)
(* of its lines without a gap; before each label but the first, and at its *)
(* end, there is an END: execution never runs into what comes next in the  *)
(* file, or into the data (assembler.cpp:184-187, 346, loader.cpp:121).    *)
LinesInOrder ==
  \A i \in Loaded :
    /\ Code(i) = initProgram[i]..(initProgram[i] + Cardinality(Code(i)) - 1)
    /\ \A a, b \in Code(i) : a < b => origin[a] < origin[b]
    /\ \A l \in LabelLines(i) \cup {Len(args[i].text) + 1} :
         (\E k \in LabelLines(i) : k < l) \/ l > Len(args[i].text)
           => \E a \in Code(i) : origin[a] = l

(* An operand is read as the number its word holds exactly below Limit     *)
(* (CONTROL_UNIT.cpp:68-78).                                               *)
ImmediatesExact ==
  \A i \in Loaded : \A a \in Instructions(i) :
    ConvertToDecimalValue(ram[a].low) = ram[a].low <=> ram[a].low < Limit

(* The simulator stops before it starts only for a name that padName       *)
(* cannot pad, a list without a value or data that does not fit, and never *)
(* starts with the first two (loader.cpp:14-16, 52-69, 81).                *)
Unplaceable ==
  \E i \in DOMAIN args : Unshadowed(i) /\
    \/ \E l \in LabelLines(i) : Line(i, l).name \in LongNames
    \/ \E n \in Texts : Declaring(i, n) # {} /\ (n \in LongNames \/ ValuesOf(i, n) = <<>>)

AbortsExactly ==
  /\ aborted => Unplaceable \/ \E v \in Unread : address + Len(Bin.data[v]) > MemorySize
  /\ Program > Len(args) => ~Unplaceable

=============================================================================
