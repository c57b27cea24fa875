--------------------------- MODULE StartupProofs ---------------------------
(***************************************************************************)
(* Proofs about Startup, for every command line, every table of numbers    *)
(* and every size of the memory.                                           *)
(***************************************************************************)
EXTENDS Startup, WellFoundedInduction, FiniteSetTheorems, SequenceTheorems, TLAPS

-----------------------------------------------------------------------------
(* Words.                                                                  *)

(* An opcode of the assembler fits its six bits.                           *)
LEMMA Codes == \A op \in DOMAIN instructionMap : instructionMap[op] \in 0..63
BY DEF instructionMap

(* A register code of the assembler fits its five bits.                    *)
LEMMA Registers == \A r \in DOMAIN registerMap : registerMap[r] \in 0..31
BY DEF registerMap

(* Any register, none included, gives a code above -2.                     *)
LEMMA RegisterCodes == ASSUME NEW r PROVE getRegisterCode(r) \in -1..31
BY Registers DEF getRegisterCode

LEMMA ITypeWord ==
  ASSUME NEW op \in DOMAIN instructionMap, NEW rs \in Int, NEW rt \in Int, NEW low \in Half
  PROVE  IType(op, rs, rt, low) \in Words
BY Codes DEF IType, Bits, Words

LEMMA RTypeWord ==
  ASSUME NEW op \in DOMAIN instructionMap, NEW rs \in Int, NEW rt \in Int, NEW rd \in 0..31
  PROVE  RType(op, rs, rt, rd) \in Words
<1>1. rd * 2048 + instructionMap[op] \in Half
  BY Codes DEF Half
<1> QED BY <1>1, ITypeWord DEF RType

LEMMA InHalf == \A n \in Int : 0 <= n /\ n < 65536 => n \in Half
BY DEF Half

LEMMA LowHalf == \A n \in Int : Low(n) \in Half
BY DEF Low, Half

LEMMA IntBitsWord ==
  ASSUME NEW n \in Numbers PROVE IntBits(n) \in Words
<1>1. n \in Int
  BY DEF Numbers
<1>2. Low(n) \in Half
  BY <1>1, LowHalf
<1>3. /\ (n \div 67108864) % 64 \in 0..63
      /\ (n \div 2097152) % 32 \in 0..31
      /\ (n \div 65536) % 32 \in 0..31
  BY <1>1
<1>4. IntBits(n) = [op  |-> (n \div 67108864) % 64, rs |-> (n \div 2097152) % 32,
                    rt  |-> (n \div 65536) % 32, low |-> Low(n)]
  BY SMT DEF IntBits, Bits
<1> QED BY <1>2, <1>3, <1>4, SMT DEF Words

LEMMA HighNumber ==
  ASSUME NEW w \in Words PROVE HighOf(w) \in Numbers
<1> DEFINE o == w.op
           s == w.rs
           t == w.rt
<1>1. o \in 0..63 /\ s \in 0..31 /\ t \in 0..31
  BY DEF Words
<1>2. HighOf(w) = o * 1024 + s * 32 + t
  BY DEF HighOf
<1> HIDE DEF o, s, t
<1> QED BY <1>1, <1>2 DEF Numbers

-----------------------------------------------------------------------------
(* Items.                                                                  *)

LEMMA TextsAssumed == NoText \in Texts /\ DOMAIN Stoi \subseteq Texts
BY StoiAssumption, CommandLinesAssumption

LEMMA ItemType ==
  ASSUME NEW w \in Words, NEW s \in Texts, line \in Nat
  PROVE  Item(w, s) \in Items /\ Item(w, s).label = NoText
BY TextsAssumed DEF Item, Items

LEMMA EndType ==
  ASSUME line \in Nat
  PROVE  Item(EndBits, NoText) \in Items /\ Item(EndBits, NoText).label = NoText
<1>1. EndBits \in Words
  BY DEF EndBits, Bits, Words, Half
<1> QED BY <1>1, TextsAssumed, ItemType

LEMMA LabelType ==
  ASSUME NEW n \in Texts, line \in Nat
  PROVE  Label(n) \in Items
<1>1. EndBits \in Words
  BY DEF EndBits, Bits, Words, Half
<1> QED BY <1>1, TextsAssumed DEF Label, Items

LEMMA ITypeItemType ==
  ASSUME NEW op \in DOMAIN instructionMap, NEW rs \in Int, NEW rt \in Int,
         NEW text \in Texts, line \in Nat
  PROVE  ITypeItem(op, rs, rt, text) \in Items
<1>1. CASE text \in DOMAIN Stoi
  <2>1. Low(Stoi[text]) \in Half
    <3>1. Stoi[text] \in Int
      BY <1>1, StoiAssumption DEF Numbers
    <3> QED BY <3>1, LowHalf
  <2> QED BY <1>1, <2>1, ITypeWord, ItemType, TextsAssumed DEF ITypeItem
<1>2. CASE text \notin DOMAIN Stoi
  <2>1. 0 \in Half
    BY DEF Half
  <2> QED BY <1>2, <2>1, ITypeWord, ItemType DEF ITypeItem
<1> QED BY <1>1, <1>2

LEMMA Arities ==
  ASSUME NEW op
  PROVE  /\ op \in Branching => Arity(op) = 3
         /\ op \in {"LI", "LA", "LW", "SW"} => Arity(op) = 2
         /\ op \in {"J", "PRINT"} => Arity(op) = 1
BY Zenon DEF Arity, Branching, Calculating, Immediate

(* Whatever an instruction is, what is encoded are items.                  *)
LEMMA EncodedType ==
  ASSUME NEW i \in Lines, i.kind = "op", line \in Nat
  PROVE  Encoded(i) \in Seq(Items)
<1> DEFINE code(k) == getRegisterCode(i.args[k])
           valid(n) == \A k \in 1..n : code(k) # -1
<1>1. i.op \in DOMAIN instructionMap /\ i.args \in Seq(Texts) /\ Len(i.args) >= Arity(i.op)
  BY DEF Lines, Names
<1>2. \A k : code(k) \in Int
  BY RegisterCodes
<1>3. i.op \in Calculating /\ valid(3) =>
        <<Item(RType(i.op, code(2), code(3), code(1)), NoText)>> \in Seq(Items)
  <2> SUFFICES ASSUME i.op \in Calculating, valid(3)
               PROVE  Item(RType(i.op, code(2), code(3), code(1)), NoText) \in Items
    OBVIOUS
  <2>1. code(1) \in 0..31
    BY RegisterCodes
  <2> QED BY <1>1, <1>2, <2>1, RTypeWord, ItemType, TextsAssumed
<1>4. i.op \in Branching => <<ITypeItem(i.op, code(1), code(2), i.args[3])>> \in Seq(Items)
  <2> SUFFICES ASSUME i.op \in Branching
               PROVE  ITypeItem(i.op, code(1), code(2), i.args[3]) \in Items
    OBVIOUS
  <2>1. i.args[3] \in Texts
    BY <1>1, Arities
  <2> QED BY <1>1, <1>2, <2>1, ITypeItemType
<1>5. i.op = "J" => <<ITypeItem("J", 0, 0, i.args[1])>> \in Seq(Items)
  <2> SUFFICES ASSUME i.op = "J" PROVE ITypeItem("J", 0, 0, i.args[1]) \in Items
    OBVIOUS
  <2>1. i.args[1] \in Texts
    BY <1>1, Arities
  <2> QED BY <1>1, <2>1, ITypeItemType
<1>6. i.op \in {"LI", "LA", "LW", "SW"} =>
        <<ITypeItem(i.op, 0, code(1), i.args[2])>> \in Seq(Items)
  <2> SUFFICES ASSUME i.op \in {"LI", "LA", "LW", "SW"}
               PROVE  ITypeItem(i.op, 0, code(1), i.args[2]) \in Items
    OBVIOUS
  <2>1. i.args[2] \in Texts
    BY <1>1, Arities
  <2> QED BY <1>1, <1>2, <2>1, ITypeItemType
<1>7. i.op = "PRINT" =>
        <<IF valid(1) THEN Item(IType("PRINT", 0, code(1), 0), NoText)
                      ELSE ITypeItem("PRINT", 0, 0, i.args[1])>> \in Seq(Items)
  <2> SUFFICES ASSUME i.op = "PRINT"
               PROVE  /\ Item(IType("PRINT", 0, code(1), 0), NoText) \in Items
                      /\ ITypeItem("PRINT", 0, 0, i.args[1]) \in Items
    OBVIOUS
  <2>1. i.args[1] \in Texts /\ 0 \in Half
    BY <1>1, Arities DEF Half
  <2> QED BY <1>1, <1>2, <2>1, ITypeWord, ItemType, ITypeItemType, TextsAssumed
<1>8. <<>> \in Seq(Items)
  OBVIOUS
<1> QED BY <1>3, <1>4, <1>5, <1>6, <1>7, <1>8, Zenon DEF Encoded

(* The numbers of a list.                                                  *)
LEMMA ParsedType ==
  ASSUME NEW values \in Seq(Texts)
  PROVE  Parsed(values) \in Seq(Numbers)
<1> DEFINE S == {k \in 0..Len(values) : k = Len(values) \/ values[k + 1] \notin DOMAIN Stoi}
           n == Min(S)
<1>1. S \subseteq Nat /\ S # {}
  <2>1. Len(values) \in S
    OBVIOUS
  <2> QED BY <2>1
<1>2. n \in S /\ \A y \in S : n <= y
  <2>1. PICK x \in S : \A y \in S : ~(<<y, x>> \in OpToRel(<, Nat))
    BY <1>1, WFMin, NatLessThanWellFounded
  <2>2. ASSUME NEW y \in S PROVE x <= y
    <3>1. x \in Nat /\ y \in Nat
      BY <1>1
    <3>2. ~(<<y, x>> \in OpToRel(<, Nat))
      BY <2>1
    <3>3. ~(y < x)
      BY <3>1, <3>2, Zenon DEF OpToRel
    <3> QED BY <3>1, <3>3
  <2> HIDE DEF S
  <2> QED BY <2>2 DEF Min
<1>3. \A k \in 1..n : values[k] \in DOMAIN Stoi
  <2> SUFFICES ASSUME NEW k \in 1..n, values[k] \notin DOMAIN Stoi PROVE FALSE
    OBVIOUS
  <2>0. n \in 0..Len(values) /\ Len(values) \in Nat
    BY <1>2
  <2> HIDE DEF n
  <2>1. k - 1 \in 0..Len(values) /\ (k - 1) + 1 = k
    BY <2>0
  <2> USE DEF n
  <2>2. k - 1 \in S
    BY <2>1
  <2>3. n <= k - 1 /\ n \in Nat
    BY <1>1, <1>2, <2>2
  <2> HIDE DEF n
  <2> QED BY <2>3
<1>4. Parsed(values) = [k \in 1..n |-> Stoi[values[k]]]
  BY DEF Parsed
<1> HIDE DEF n
<1> QED BY <1>1, <1>2, <1>3, <1>4, StoiAssumption

-----------------------------------------------------------------------------
(* Types.                                                                  *)

LEMMA PutTable ==
  ASSUME NEW f, NEW R, IsTable(f, R), NEW x \in Texts, NEW v \in R
  PROVE  IsTable(Put(f, x, v), R)
BY DEF IsTable, Put

LEMMA EmptyTable == ASSUME NEW R PROVE IsTable(<<>>, R)
BY DEF IsTable

LEMMA InitType == Init => TypeOK
<1> SUFFICES ASSUME Init PROVE TypeOK
  OBVIOUS
<1>1. AssemblerTypeOK
  <2>1. args \in Seq([name : STRING, text : Seq(Lines)])
    BY CommandLinesAssumption DEF Init, AssemblerInit
  <2>2. file \in 1..(Len(args) + 1)
    BY <2>1 DEF Init, AssemblerInit
  <2>3. \A n \in DOMAIN bins : IsBin(bins[n])
    BY DEF Init, AssemblerInit
  <2>4. IsTable(dataMap, Seq(Numbers)) /\ output \in Seq(Items)
    BY EmptyTable DEF Init, AssemblerInit
  <2>5. \A i \in 1..(file - 1) : args[i].name \in DOMAIN bins
    BY DEF Init, AssemblerInit
  <2>6. textSection \in BOOLEAN /\ insideLabel \in BOOLEAN
    BY Zenon DEF Init, AssemblerInit
  <2>7. args \in CommandLines /\ line \in Nat \ {0}
    BY DEF Init, AssemblerInit
  <2> QED BY <2>2, <2>3, <2>4, <2>5, <2>6, <2>7, Zenon DEF AssemblerTypeOK
<1>2. LoaderTypeOK
  <2>1. IntBits(0) \in Words
    BY IntBitsWord DEF Numbers
  <2>2. ram \in [Addresses -> Words]
    BY <2>1 DEF Init, LoaderInit, EmptyRam
  <2>3. initProgram \in Seq(Nat) \ {<<>>}
    BY DEF Init, LoaderInit
  <2>4. IsTable(labelAddresses, Nat) /\ IsTable(variableAddresses, Nat)
    BY EmptyTable DEF Init, LoaderInit
  <2>5. instructions \in Seq(Items) /\ origin \in [Addresses -> Nat]
    BY DEF Init, LoaderInit
  <2>6. aborted \in BOOLEAN
    BY Zenon DEF Init, LoaderInit
  <2>7. /\ position \in Nat \ {0}
        /\ address \in Nat
        /\ memAddress \in Nat
        /\ written \subseteq Addresses
    BY DEF Init, LoaderInit
  <2> QED BY <2>2, <2>3, <2>4, <2>5, <2>6, <2>7, Zenon DEF LoaderTypeOK
<1> QED BY <1>1, <1>2 DEF TypeOK

(* The line being read is one of those a file may have.                    *)
LEMMA LineRead ==
  ASSUME AssemblerTypeOK, file <= Len(args)
  PROVE  /\ args \in Seq([name : STRING, text : Seq(Lines)])
         /\ file \in 1..Len(args)
         /\ Text \in Seq(Lines)
         /\ line <= Len(Text) => Text[line] \in Lines
<1>1. args \in Seq([name : STRING, text : Seq(Lines)])
  BY CommandLinesAssumption DEF AssemblerTypeOK
<1>2. file \in 1..Len(args)
  BY <1>1 DEF AssemblerTypeOK
<1>3. Text \in Seq(Lines)
  <2>1. args[file] \in [name : STRING, text : Seq(Lines)]
    BY <1>1, <1>2, ElementOfSeq, Zenon
  <2> QED BY <2>1 DEF Text
<1> QED BY <1>1, <1>2, <1>3 DEF AssemblerTypeOK

LEMMA AsmSectionType ==
  ASSUME AssemblerTypeOK, AsmSection PROVE AssemblerTypeOK'
<1>1. Text[line] \in Lines /\ Text[line].kind = "section"
  BY LineRead DEF AsmSection, Reads
<1>2. Text[line].text \in BOOLEAN
  BY <1>1 DEF Lines
<1>3. line' \in Nat \ {0}
  BY DEF AsmSection, Reads, AssemblerTypeOK
<1> QED BY <1>2, <1>3 DEF AsmSection, Reads, AssemblerTypeOK

LEMMA ColonRead ==
  ASSUME NEW l \in Lines, l.kind = "colon"
  PROVE  l.name \in Names /\ l.values \in Seq(Texts)
BY DEF Lines

LEMMA AsmLabelType ==
  ASSUME AssemblerTypeOK, AsmLabel PROVE AssemblerTypeOK'
<1> DEFINE before == IF insideLabel THEN <<Item(EndBits, NoText)>> ELSE <<>>
<1>1. ReadsLabel(before)
  BY DEF AsmLabel
<1>2. Text[line] \in Lines /\ Text[line].kind = "colon" /\ line \in Nat
  BY <1>1, LineRead DEF ReadsLabel, Reads, AssemblerTypeOK
<1>3. Text[line].name \in Texts
  BY <1>2, ColonRead DEF Names
<1>4. <<Label(Text[line].name)>> \in Seq(Items)
  BY <1>2, <1>3, LabelType
<1>5. before \in Seq(Items)
  BY <1>2, EndType
<1>6. output' \in Seq(Items)
  <2> HIDE DEF before
  <2> QED BY <1>1, <1>4, <1>5 DEF ReadsLabel, AssemblerTypeOK
<1>7. line' \in Nat \ {0}
  BY <1>1 DEF ReadsLabel, Reads, AssemblerTypeOK
<1> QED BY <1>1, <1>6, <1>7 DEF ReadsLabel, AssemblerTypeOK

LEMMA AsmInstructionType ==
  ASSUME AssemblerTypeOK, AsmInstruction PROVE AssemblerTypeOK'
<1>1. Text[line] \in Lines /\ Text[line].kind = "op" /\ line \in Nat
  BY LineRead DEF AsmInstruction, Reads, AssemblerTypeOK
<1>2. Encoded(Text[line]) \in Seq(Items)
  BY <1>1, EncodedType
<1>3. output' \in Seq(Items)
  BY <1>2 DEF AsmInstruction, AssemblerTypeOK
<1>4. line' \in Nat \ {0}
  BY DEF AsmInstruction, Reads, AssemblerTypeOK
<1> QED BY <1>3, <1>4 DEF AsmInstruction, AssemblerTypeOK

LEMMA AsmVariableType ==
  ASSUME AssemblerTypeOK, AsmVariable PROVE AssemblerTypeOK'
<1>1. Text[line] \in Lines /\ Text[line].kind = "colon"
  BY LineRead DEF AsmVariable, Reads
<1>2. Text[line].name \in Texts /\ Parsed(Text[line].values) \in Seq(Numbers)
  BY <1>1, ColonRead, ParsedType DEF Names
<1>3. IsTable(dataMap', Seq(Numbers))
  BY <1>2, PutTable DEF AsmVariable, AssemblerTypeOK
<1>4. line' \in Nat \ {0}
  BY DEF AsmVariable, Reads, AssemblerTypeOK
<1> QED BY <1>3, <1>4 DEF AsmVariable, AssemblerTypeOK

LEMMA AsmWriteType ==
  ASSUME AssemblerTypeOK, AsmWrite PROVE AssemblerTypeOK'
<1> DEFINE end == Item(EndBits, NoText)
           bin == [code |-> Append(output, end), data |-> dataMap]
<1>1. /\ file \in 1..Len(args)
      /\ Len(args) \in Nat
  BY LineRead DEF AsmWrite, Written
<1>2. end \in Items /\ end.label = NoText
  BY EndType DEF AssemblerTypeOK
<1> HIDE DEF end
<1>3. IsBin(bin)
  <2>1. output \in Seq(Items) /\ IsTable(dataMap, Seq(Numbers))
    BY DEF AssemblerTypeOK
  <2>2. /\ bin.code \in Seq(Items)
        /\ Len(bin.code) = Len(output) + 1
        /\ bin.code[Len(output) + 1] = end
        /\ bin.data = dataMap
    BY <1>2, <2>1
  <2>3. bin.code # <<>>
    BY <2>1, <2>2
  <2> QED BY <1>2, <2>1, <2>2, <2>3 DEF IsBin
<1>4. bins' = Put(bins, args[file].name, bin)
  BY DEF AsmWrite, Written, end
<1> HIDE DEF bin
<1>5. \A n \in DOMAIN bins' : IsBin(bins'[n])
  BY <1>3, <1>4 DEF Put, AssemblerTypeOK
<1>6. file' \in 1..(Len(args') + 1) /\ file' = file + 1 /\ args' = args
  BY <1>1 DEF AsmWrite, Written
<1>7. \A i \in 1..(file' - 1) : args'[i].name \in DOMAIN bins'
  <2> SUFFICES ASSUME NEW i \in 1..(file' - 1) PROVE args[i].name \in DOMAIN bins'
    BY <1>6
  <2>1. i \in 1..(file - 1) \/ i = file
    BY <1>1, <1>6
  <2> QED BY <1>4, <2>1 DEF Put, AssemblerTypeOK
<1>8. output' \in Seq(Items) /\ IsTable(dataMap', Seq(Numbers)) /\ args' \in CommandLines
  BY DEF AsmWrite, Written, AssemblerTypeOK
<1>9. line' \in Nat \ {0}
  BY DEF AsmWrite, Written
<1>10. textSection' \in BOOLEAN /\ insideLabel' \in BOOLEAN
  BY Zenon DEF AsmWrite, Written
<1> QED BY <1>5, <1>6, <1>7, <1>8, <1>9, <1>10, Zenon DEF AssemblerTypeOK

LEMMA AssemblerStepType ==
  ASSUME AssemblerTypeOK, AssemblerStep PROVE AssemblerTypeOK'
BY AsmSectionType, AsmLabelType, AsmInstructionType, AsmVariableType, AsmWriteType
   DEF AssemblerStep

(* What is being loaded is a .bin file of the assembler.                   *)
LEMMA BinRead ==
  ASSUME TypeOK, Loading
  PROVE  /\ IsBin(Bin)
         /\ Len(Bin.code) \in Nat
         /\ \A k \in 1..Len(Bin.code) : Bin.code[k] \in Items
<1>1. Len(args) \in Nat
  BY CommandLinesAssumption DEF TypeOK, AssemblerTypeOK
<1>2. Program \in 1..(file - 1)
  <2>1. Program \in Nat \ {0}
    BY DEF TypeOK, LoaderTypeOK, Program
  <2> QED BY <1>1, <2>1 DEF Loading, TypeOK, AssemblerTypeOK
<1>3. IsBin(Bin)
  BY <1>2 DEF TypeOK, AssemblerTypeOK, Bin
<1> QED BY <1>3, ElementOfSeq DEF IsBin

LEMMA PushType ==
  ASSUME LoaderTypeOK, NEW item \in Items, Push(item)
  PROVE  instructions' \in Seq(Items) /\ address' \in Nat
BY DEF Push, LoaderTypeOK

LEMMA LoadInstructionType ==
  ASSUME TypeOK, LoadInstruction PROVE LoaderTypeOK'
<1> USE DEF LoadInstruction
<1>1. position \in 1..Len(Bin.code)
  BY BinRead DEF ReadingCode, TypeOK, LoaderTypeOK
<1>2. Bin.code[position] \in Items
  BY <1>1, BinRead DEF ReadingCode
<1>3. instructions' \in Seq(Items) /\ address' \in Nat
  BY <1>2, PushType DEF TypeOK
<1>4. position' \in Nat \ {0}
  BY DEF TypeOK, LoaderTypeOK
<1> QED BY <1>3, <1>4 DEF Push, image, TypeOK, LoaderTypeOK

LEMMA AbortType ==
  ASSUME LoaderTypeOK, Abort PROVE LoaderTypeOK'
<1>1. aborted' \in BOOLEAN
  BY Zenon DEF Abort
<1> QED BY <1>1, Zenon DEF Abort, placing, image, LoaderTypeOK

(* Behind a label there is an instruction.                                 *)
LEMMA BehindLabel ==
  ASSUME TypeOK, AtLabel
  PROVE  /\ Bin.code[position].label \in Texts
         /\ position + 1 \in 1..Len(Bin.code)
         /\ Bin.code[position + 1] \in Items
<1>1. IsBin(Bin) /\ Len(Bin.code) \in Nat /\ position \in Nat \ {0} /\ position <= Len(Bin.code)
  BY BinRead DEF AtLabel, ReadingCode, TypeOK, LoaderTypeOK
<1>2. position # Len(Bin.code)
  BY <1>1 DEF AtLabel, IsBin
<1> QED BY <1>1, <1>2, BinRead DEF AtLabel, ReadingCode, Items, IsBin

LEMMA LoadLabelType ==
  ASSUME TypeOK, LoadLabel PROVE LoaderTypeOK'
<1>1. CASE Abort
  BY <1>1, AbortType DEF TypeOK
<1>2. CASE DefineLabel(address)
  <2>1. instructions' \in Seq(Items) /\ address' \in Nat
    BY <1>2, BehindLabel, PushType DEF LoadLabel, DefineLabel, TypeOK
  <2>2. position' \in Nat \ {0}
    BY <1>2 DEF DefineLabel, TypeOK, LoaderTypeOK
  <2>3. IsTable(labelAddresses', Nat)
    BY <1>2, BehindLabel, PutTable DEF LoadLabel, DefineLabel, TypeOK, LoaderTypeOK
  <2> QED BY <1>2, <2>1, <2>2, <2>3 DEF DefineLabel, Push, image, TypeOK, LoaderTypeOK
<1> QED BY <1>1, <1>2 DEF LoadLabel

(* The variables to load, and what the loader does with one that fits.     *)
LEMMA VariableRead ==
  ASSUME TypeOK, ReadingData, NEW v \in Unread
  PROVE  v \in Texts /\ Bin.data[v] \in Seq(Numbers)
BY BinRead DEF ReadingData, Unread, IsBin, IsTable

LEMMA Places ==
  ASSUME NEW a \in Nat, NEW n \in Nat, a + n <= MemorySize
  PROVE  a..(a + n - 1) \subseteq Addresses
BY MemorySizeAssumption DEF Addresses

LEMMA LoadVariableType ==
  ASSUME TypeOK, LoadVariable PROVE LoaderTypeOK'
<1> PICK v \in Unread :
      IF Stops(v) THEN Abort
      ELSE LET values == Bin.data[v]
               place == address..(address + Len(values) - 1) IN
           /\ variableAddresses' = Put(variableAddresses, v, address)
           /\ address' = address + Len(values)
           /\ ram' = [a \in Addresses |->
                        IF a \in place THEN IntBits(values[a - address + 1]) ELSE ram[a]]
           /\ written' = written \cup place
           /\ UNCHANGED <<initProgram, position, labelAddresses, instructions,
                          memAddress, origin, aborted>>
  BY DEF LoadVariable
<1>1. CASE Stops(v)
  BY <1>1, AbortType DEF TypeOK
<1>2. CASE ~Stops(v)
  <2> DEFINE values == Bin.data[v]
             place == address..(address + Len(values) - 1)
  <2>1. v \in Texts /\ values \in Seq(Numbers) /\ address \in Nat
    BY VariableRead DEF LoadVariable, TypeOK, LoaderTypeOK
  <2>2. address + Len(values) <= MemorySize
    BY <1>2, <2>1, MemorySizeAssumption DEF Stops
  <2>3. place \subseteq Addresses
    <3>1. Len(values) \in Nat
      BY <2>1
    <3> HIDE DEF values
    <3> QED BY <2>1, <2>2, <3>1, Places
  <2>4. ram' \in [Addresses -> Words]
    <3>1. \A a \in place : values[a - address + 1] \in Numbers
      BY <2>1
    <3>2. \A a \in place : IntBits(values[a - address + 1]) \in Words
      BY <3>1, IntBitsWord
    <3>3. ram' = [a \in Addresses |->
                    IF a \in place THEN IntBits(values[a - address + 1]) ELSE ram[a]]
      BY <1>2
    <3> HIDE DEF values, place
    <3> QED BY <3>2, <3>3 DEF TypeOK, LoaderTypeOK
  <2>5. IsTable(variableAddresses', Nat)
    BY <1>2, <2>1, PutTable DEF TypeOK, LoaderTypeOK
  <2>6. address' \in Nat
    BY <1>2, <2>1
  <2>7. written' \subseteq Addresses
    BY <1>2, <2>3 DEF TypeOK, LoaderTypeOK
  <2> QED BY <1>2, <2>4, <2>5, <2>6, <2>7 DEF TypeOK, LoaderTypeOK
<1> QED BY <1>1, <1>2

LEMMA ResolvedType ==
  ASSUME LoaderTypeOK, NEW item \in Items
  PROVE  Resolved(item) \in Words
<1>1. item.bits \in Words
  BY DEF Items
<1>2. \A a \in Nat : [item.bits EXCEPT !.low = Low(a)] \in Words
  <2>1. \A a \in Nat : Low(a) \in Half
    BY LowHalf
  <2> QED BY <1>1, <2>1 DEF Words
<1>3. \A x \in DOMAIN labelAddresses :
        [item.bits EXCEPT !.low = Low(labelAddresses[x])] \in Words
  BY <1>2 DEF LoaderTypeOK, IsTable
<1>4. \A x \in DOMAIN variableAddresses :
        [item.bits EXCEPT !.low = Low(variableAddresses[x])] \in Words
  BY <1>2 DEF LoaderTypeOK, IsTable
<1>5. IntBits(HighOf(item.bits)) \in Words
  BY <1>1, HighNumber, IntBitsWord
<1> QED BY <1>1, <1>3, <1>4, <1>5, Zenon DEF Resolved

LEMMA LoadStoreType ==
  ASSUME TypeOK, LoadStore PROVE LoaderTypeOK'
<1> USE DEF LoadStore
<1>1. /\ Head(instructions) \in Items
      /\ instructions' \in Seq(Items)
      /\ memAddress' \in Nat
  BY DEF TypeOK, LoaderTypeOK
<1>2. CASE memAddress \in Addresses
  <2>1. Resolved(Head(instructions)) \in Words
    BY <1>1, ResolvedType DEF TypeOK
  <2>2. Head(instructions).line \in Nat
    BY <1>1 DEF Items
  <2>3. ram' \in [Addresses -> Words]
    BY <1>2, <2>1 DEF TypeOK, LoaderTypeOK
  <2>4. origin' \in [Addresses -> Nat]
    BY <1>2, <2>2 DEF TypeOK, LoaderTypeOK
  <2>5. written' \subseteq Addresses
    BY <1>2 DEF TypeOK, LoaderTypeOK
  <2> QED BY <1>1, <2>3, <2>4, <2>5 DEF TypeOK, LoaderTypeOK
<1>3. CASE memAddress \notin Addresses
  BY <1>1, <1>3 DEF image, TypeOK, LoaderTypeOK
<1> QED BY <1>2, <1>3

LEMMA LoadReturnType ==
  ASSUME TypeOK, LoadReturn PROVE LoaderTypeOK'
<1> USE DEF LoadReturn, NextProgram
<1>1. address' \in Nat /\ memAddress' \in Nat /\ position' \in Nat \ {0}
  BY DEF TypeOK, LoaderTypeOK
<1>2. initProgram' \in Seq(Nat) \ {<<>>}
  BY DEF TypeOK, LoaderTypeOK
<1>3. IsTable(labelAddresses', Nat) /\ IsTable(variableAddresses', Nat)
  BY EmptyTable
<1> QED BY <1>1, <1>2, <1>3 DEF image, TypeOK, LoaderTypeOK

LEMMA NextType == TypeOK /\ [Next]_vars => TypeOK'
<1> SUFFICES ASSUME TypeOK, [Next]_vars PROVE TypeOK'
  OBVIOUS
<1>1. CASE AssemblerStep /\ UNCHANGED loaderVars
  BY <1>1, AssemblerStepType DEF TypeOK, LoaderTypeOK, loaderVars, placing, image
<1>2. CASE LoaderStep /\ UNCHANGED assemblerVars
  <2>1. LoaderTypeOK'
    BY <1>2, LoadInstructionType, LoadLabelType, LoadVariableType, LoadStoreType,
       LoadReturnType DEF LoaderStep
  <2> QED BY <1>2, <2>1 DEF TypeOK, AssemblerTypeOK, assemblerVars
<1>3. CASE UNCHANGED vars
  BY <1>3 DEF TypeOK, AssemblerTypeOK, LoaderTypeOK, vars, assemblerVars, loaderVars,
              placing, image
<1> QED BY <1>1, <1>2, <1>3 DEF Next, Started

(* Every word the assembler and the loader build has its fields in range,  *)
(* every program has its .bin file, and behind every label the loader      *)
(* finds an instruction (loader.cpp:84).                                   *)
THEOREM Types == Spec => []TypeOK
BY InitType, NextType, PTL DEF Spec

-----------------------------------------------------------------------------
(* Nothing is written twice.                                               *)

LEMMA Counters ==
  ASSUME TypeOK
  PROVE  /\ address \in Nat
         /\ memAddress \in Nat
         /\ instructions \in Seq(Items)
         /\ Len(instructions) \in Nat
         /\ written \subseteq Int
BY MemorySizeAssumption DEF TypeOK, LoaderTypeOK, Addresses

LEMMA InitRoom == Init => RoomKept
BY DEF Init, AssemblerInit, LoaderInit, RoomKept

(* An instruction more, an address more: the data has not begun.           *)
LEMMA PushRoom ==
  ASSUME TypeOK, RoomKept, ReadingCode, NEW item, Push(item)
  PROVE  RoomKept'
<1>1. address = memAddress + Len(instructions)
  BY DEF RoomKept
<1>2. Len(instructions') = Len(instructions) + 1
  BY Counters DEF Push
<1>3. address' = address + 1 /\ memAddress' = memAddress /\ written' = written
  BY DEF Push, image
<1> QED BY <1>1, <1>2, <1>3, Counters DEF RoomKept

LEMMA AbortRoom ==
  ASSUME RoomKept, Abort, UNCHANGED assemblerVars PROVE RoomKept'
<1>1. ~ReadingCode'
  BY DEF Abort, ReadingCode, Loading
<1> QED BY <1>1 DEF RoomKept, Abort, placing, image, assemblerVars

LEMMA LoadVariableRoom ==
  ASSUME TypeOK, RoomKept, LoadVariable, UNCHANGED assemblerVars PROVE RoomKept'
<1> PICK v \in Unread :
      IF Stops(v) THEN Abort
      ELSE LET values == Bin.data[v]
               place == address..(address + Len(values) - 1) IN
           /\ variableAddresses' = Put(variableAddresses, v, address)
           /\ address' = address + Len(values)
           /\ ram' = [a \in Addresses |->
                        IF a \in place THEN IntBits(values[a - address + 1]) ELSE ram[a]]
           /\ written' = written \cup place
           /\ UNCHANGED <<initProgram, position, labelAddresses, instructions,
                          memAddress, origin, aborted>>
  BY DEF LoadVariable
<1>1. CASE Stops(v)
  BY <1>1, AbortRoom
<1>2. CASE ~Stops(v)
  <2> DEFINE n == Len(Bin.data[v])
  <2>1. n \in Nat
    BY VariableRead DEF LoadVariable
  <2>2. /\ address' = address + n
        /\ written' = written \cup (address..(address + n - 1))
        /\ UNCHANGED <<memAddress, instructions>>
    BY <1>2
  <2>3. ~ReadingCode' /\ ~(file' <= Len(args'))
    <3>1. Bin' = Bin /\ position' = position /\ position > Len(Bin.code)
      BY <1>2 DEF LoadVariable, ReadingData, Bin, Program, assemblerVars
    <3>2. position \in Nat /\ Len(Bin.code) \in Nat
      BY BinRead DEF LoadVariable, ReadingData, TypeOK, LoaderTypeOK
    <3>3. file > Len(args) /\ file \in Int /\ Len(args) \in Nat
      BY CommandLinesAssumption
         DEF LoadVariable, ReadingData, Loading, TypeOK, AssemblerTypeOK
    <3> QED BY <3>1, <3>2, <3>3 DEF ReadingCode, assemblerVars
  <2> HIDE DEF n
  <2> QED BY <2>1, <2>2, <2>3, Counters DEF RoomKept
<1> QED BY <1>1, <1>2

LEMMA LoadStoreRoom ==
  ASSUME TypeOK, RoomKept, LoadStore, UNCHANGED assemblerVars PROVE RoomKept'
<1>1. /\ Len(instructions) >= 1
      /\ Len(instructions') = Len(instructions) - 1
  BY Counters DEF LoadStore
<1>2. memAddress' = memAddress + 1 /\ address' = address
  BY DEF LoadStore
<1>3. written' \subseteq written \cup {memAddress}
  BY DEF LoadStore, image
<1>4. ~ReadingCode' /\ ~(file' <= Len(args'))
  <2>1. Bin' = Bin /\ position' = position /\ position > Len(Bin.code)
    BY DEF LoadStore, Storing, Bin, Program, assemblerVars
  <2>2. position \in Nat /\ Len(Bin.code) \in Nat
    BY BinRead DEF LoadStore, Storing, TypeOK, LoaderTypeOK
  <2>3. file > Len(args) /\ file \in Int /\ Len(args) \in Nat
    BY CommandLinesAssumption DEF LoadStore, Storing, Loading, TypeOK, AssemblerTypeOK
  <2> QED BY <2>1, <2>2, <2>3 DEF ReadingCode, assemblerVars
<1> QED BY <1>1, <1>2, <1>3, <1>4, Counters DEF RoomKept

LEMMA LoadReturnRoom ==
  ASSUME TypeOK, RoomKept, LoadReturn PROVE RoomKept'
<1>1. Len(instructions) = 0 /\ instructions' = instructions
  BY DEF LoadReturn, NextProgram
<1>2. address' = address + 1 /\ memAddress' = address + 1 /\ written' = written
  BY DEF LoadReturn, NextProgram, image
<1> QED BY <1>1, <1>2, Counters DEF RoomKept

LEMMA NextRoom == TypeOK /\ RoomKept /\ [Next]_vars => RoomKept'
<1> SUFFICES ASSUME TypeOK, RoomKept, [Next]_vars PROVE RoomKept'
  OBVIOUS
<1>1. CASE AssemblerStep /\ UNCHANGED loaderVars
  <2>1. file <= Len(args)
    BY <1>1 DEF AssemblerStep, AsmSection, AsmLabel, ReadsLabel, AsmInstruction,
                AsmVariable, AsmWrite, Written, Reads
  <2> QED BY <1>1, <2>1 DEF RoomKept, loaderVars, placing, image
<1>2. CASE LoaderStep /\ UNCHANGED assemblerVars
  <2>1. CASE LoadInstruction
    BY <2>1, PushRoom DEF LoadInstruction
  <2>2. CASE LoadLabel
    BY <1>2, <2>2, PushRoom, AbortRoom DEF LoadLabel, AtLabel, DefineLabel
  <2> QED BY <1>2, <2>1, <2>2, LoadVariableRoom, LoadStoreRoom, LoadReturnRoom DEF LoaderStep
<1>3. CASE UNCHANGED vars
  BY <1>3 DEF RoomKept, ReadingCode, Loading, Bin, Program, vars, assemblerVars, loaderVars,
              placing, image
<1> QED BY <1>1, <1>2, <1>3 DEF Next, Started

(* Between its two counters the loader has room for exactly what it has    *)
(* read and not stored, until the data begins, and has written nothing     *)
(* there or behind (loader.cpp:47, 69, 86, 92, 97, 125).                   *)
THEOREM Room == Spec => []RoomKept
BY InitType, NextType, InitRoom, NextRoom, PTL DEF Spec

(* No step writes where a word has been written.                           *)
LEMMA StepWritesOnce ==
  ASSUME TypeOK, RoomKept, [Next]_vars, NEW a \in written
  PROVE  ram'[a] = ram[a] /\ origin'[a] = origin[a]
<1>1. CASE UNCHANGED <<ram, origin>>
  BY <1>1
<1>2. CASE LoadVariable
  <2>1. a < address /\ a \in Addresses /\ a \in Int /\ address \in Nat
    BY Counters DEF RoomKept, TypeOK, LoaderTypeOK
  <2>2. PICK v \in Unread :
          \/ Abort
          \/ /\ ram' = [b \in Addresses |->
                          IF b \in address..(address + Len(Bin.data[v]) - 1)
                          THEN IntBits(Bin.data[v][b - address + 1]) ELSE ram[b]]
             /\ origin' = origin
    BY <1>2 DEF LoadVariable
  <2>3. CASE Abort
    BY <2>3 DEF Abort, image
  <2>4. CASE ~Abort
    <3>1. a \notin address..(address + Len(Bin.data[v]) - 1)
      BY <2>1
    <3> QED BY <2>1, <2>2, <2>4, <3>1
  <2> QED BY <2>3, <2>4
<1>3. CASE LoadStore
  <2>1. Len(instructions) >= 1
    BY <1>3, Counters DEF LoadStore
  <2>2. a # memAddress
    BY <2>1, Counters DEF RoomKept
  <2> QED BY <1>3, <2>2 DEF LoadStore, image, TypeOK, LoaderTypeOK
<1> QED BY <1>1, <1>2, <1>3 DEF Next, Started, LoaderStep, LoadInstruction, LoadLabel, DefineLabel,
           Push, Abort, LoadReturn, NextProgram, vars, loaderVars, image

(* No word of the memory is written twice: no program, of any length and   *)
(* with any data, lands on another or on itself.                           *)
THEOREM NoOverwrite == Spec => WrittenOnce
<1>1. TypeOK /\ RoomKept /\ [Next]_vars
        => [\A a \in written : ram'[a] = ram[a] /\ origin'[a] = origin[a]]_vars
  BY StepWritesOnce
<1> QED BY <1>1, Types, Room, PTL DEF Spec, WrittenOnce

-----------------------------------------------------------------------------
(* Numbers.  What a recursive function is for every argument is proved     *)
(* from the least number that would be an exception: that the function     *)
(* exists first (Recursion), then what its values are.                     *)

LEMMA ModulusPositive == Modulus \in Nat \ {0}
<1> DEFINE bits == 1..Width
<1>1. IsFiniteSet(bits) /\ Cardinality(bits) = Width
  BY WidthAssumption, FS_Interval
<1> HIDE DEF bits
<1>2. IsFiniteSet(SUBSET bits) /\ Cardinality(SUBSET bits) = Modulus
  BY <1>1, FS_SUBSET DEF Modulus
<1>3. {} \in SUBSET bits
  OBVIOUS
<1>4. SUBSET bits # {}
  BY <1>3
<1> QED BY <1>2, <1>4, FS_CardinalityType, FS_EmptySet

(* A number with a property is not above the least that has it.            *)
LEMMA LeastNumber ==
  ASSUME NEW T \in SUBSET Nat, T # {}
  PROVE  \E n \in T : \A m \in T : n <= m
<1>1. PICK n \in T : \A m \in T : <<m, n>> \notin OpToRel(<, Nat)
  BY WFMin, NatLessThanWellFounded, Zenon
<1>2. \A m \in T : ~(m < n)
  BY <1>1, Zenon DEF OpToRel
<1> QED BY <1>2

(* Powers of two, as numbers of subsets.                                   *)
LEMMA TwoToThe ==
  ASSUME NEW n \in Nat
  PROVE  2 ^ n \in Nat \ {0} /\ 2 ^ (n + 1) = 2 * 2 ^ n
<1> DEFINE S == 1..n
           T == SUBSET (1..(n + 1))
           Without == SUBSET S
           With == {A \cup {n + 1} : A \in Without}
           f == [A \in Without |-> A \cup {n + 1}]
<1>1. IsFiniteSet(Without) /\ Cardinality(Without) = 2 ^ n
  <2>1. IsFiniteSet(S) /\ Cardinality(S) = n
    BY FS_Interval
  <2> QED BY <2>1, FS_SUBSET, Zenon
<1>2. Cardinality(T) = 2 ^ (n + 1)
  <2>1. IsFiniteSet(1..(n + 1)) /\ Cardinality(1..(n + 1)) = n + 1
    BY FS_Interval
  <2> QED BY <2>1, FS_SUBSET, Zenon
<1>3. IsFiniteSet(With) /\ Cardinality(With) = Cardinality(Without)
  <2>1. f \in Bijection(Without, With)
    <3>1. f \in [Without -> With] /\ \A y \in With : \E A \in Without : f[A] = y
      OBVIOUS
    <3>2. ASSUME NEW A \in Without, NEW B \in Without, f[A] = f[B] PROVE A = B
      <4>1. A \cup {n + 1} = B \cup {n + 1}
        BY <3>2
      <4>2. n + 1 \notin A /\ n + 1 \notin B
        OBVIOUS
      <4> QED BY <4>1, <4>2
    <3> HIDE DEF f, With, Without
    <3> QED BY <3>1, <3>2, Zenon DEF Bijection, Injection, Surjection, IsInjective
  <2>2. ExistsBijection(Without, With)
    BY <2>1, Zenon DEF ExistsBijection
  <2> HIDE DEF With, Without
  <2> QED BY <1>1, <2>2, FS_Bijection
<1>4. Without \cap With = {} /\ Without \cup With = T
  <2>1. ASSUME NEW A \in T PROVE A \in Without \cup With
    <3>1. CASE n + 1 \in A
      <4>1. A \ {n + 1} \in Without
        OBVIOUS
      <4>2. A = (A \ {n + 1}) \cup {n + 1}
        BY <3>1
      <4> QED BY <4>1, <4>2
    <3>2. CASE n + 1 \notin A
      BY <3>2
    <3> QED BY <3>1, <3>2
  <2>2. ASSUME NEW A \in Without PROVE A \in T /\ A \notin With /\ A \cup {n + 1} \in T
    OBVIOUS
  <2>3. \A x \in With : \E A \in Without : x = A \cup {n + 1}
    OBVIOUS
  <2>4. Without \subseteq T /\ With \subseteq T /\ Without \cap With = {}
    <3> HIDE DEF T, Without, With
    <3>1. \A x \in With : x \in T
      BY <2>2, <2>3
    <3> QED BY <2>2, <3>1
  <2>5. T \subseteq Without \cup With
    <3> HIDE DEF T, Without, With
    <3> QED BY <2>1
  <2> HIDE DEF T, Without, With
  <2> QED BY <2>4, <2>5
<1> HIDE DEF T, Without, With
<1>5. Cardinality(T) = Cardinality(Without) + Cardinality(With)
  <2>1. Cardinality({}) = 0
    BY FS_EmptySet
  <2>2. Cardinality(Without) \in Nat /\ Cardinality(With) \in Nat
    BY <1>1, <1>3, FS_CardinalityType
  <2> QED BY <1>1, <1>3, <1>4, <2>1, <2>2, FS_Union
<1>6. Without # {}
  BY DEF Without
<1>7. Cardinality(Without) \in Nat \ {0}
  BY <1>1, <1>6, FS_CardinalityType, FS_EmptySet
<1> QED BY <1>1, <1>2, <1>3, <1>5, <1>7

Below(t) == {n \in Nat : n < t}

(* f is given on the numbers below t by the value at 0 and by how each     *)
(* other value is made of the one at a smaller number.                     *)
GivenBelow(t, f, z, before, step) ==
  \A n \in Below(t) : (n = 0 => f[n] = z) /\ (n # 0 => f[n] = step[n][f[before[n]]])

LEMMA Recursion ==
  ASSUME NEW top \in Nat, NEW V, NEW z \in V, NEW before \in [Nat -> Nat],
         \A n \in Nat \ {0} : before[n] < n,
         NEW step \in [Nat -> [V -> V]]
  PROVE  \E f \in [Below(top) -> V] : GivenBelow(top, f, z, before, step)
<1> DEFINE Good(t) == \E f \in [Below(t) -> V] : GivenBelow(t, f, z, before, step)
           Bad == {t \in Nat : ~Good(t)}
<1>1. SUFFICES ASSUME ~Good(top) PROVE FALSE
  OBVIOUS
<1>2. PICK t \in Nat : ~Good(t) /\ \A u \in Nat : u < t => Good(u)
  <2>1. Bad \in SUBSET Nat /\ Bad # {}
    BY <1>1
  <2>2. PICK t \in Bad : \A u \in Bad : t <= u
    BY <2>1, LeastNumber
  <2>3. ASSUME NEW u \in Nat, u < t PROVE Good(u)
    <3>1. ~(t <= u)
      BY <2>2, <2>3
    <3> QED BY <2>2, <3>1
  <2> QED BY <2>2, <2>3
<1>3. t # 0
  <2>1. SUFFICES ASSUME t = 0 PROVE Good(t)
    BY <1>2
  <2>2. Below(t) = {}
    BY <2>1 DEF Below
  <2>3. [n \in Below(t) |-> z] \in [Below(t) -> V]
    OBVIOUS
  <2> QED BY <2>2, <2>3, Zenon DEF GivenBelow
<1> DEFINE last == t - 1
<1>4. last \in Nat /\ last < t /\ \A n \in Nat : n < t <=> n < last \/ n = last
  BY <1>2, <1>3
<1> HIDE DEF last
<1>5. PICK g \in [Below(last) -> V] : GivenBelow(last, g, z, before, step)
  BY <1>2, <1>4
<1> HIDE DEF Good
<1>6. \A n \in Below(last) : n # 0 => before[n] \in Below(last)
  BY <1>4 DEF Below
<1>7. PICK new \in V : (last = 0 => new = z) /\ (last # 0 => new = step[last][g[before[last]]])
  <2>1. CASE last = 0
    BY <2>1
  <2>2. CASE last # 0
    <3>1. before[last] \in Below(last)
      BY <1>4, <2>2 DEF Below
    <3>2. step[last][g[before[last]]] \in V
      BY <1>4, <3>1
    <3> QED BY <2>2, <3>2
  <2> QED BY <2>1, <2>2
<1> DEFINE f == [n \in Below(t) |-> IF n = last THEN new ELSE g[n]]
<1>8. \A n \in Below(t) : n = last \/ n \in Below(last)
  BY <1>4 DEF Below
<1>9. f \in [Below(t) -> V] /\ last \in Below(t) /\ f[last] = new
  <2>1. last \in Below(t)
    BY <1>4 DEF Below
  <2> QED BY <1>8, <2>1
<1>10. \A n \in Below(last) : n \in Below(t) /\ n # last /\ f[n] = g[n]
  <2>1. \A n \in Below(last) : n \in Below(t) /\ n # last
    BY <1>4 DEF Below
  <2> QED BY <2>1
<1> HIDE DEF f
<1>11. GivenBelow(t, f, z, before, step)
  <2> SUFFICES ASSUME NEW n \in Below(t)
               PROVE  (n = 0 => f[n] = z) /\ (n # 0 => f[n] = step[n][f[before[n]]])
    BY DEF GivenBelow
  <2>1. CASE n = last
    <3>1. last # 0 => before[last] \in Below(last)
      BY <1>4 DEF Below
    <3>2. last # 0 => f[before[last]] = g[before[last]]
      BY <1>10, <3>1
    <3> QED BY <1>7, <1>9, <2>1, <3>2
  <2>2. CASE n \in Below(last)
    <3>1. f[n] = g[n] /\ (n # 0 => f[before[n]] = g[before[n]])
      BY <1>6, <1>10, <2>2
    <3>2. (n = 0 => g[n] = z) /\ (n # 0 => g[n] = step[n][g[before[n]]])
      BY <1>5, <2>2, Zenon DEF GivenBelow
    <3> QED BY <3>1, <3>2
  <2> QED BY <1>8, <2>1, <2>2
<1> QED BY <1>2, <1>9, <1>11, Zenon DEF Good

LEMMA WrapWord == ASSUME NEW n \in Int PROVE Wrap(n) \in Word
BY ModulusPositive DEF Wrap, Word

LEMMA WrapSmall == ASSUME NEW n \in Word PROVE Wrap(n) = n
BY ModulusPositive DEF Wrap, Word

LEMMA AsDecimalIs ==
  /\ \A n \in Half : AsDecimal[n] \in Word
  /\ AsDecimal[0] = 0
  /\ \A n \in Half \ {0} : AsDecimal[n] = Wrap(10 * AsDecimal[n \div 2] + (n % 2))
<1> DEFINE before == [n \in Nat |-> n \div 2]
           Digit(n, v) == Wrap(10 * v + (n % 2))
           step == [n \in Nat |-> [v \in Word |-> Digit(n, v)]]
<1>0. \A n \in Nat : \A v \in Word : Digit(n, v) \in Word
  <2> SUFFICES ASSUME NEW n \in Nat, NEW v \in Word PROVE Digit(n, v) \in Word
    OBVIOUS
  <2>1. 10 * v + (n % 2) \in Int
    BY DEF Word
  <2> QED BY <2>1, WrapWord
<1>1. before \in [Nat -> Nat] /\ \A n \in Nat \ {0} : before[n] < n
  OBVIOUS
<1>2. 0 \in Word
  BY ModulusPositive DEF Word
<1> HIDE DEF Digit
<1>3. step \in [Nat -> [Word -> Word]]
  BY <1>0
<1>5. /\ \A n \in Nat : before[n] = n \div 2
      /\ \A n \in Nat : \A v \in Word : step[n][v] = Digit(n, v)
  OBVIOUS
<1> HIDE DEF before, step
<1>13. \A t \in Nat : \E f \in [Below(t) -> Word] : GivenBelow(t, f, 0, before, step)
  BY <1>1, <1>2, <1>3, Recursion, Zenon
<1> PICK top \in Nat : top = 65536
  OBVIOUS
<1>4. Below(top) = Half /\ \A n \in Half : n \in Nat /\ n \div 2 \in Half
  BY DEF Below, Half
<1>6. PICK f \in [Half -> Word] : GivenBelow(top, f, 0, before, step)
  <2>1. \E f \in [Below(top) -> Word] : GivenBelow(top, f, 0, before, step)
    BY <1>13
  <2> QED BY <1>4, <2>1
<1>7. ASSUME NEW n \in Half
      PROVE  f[n] = IF n = 0 THEN 0 ELSE Digit(n, f[n \div 2])
  <2>1. CASE n = 0
    BY <1>4, <1>6, <2>1 DEF GivenBelow
  <2>2. CASE n # 0
    <3>1. f[n] = step[n][f[before[n]]]
      BY <1>4, <1>6, <2>2 DEF GivenBelow
    <3>2. n \in Nat /\ before[n] = n \div 2 /\ f[n \div 2] \in Word
      BY <1>4, <1>5
    <3> QED BY <1>5, <2>2, <3>1, <3>2
  <2> QED BY <2>1, <2>2
<1>8. f = [n \in Half |-> IF n = 0 THEN 0 ELSE Digit(n, f[n \div 2])]
  BY <1>7
<1>9. AsDecimal = [n \in Half |-> IF n = 0 THEN 0 ELSE Digit(n, AsDecimal[n \div 2])]
  <2>1. f = [n \in Half |-> IF n = 0 THEN 0 ELSE Wrap(10 * f[n \div 2] + (n % 2))]
    BY <1>8 DEF Digit
  <2> USE DEF Digit
  <2>2. \E g : g = [n \in Half |-> IF n = 0 THEN 0 ELSE Wrap(10 * g[n \div 2] + (n % 2))]
    BY <2>1
  <2> QED BY <2>2 DEF AsDecimal
<1>10. \A n \in Half : AsDecimal[n] = IF n = 0 THEN 0 ELSE Digit(n, AsDecimal[n \div 2])
  BY <1>9
<1>11. \A n \in Half : AsDecimal[n] \in Word
  <2> SUFFICES ASSUME NEW m \in Half, AsDecimal[m] \notin Word PROVE FALSE
    OBVIOUS
  <2> DEFINE T == {n \in Nat : n \in Half /\ AsDecimal[n] \notin Word}
  <2>1. T \in SUBSET Nat /\ T # {}
    BY <1>4
  <2>2. PICK n \in T : \A k \in T : n <= k
    <3> HIDE DEF T
    <3> QED BY <2>1, LeastNumber
  <2>3. n # 0
    BY <1>2, <1>10, <2>2
  <2>4. n \div 2 \in Half /\ n \div 2 \in Nat /\ n \div 2 < n
    BY <1>4, <2>2, <2>3
  <2>5. AsDecimal[n \div 2] \in Word
    BY <2>2, <2>4
  <2> QED BY <1>0, <1>10, <2>2, <2>3, <2>5
<1>12. 0 \in Half
  BY DEF Half
<1> QED BY <1>10, <1>11, <1>12, <1>4 DEF Digit

LEMMA OnesOfIs ==
  /\ \A n \in Word : OnesOf[n] \in Nat
  /\ OnesOf[0] = 0
  /\ \A n \in Word \ {0} : OnesOf[n] = 2 * OnesOf[n \div 10] + (IF n % 10 = 1 THEN 1 ELSE 0)
<1> DEFINE before == [n \in Nat |-> n \div 10]
           One(n) == IF n % 10 = 1 THEN 1 ELSE 0
           step == [n \in Nat |-> [v \in Nat |-> 2 * v + One(n)]]
<1>0. \A n \in Nat : One(n) \in Nat
  OBVIOUS
<1>1. before \in [Nat -> Nat] /\ \A n \in Nat \ {0} : before[n] < n
  OBVIOUS
<1> HIDE DEF One
<1>3. step \in [Nat -> [Nat -> Nat]]
  BY <1>0
<1>4. Below(Modulus) = Word /\ Modulus \in Nat
  BY ModulusPositive DEF Below, Word
<1>13. /\ \A n \in Nat : before[n] = n \div 10
       /\ \A n \in Nat : \A v \in Nat : step[n][v] = 2 * v + One(n)
  OBVIOUS
<1> HIDE DEF before, step
<1>5. PICK f \in [Word -> Nat] : GivenBelow(Modulus, f, 0, before, step)
  BY <1>1, <1>3, <1>4, Recursion
<1>6. \A n \in Word : n \in Nat /\ n \div 10 \in Word
  BY ModulusPositive DEF Word
<1>7. ASSUME NEW n \in Word
      PROVE  f[n] = IF n = 0 THEN 0 ELSE 2 * f[n \div 10] + One(n)
  <2>1. CASE n = 0
    BY <1>4, <1>5, <2>1 DEF GivenBelow
  <2>2. CASE n # 0
    <3>1. f[n] = step[n][f[before[n]]]
      BY <1>4, <1>5, <2>2 DEF GivenBelow
    <3>2. n \in Nat /\ before[n] = n \div 10 /\ f[n \div 10] \in Nat
      BY <1>6, <1>13
    <3> QED BY <1>13, <2>2, <3>1, <3>2
  <2> QED BY <2>1, <2>2
<1>8. f = [n \in Word |-> IF n = 0 THEN 0 ELSE 2 * f[n \div 10] + One(n)]
  BY <1>5, <1>7
<1>9. OnesOf = [n \in Word |-> IF n = 0 THEN 0 ELSE 2 * OnesOf[n \div 10] + One(n)]
  BY <1>8, Zenon DEF OnesOf, One
<1>10. \A n \in Word : OnesOf[n] = IF n = 0 THEN 0 ELSE 2 * OnesOf[n \div 10] + One(n)
  BY <1>9, Zenon
<1>11. \A n \in Word : OnesOf[n] \in Nat
  <2> SUFFICES ASSUME NEW m \in Word, OnesOf[m] \notin Nat PROVE FALSE
    OBVIOUS
  <2> DEFINE T == {n \in Nat : n \in Word /\ OnesOf[n] \notin Nat}
  <2>1. T \in SUBSET Nat /\ T # {}
    BY <1>6
  <2>2. PICK n \in T : \A k \in T : n <= k
    BY <2>1, LeastNumber
  <2>3. n # 0
    BY <1>10, <2>2
  <2>4. n \div 10 \in Word /\ n \div 10 \in Nat /\ n \div 10 < n
    BY <1>6, <2>2, <2>3
  <2>5. OnesOf[n \div 10] \in Nat
    BY <2>2, <2>4
  <2> QED BY <1>0, <1>10, <2>2, <2>3, <2>5
<1>12. 0 \in Word
  BY ModulusPositive DEF Word
<1> QED BY <1>10, <1>11, <1>12 DEF One

LEMMA DigitsOfIs ==
  /\ \A n \in Word : DigitsOf[n] \in Nat
  /\ \A n \in Word : DigitsOf[n] = IF n < 10 THEN 1 ELSE 1 + DigitsOf[n \div 10]
<1> DEFINE before == [n \in Nat |-> n \div 10]
           step == [n \in Nat |-> [v \in Nat |-> IF n < 10 THEN 1 ELSE 1 + v]]
<1>1. before \in [Nat -> Nat] /\ \A n \in Nat \ {0} : before[n] < n
  OBVIOUS
<1>3. step \in [Nat -> [Nat -> Nat]]
  OBVIOUS
<1>4. Below(Modulus) = Word /\ Modulus \in Nat
  BY ModulusPositive DEF Below, Word
<1>13. /\ \A n \in Nat : before[n] = n \div 10
       /\ \A n \in Nat : \A v \in Nat : step[n][v] = IF n < 10 THEN 1 ELSE 1 + v
  OBVIOUS
<1> HIDE DEF before, step
<1>5. PICK f \in [Word -> Nat] : GivenBelow(Modulus, f, 1, before, step)
  BY <1>1, <1>3, <1>4, Recursion
<1>6. \A n \in Word : n \in Nat /\ n \div 10 \in Word
  BY ModulusPositive DEF Word
<1>7. ASSUME NEW n \in Word
      PROVE  f[n] = IF n < 10 THEN 1 ELSE 1 + f[n \div 10]
  <2>1. CASE n = 0
    BY <1>4, <1>5, <2>1 DEF GivenBelow
  <2>2. CASE n # 0
    <3>1. f[n] = step[n][f[before[n]]]
      BY <1>4, <1>5, <2>2 DEF GivenBelow
    <3>2. n \in Nat /\ before[n] = n \div 10 /\ f[n \div 10] \in Nat
      BY <1>6, <1>13
    <3> QED BY <1>13, <2>2, <3>1, <3>2
  <2> QED BY <2>1, <2>2
<1>8. f = [n \in Word |-> IF n < 10 THEN 1 ELSE 1 + f[n \div 10]]
  BY <1>5, <1>7
<1>9. DigitsOf = [n \in Word |-> IF n < 10 THEN 1 ELSE 1 + DigitsOf[n \div 10]]
  BY <1>8, Zenon DEF DigitsOf
<1>10. \A n \in Word : DigitsOf[n] = IF n < 10 THEN 1 ELSE 1 + DigitsOf[n \div 10]
  BY <1>9, Zenon
<1>11. \A n \in Word : DigitsOf[n] \in Nat
  <2> SUFFICES ASSUME NEW m \in Word, DigitsOf[m] \notin Nat PROVE FALSE
    OBVIOUS
  <2> DEFINE T == {n \in Nat : n \in Word /\ DigitsOf[n] \notin Nat}
  <2>1. T \in SUBSET Nat /\ T # {}
    BY <1>6
  <2>2. PICK n \in T : \A k \in T : n <= k
    BY <2>1, LeastNumber
  <2>3. ~(n < 10)
    BY <1>10, <2>2
  <2>4. n \div 10 \in Word /\ n \div 10 \in Nat /\ n \div 10 < n
    BY <1>6, <2>2, <2>3
  <2>5. DigitsOf[n \div 10] \in Nat
    BY <2>2, <2>4
  <2> QED BY <1>10, <2>2, <2>3, <2>5
<1> QED BY <1>10, <1>11

(* The numbers 0, 1, 11 and so on, up to as many ones as a word has digits.*)
Repunit[d \in 0..DigitsOf[Modulus - 1]] == IF d = 0 THEN 0 ELSE 10 * Repunit[d - 1] + 1

(* They are words: in a word of that width every number below Limit has    *)
(* room for its binary digits, read as a decimal number.                   *)
Legible == \A d \in 0..DigitsOf[Modulus - 1] : Repunit[d] \in Word

LEMMA RepunitIs ==
  /\ DigitsOf[Modulus - 1] \in Nat
  /\ Repunit[0] = 0
  /\ \A d \in 1..DigitsOf[Modulus - 1] : Repunit[d] = 10 * Repunit[d - 1] + 1
<1> DEFINE before == [n \in Nat |-> IF n = 0 THEN 0 ELSE n - 1]
           step == [n \in Nat |-> [v \in Nat |-> 10 * v + 1]]
<1>1. before \in [Nat -> Nat] /\ \A n \in Nat \ {0} : before[n] < n
  OBVIOUS
<1>2. step \in [Nat -> [Nat -> Nat]] /\ 0 \in Nat
  OBVIOUS
<1>3. PICK top \in Nat : top = DigitsOf[Modulus - 1]
  BY DigitsOfIs, ModulusPositive DEF Word
<1>4. top + 1 \in Nat /\ Below(top + 1) = 0..top
  BY DEF Below
<1>5. /\ \A n \in Nat : n # 0 => before[n] = n - 1
      /\ \A n \in Nat : \A v \in Nat : step[n][v] = 10 * v + 1
  OBVIOUS
<1> HIDE DEF before, step
<1>6. PICK f \in [0..top -> Nat] : GivenBelow(top + 1, f, 0, before, step)
  <2>1. \E f \in [Below(top + 1) -> Nat] : GivenBelow(top + 1, f, 0, before, step)
    BY <1>1, <1>2, <1>4, Recursion, Zenon
  <2> QED BY <1>4, <2>1
<1>7. ASSUME NEW d \in 0..top PROVE f[d] = IF d = 0 THEN 0 ELSE 10 * f[d - 1] + 1
  <2>1. CASE d = 0
    BY <1>4, <1>6, <2>1 DEF GivenBelow
  <2>2. CASE d # 0
    <3>1. f[d] = step[d][f[before[d]]]
      BY <1>4, <1>6, <2>2 DEF GivenBelow
    <3>2. d \in Nat /\ d - 1 \in 0..top
      BY <2>2
    <3>3. before[d] = d - 1 /\ f[d - 1] \in Nat
      BY <1>5, <2>2, <3>2
    <3> QED BY <1>5, <2>2, <3>1, <3>2, <3>3
  <2> QED BY <2>1, <2>2
<1>8. f = [d \in 0..top |-> IF d = 0 THEN 0 ELSE 10 * f[d - 1] + 1]
  BY <1>7
<1>9. Repunit = [d \in 0..top |-> IF d = 0 THEN 0 ELSE 10 * Repunit[d - 1] + 1]
  BY <1>3, <1>8, Zenon DEF Repunit
<1>10. \A d \in 0..top : Repunit[d] = IF d = 0 THEN 0 ELSE 10 * Repunit[d - 1] + 1
  BY <1>9, Zenon
<1>11. 0 \in 0..top /\ \A d \in 1..top : d \in 0..top /\ d # 0
  OBVIOUS
<1> QED BY <1>3, <1>10, <1>11, Zenon

(* Below Limit the binary digits of a number, read as a decimal number,    *)
(* fit a word, and their ones are those of the number.                     *)
LEMMA ConvertsBelow ==
  ASSUME Legible, NEW n \in Half, n < Limit
  PROVE  ConvertToDecimalValue(n) = n
<1> DEFINE top == DigitsOf[Modulus - 1]
<1>0. top \in Nat
  BY DigitsOfIs, ModulusPositive DEF Word
<1>1. PICK ones \in [0..top -> Word] :
        ones[0] = 0 /\ \A d \in 1..top : ones[d] = 10 * ones[d - 1] + 1
  <2> DEFINE ones == [d \in 0..top |-> Repunit[d]]
  <2>1. ones \in [0..top -> Word]
    BY DEF Legible
  <2>2. ones[0] = 0 /\ \A d \in 1..top : ones[d] = 10 * ones[d - 1] + 1
    <3> HIDE DEF top
    <3>1. Repunit[0] = 0 /\ \A d \in 1..top : Repunit[d] = 10 * Repunit[d - 1] + 1
      BY RepunitIs DEF top
    <3>2. 0 \in 0..top /\ \A d \in 1..top : d \in 0..top /\ d - 1 \in 0..top
      BY <1>0
    <3> QED BY <3>1, <3>2
  <2> QED BY <2>1, <2>2
<1> HIDE DEF top
<1> DEFINE Exact(d) == \A m \in Half : m < 2 ^ d =>
                         AsDecimal[m] <= ones[d] /\ OnesOf[AsDecimal[m]] = m
           T == {d \in 0..top : ~Exact(d)}
<1>2. Exact(0)
  <2>1. 2 ^ 0 = 1
    OBVIOUS
  <2>2. \A m \in Half : m < 1 => m = 0
    BY DEF Half
  <2>3. AsDecimal[0] = 0 /\ OnesOf[0] = 0
    BY AsDecimalIs, OnesOfIs
  <2> QED BY <1>1, <2>1, <2>2, <2>3
<1>3. ASSUME NEW d \in 1..top, Exact(d - 1) PROVE Exact(d)
  <2>1. d - 1 \in Nat /\ d - 1 \in 0..top /\ d \in 0..top /\ (d - 1) + 1 = d
    BY <1>0
  <2>2. 2 ^ d = 2 * 2 ^ (d - 1) /\ 2 ^ (d - 1) \in Nat
    BY <2>1, TwoToThe
  <2>3. ones[d] = 10 * ones[d - 1] + 1 /\ ones[d] \in Word /\ ones[d - 1] \in Word
    BY <1>1, <2>1
  <2> SUFFICES ASSUME NEW m \in Half, m < 2 ^ d
               PROVE  AsDecimal[m] <= ones[d] /\ OnesOf[AsDecimal[m]] = m
    OBVIOUS
  <2>4. CASE m = 0
    <3>1. AsDecimal[0] = 0 /\ OnesOf[0] = 0
      BY AsDecimalIs, OnesOfIs
    <3> QED BY <2>3, <2>4, <3>1 DEF Word
  <2>5. CASE m # 0
    <3> DEFINE x == AsDecimal[m \div 2]
               y == 10 * x + (m % 2)
    <3>1. m \in Nat /\ m \div 2 \in Half /\ m \div 2 < 2 ^ (d - 1)
      BY <2>2 DEF Half
    <3>2. x \in Word /\ x <= ones[d - 1] /\ OnesOf[x] = m \div 2
      BY <1>3, <3>1, AsDecimalIs
    <3>3. AsDecimal[m] = Wrap(y)
      BY <2>5, AsDecimalIs
    <3> HIDE DEF x
    <3>4. y \in Word /\ y <= ones[d] /\ y \div 10 = x /\ y % 10 = m % 2
      BY <2>3, <3>1, <3>2, ModulusPositive DEF Word
    <3> HIDE DEF y
    <3>5. AsDecimal[m] = y
      BY <3>3, <3>4, WrapSmall
    <3>6. CASE y = 0
      <4>1. x = 0 /\ m % 2 = 0
        BY <3>4, <3>6
      <4>2. OnesOf[0] = 0
        BY OnesOfIs
      <4> QED BY <3>1, <3>2, <3>4, <3>5, <3>6, <4>1, <4>2
    <3>7. CASE y # 0
      <4>1. OnesOf[y] = 2 * OnesOf[x] + (IF m % 2 = 1 THEN 1 ELSE 0)
        BY <3>4, <3>7, OnesOfIs
      <4>2. OnesOf[y] = m
        BY <3>1, <3>2, <4>1
      <4> QED BY <3>4, <3>5, <4>2
    <3> QED BY <3>6, <3>7
  <2> QED BY <2>4, <2>5
<1>4. T = {}
  <2> SUFFICES ASSUME T # {} PROVE FALSE
    OBVIOUS
  <2>1. T \in SUBSET Nat
    BY <1>0
  <2>2. PICK d \in T : \A k \in T : d <= k
    <3> HIDE DEF T
    <3> QED BY <2>1, LeastNumber
  <2> HIDE DEF Exact
  <2>3. d \in 1..top
    BY <1>0, <1>2, <2>2
  <2>4. d - 1 \in 0..top /\ ~(d <= d - 1)
    BY <1>0, <2>3
  <2>5. Exact(d - 1)
    BY <2>2, <2>4
  <2> QED BY <1>3, <2>2, <2>3, <2>5
<1>5. Exact(top)
  <2> HIDE DEF Exact
  <2> QED BY <1>0, <1>4
<1> QED BY <1>5 DEF top, Limit, ConvertToDecimalValue

(* A word has no more ones than digits.                                    *)
LEMMA OnesBelow == \A w \in Word : OnesOf[w] < Limit
<1> DEFINE Small(v) == \A w \in Word : w <= v => OnesOf[w] < 2 ^ DigitsOf[v]
           T == {v \in Word : ~Small(v)}
<1>0. \A w \in Word : w \in Nat /\ w \div 10 \in Word
  BY ModulusPositive DEF Word
<1>1. ASSUME NEW v \in Word, \A u \in Word : u < v => Small(u) PROVE Small(v)
  <2> SUFFICES ASSUME NEW w \in Word, w <= v PROVE OnesOf[w] < 2 ^ DigitsOf[v]
    OBVIOUS
  <2>1. /\ v \in Nat /\ w \in Nat /\ v \div 10 \in Word /\ w \div 10 \in Word
        /\ DigitsOf[v] \in Nat /\ DigitsOf[v \div 10] \in Nat
        /\ OnesOf[w] \in Nat /\ OnesOf[w \div 10] \in Nat
    BY <1>0, DigitsOfIs, OnesOfIs
  <2>2. OnesOf[w] <= 2 * OnesOf[w \div 10] + 1
    <3>1. OnesOf[0] = 0
      BY OnesOfIs
    <3>2. w # 0 => OnesOf[w] = 2 * OnesOf[w \div 10] + (IF w % 10 = 1 THEN 1 ELSE 0)
      BY OnesOfIs
    <3> QED BY <2>1, <3>1, <3>2
  <2>3. CASE v < 10
    <3>1. DigitsOf[v] = 1
      BY <2>3, DigitsOfIs
    <3>2. 2 ^ 1 = 2
      OBVIOUS
    <3>3. w \div 10 = 0
      BY <2>1, <2>3
    <3>4. OnesOf[w] <= 1
      BY <2>1, <2>2, <3>3, OnesOfIs
    <3> QED BY <2>1, <3>1, <3>2, <3>4
  <2>4. CASE ~(v < 10)
    <3> DEFINE p == 2 ^ DigitsOf[v \div 10]
    <3>1. DigitsOf[v] = DigitsOf[v \div 10] + 1
      BY <2>1, <2>4, DigitsOfIs
    <3>2. 2 ^ DigitsOf[v] = 2 * p /\ p \in Nat
      BY <2>1, <3>1, TwoToThe
    <3>3. w \div 10 <= v \div 10 /\ v \div 10 < v
      BY <2>1, <2>4
    <3>4. OnesOf[w \div 10] < p
      BY <1>1, <2>1, <3>3
    <3> HIDE DEF p
    <3> QED BY <2>1, <2>2, <3>2, <3>4
  <2> QED BY <2>3, <2>4
<1>2. T = {}
  <2> SUFFICES ASSUME T # {} PROVE FALSE
    OBVIOUS
  <2>1. T \in SUBSET Nat
    BY <1>0
  <2>2. PICK v \in T : \A k \in T : v <= k
    <3> HIDE DEF T
    <3> QED BY <2>1, LeastNumber
  <2> HIDE DEF Small
  <2>3. ASSUME NEW u \in Word, u < v PROVE Small(u)
    <3>1. v \in Nat /\ u \in Nat
      BY <1>0, <2>2
    <3>2. ~(v <= u)
      BY <2>3, <3>1
    <3> QED BY <2>2, <3>2
  <2> QED BY <1>1, <2>2, <2>3
<1>3. Modulus - 1 \in Word /\ \A w \in Word : w <= Modulus - 1
  BY ModulusPositive DEF Word
<1>4. Small(Modulus - 1)
  <2> HIDE DEF Small
  <2> QED BY <1>2, <1>3
<1> QED BY <1>3, <1>4 DEF Limit

(* The immediates that come out as they are.                               *)
LEMMA ConvertsExactly ==
  ASSUME Legible, NEW n \in Half
  PROVE  ConvertToDecimalValue(n) = n <=> n < Limit
<1>1. ConvertToDecimalValue(n) < Limit
  BY AsDecimalIs, OnesBelow DEF ConvertToDecimalValue
<1> QED BY <1>1, ConvertsBelow

(* Whatever the width, a 0 is a 0.                                         *)
LEMMA ConvertsZero == ConvertToDecimalValue(0) = 0
BY AsDecimalIs, OnesOfIs DEF ConvertToDecimalValue

LEMMA BelowModulus == \A n \in Nat : n < Modulus => n \in Word
BY ModulusPositive DEF Word

(* The words of the code are legible, and those of the runs.               *)
LEMMA LegibleWords == Width \in {14, 32} => Legible
<1> SUFFICES ASSUME Width \in {14, 32} PROVE Legible
  OBVIOUS
<1>1. CASE Width = 14
  <2>1. Modulus = 16384
    BY <1>1, SMT DEF Modulus
  <2>2. \A n \in Nat : n < 16384 => n \in Word
    BY <2>1, BelowModulus, SMT
  <2>3. DigitsOf[Modulus - 1] = 5
    <3>1. DigitsOf[1] = 1
      BY <2>2, DigitsOfIs, SMT
    <3>2. DigitsOf[16] = 2
      BY <2>2, <3>1, DigitsOfIs, SMT
    <3>3. DigitsOf[163] = 3
      BY <2>2, <3>2, DigitsOfIs, SMT
    <3>4. DigitsOf[1638] = 4
      BY <2>2, <3>3, DigitsOfIs, SMT
    <3>5. DigitsOf[16383] = 5
      BY <2>2, <3>4, DigitsOfIs, SMT
    <3> QED BY <2>1, <3>5, SMT
  <2>4. /\ Repunit[0] = 0 /\ Repunit[1] = 1 /\ Repunit[2] = 11 /\ Repunit[3] = 111
        /\ Repunit[4] = 1111 /\ Repunit[5] = 11111
    BY <2>3, RepunitIs, SMT
  <2>5. \A d \in 0..5 : Repunit[d] \in Word
    BY <2>2, <2>4, SMT
  <2> QED BY <2>3, <2>5, SMT DEF Legible
<1>2. CASE Width = 32
  <2>1. Modulus = 4294967296
    BY <1>2, SMT DEF Modulus
  <2>2. \A n \in Nat : n < 4294967296 => n \in Word
    BY <2>1, BelowModulus, SMT
  <2>3. DigitsOf[Modulus - 1] = 10
    <3>1. DigitsOf[4] = 1
      BY <2>2, DigitsOfIs, SMT
    <3>2. DigitsOf[42] = 2
      BY <2>2, <3>1, DigitsOfIs, SMT
    <3>3. DigitsOf[429] = 3
      BY <2>2, <3>2, DigitsOfIs, SMT
    <3>4. DigitsOf[4294] = 4
      BY <2>2, <3>3, DigitsOfIs, SMT
    <3>5. DigitsOf[42949] = 5
      BY <2>2, <3>4, DigitsOfIs, SMT
    <3>6. DigitsOf[429496] = 6
      BY <2>2, <3>5, DigitsOfIs, SMT
    <3>7. DigitsOf[4294967] = 7
      BY <2>2, <3>6, DigitsOfIs, SMT
    <3>8. DigitsOf[42949672] = 8
      BY <2>2, <3>7, DigitsOfIs, SMT
    <3>9. DigitsOf[429496729] = 9
      BY <2>2, <3>8, DigitsOfIs, SMT
    <3>10. DigitsOf[4294967295] = 10
      BY <2>2, <3>9, DigitsOfIs, SMT
    <3> QED BY <2>1, <3>10, SMT
  <2>4. /\ Repunit[0] = 0 /\ Repunit[1] = 1 /\ Repunit[2] = 11 /\ Repunit[3] = 111
        /\ Repunit[4] = 1111 /\ Repunit[5] = 11111
    BY <2>3, RepunitIs, SMT
  <2>5. /\ Repunit[6] = 111111 /\ Repunit[7] = 1111111 /\ Repunit[8] = 11111111
        /\ Repunit[9] = 111111111 /\ Repunit[10] = 1111111111
    BY <2>3, <2>4, RepunitIs, SMT
  <2>6. \A d \in 0..10 : Repunit[d] \in Word
    BY <2>2, <2>4, <2>5, SMT
  <2> QED BY <2>3, <2>6, SMT DEF Legible
<1> QED BY <1>1, <1>2

-----------------------------------------------------------------------------
(* The control unit reads what the assembler writes.                       *)

LEMMA RegisterTables == \A r \in DOMAIN registerMap : Map[registerMap[r] + 1] = r
BY DEF registerMap, Map

LEMMA OpcodeTables ==
  /\ opcodes = instructionMap
  /\ \A a, b \in DOMAIN opcodes : opcodes[a] = opcodes[b] => a = b
BY DEF opcodes, instructionMap

(* Every instruction but END is read with its operation and its registers, *)
(* whatever its low half, and with that half as its immediate, converted,  *)
(* unless it is a print with none (assembler.cpp:13-99,                    *)
(* CONTROL_UNIT.h:49-68, HashRegister.h:17-48, CONTROL_UNIT.cpp:266-309).  *)
THEOREM ReadsBack ==
  ASSUME NEW op \in DOMAIN instructionMap \ {"END"}, NEW s \in DOMAIN registerMap,
         NEW t \in DOMAIN registerMap, NEW low \in Half
  PROVE  LET i == Read(IType(op, registerMap[s], registerMap[t], low)) IN
         /\ i.op = op /\ i.rs = s /\ i.rt = t
         /\ i.imm = IF op = "PRINT" /\ low = 0 THEN NoImm ELSE ConvertToDecimalValue(low)
<1> DEFINE w == IType(op, registerMap[s], registerMap[t], low)
           named == {o \in DOMAIN opcodes : opcodes[o] = w.op}
           ofRegister == w.op = opcodes.PRINT /\ w.low = 0
<1>1. /\ w.op = opcodes[op] /\ w.rs = registerMap[s] /\ w.rt = registerMap[t]
      /\ w.low = low
  BY OpcodeTables, Registers DEF IType, Bits
<1>2. w # EndBits
  <2>1. opcodes["END"] = 63 /\ "END" \in DOMAIN opcodes
    BY DEF opcodes
  <2>2. opcodes[op] # 63
    BY <2>1, OpcodeTables
  <2> QED BY <1>1, <2>2 DEF EndBits, Bits
<1>3. named = {op}
  BY <1>1, OpcodeTables
<1>4. (CHOOSE o \in named : TRUE) = op /\ named # {}
  BY <1>3
<1>7. ofRegister <=> op = "PRINT" /\ low = 0
  <2>1. "PRINT" \in DOMAIN opcodes
    BY DEF opcodes
  <2> QED BY <1>1, <2>1, OpcodeTables
<1> HIDE DEF w, named, ofRegister
<1>5. Map[w.rs + 1] = s /\ Map[w.rt + 1] = t
  BY <1>1, RegisterTables
<1>6. Read(w).op = op /\ Read(w).rs = s /\ Read(w).rt = t
  BY <1>2, <1>4, <1>5 DEF Read, Instr, named
<1>8. Read(w).imm = IF ofRegister THEN NoImm ELSE ConvertToDecimalValue(low)
  BY <1>1, <1>2 DEF Read, Instr, ofRegister
<1> QED BY <1>6, <1>7, <1>8 DEF w

(* The destination of an arithmetic instruction, too.                      *)
THEOREM ReadsBackDestination ==
  ASSUME NEW op \in DOMAIN instructionMap \ {"END"}, NEW s \in DOMAIN registerMap,
         NEW t \in DOMAIN registerMap, NEW d \in DOMAIN registerMap
  PROVE  LET i == Read(RType(op, registerMap[s], registerMap[t], registerMap[d])) IN
         i.op = op /\ i.rs = s /\ i.rt = t /\ i.rd = d
<1> DEFINE low == registerMap[d] * 2048 + instructionMap[op]
           w == IType(op, registerMap[s], registerMap[t], low)
<1>1. low \in Half /\ low \div 2048 = registerMap[d]
  BY Codes, Registers DEF Half
<1>2. Read(w).op = op /\ Read(w).rs = s /\ Read(w).rt = t
  BY <1>1, ReadsBack
<1>3. w # EndBits
  <2>1. opcodes["END"] = 63 /\ "END" \in DOMAIN opcodes
    BY DEF opcodes
  <2>2. instructionMap[op] # 63
    BY <2>1, OpcodeTables
  <2> QED BY <2>2 DEF IType, EndBits, Bits
<1>4. w.low = low
  BY DEF IType, Bits
<1>5. Read(w).rd = Map[w.low \div 2048 + 1]
  BY <1>3 DEF Read, Instr
<1>6. Read(w).rd = d
  BY <1>1, <1>4, <1>5, RegisterTables
<1> QED BY <1>2, <1>6 DEF RType

=============================================================================
