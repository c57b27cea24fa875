---------------------------- MODULE LoaderProofs ----------------------------
(***************************************************************************)
(* What the loader makes of the .bin files, for every command line and any *)
(* memory: the invariant that says where every instruction, label and      *)
(* variable is, and its proof.                                             *)
(***************************************************************************)
EXTENDS AssemblerProofs

(* The instructions of a code before the k-th item.                        *)
Before(code, k) == Cardinality({j \in 1..(k - 1) : code[j].label = NoText})

(* The last label n among the items before the p-th is the k-th.           *)
LastLabel(code, n, p, k) ==
  /\ k \in 1..(p - 1)
  /\ code[k].label = n
  /\ \A m \in (k + 1)..(p - 1) : code[m].label # n

(* An item whose symbol is replaced by an address.                         *)
Pointing(item, a) == [item.bits EXCEPT !.low = Low(a)]

(* The values, at b of a memory, within from..(to - 1).                    *)
HasValues(mem, values, b, from, to) ==
  \A k \in DOMAIN values :
    /\ b + k - 1 \in Addresses /\ b + k - 1 \in from..(to - 1)
    /\ mem[b + k - 1] = IntBits(values[k])

(* A word of a program whose symbols all have their addresses: of a label, *)
(* that of the next instruction, of a variable, one with its values.       *)
Linked(mem, item, w, bin, base, end, to) ==
  /\ item.sym = NoText => w = item.bits
  /\ \A m \in DOMAIN bin.code :
       item.sym # NoText /\ LastLabel(bin.code, item.sym, Len(bin.code) + 1, m) =>
         w = Pointing(item, base + Before(bin.code, m))
  /\ item.sym \in DOMAIN bin.data /\ item.sym # NoText
     /\ (\A m \in DOMAIN bin.code : bin.code[m].label # item.sym) =>
       \E b \in Addresses : w = Pointing(item, b) /\ HasValues(mem, bin.data[item.sym], b, end, to)

(* A .bin file loaded at base: its instructions in order, each with the    *)
(* line it comes from, and no code behind them.                            *)
Placed(mem, lines, base, top, bin) ==
  LET at(k) == base + Before(bin.code, k)
      end == at(Len(bin.code) + 1) IN
  /\ end < top
  /\ \A k \in DOMAIN bin.code : bin.code[k].label # NoText => bin.code[k].label \notin LongNames
  /\ \A v \in DOMAIN bin.data : v \notin LongNames /\ bin.data[v] # <<>>
  /\ \A a \in Addresses : a >= end /\ a < top => lines[a] = 0
  /\ top <= MemorySize + 1 =>
       \A k \in DOMAIN bin.code : bin.code[k].label = NoText =>
         /\ lines[at(k)] = bin.code[k].line
         /\ Linked(mem, bin.code[k], mem[at(k)], bin, base, end, top - 1)

(* The program being loaded, from here: what has been read of it and what  *)
(* has been stored.                                                        *)
Base == initProgram[Program]

Counts(bin) ==
  /\ position <= Len(bin.code) + 1
  /\ Base <= memAddress
  /\ memAddress + Len(instructions) = Base + Before(bin.code, position)
  /\ memAddress + Len(instructions) <= address
  /\ memAddress = Base \/ (position > Len(bin.code)
                           /\ DOMAIN bin.data \subseteq DOMAIN variableAddresses)

Queued(code) ==
  \A k \in 1..(position - 1) :
    code[k].label = NoText /\ Base + Before(code, k) >= memAddress =>
      instructions[Base + Before(code, k) - memAddress + 1] = code[k]

Stored(code) ==
  \A k \in 1..(position - 1) :
    LET a == Base + Before(code, k) IN
    code[k].label = NoText /\ a < memAddress /\ a \in Addresses =>
      origin[a] = code[k].line /\ ram[a] = Resolved(code[k])

LabelsKnown(code) ==
  /\ \A k \in 1..(position - 1) :
       code[k].label # NoText => code[k].label \in DOMAIN labelAddresses \ LongNames
  /\ \A n \in DOMAIN labelAddresses :
       n # NoText /\ \E k \in 1..(position - 1) :
         LastLabel(code, n, position, k) /\ labelAddresses[n] = Base + Before(code, k)

VariablesKnown(bin) ==
  /\ position <= Len(bin.code) => DOMAIN variableAddresses = {}
  /\ \A v \in DOMAIN variableAddresses :
       /\ v \in DOMAIN bin.data \ LongNames
       /\ bin.data[v] # <<>>
       /\ HasValues(ram, bin.data[v], variableAddresses[v], memAddress + Len(instructions), address)

InProgress(bin) ==
  Counts(bin) /\ Queued(bin.code) /\ Stored(bin.code) /\ LabelsKnown(bin.code) /\ VariablesKnown(bin)

(* The loader has placed the programs before, and of the one it loads what *)
(* it has read, with the addresses of labels and variables in its tables,  *)
(* and what it has stored (loader.cpp:45-128).                             *)
LoadedSoFar ==
  /\ file <= Len(args) => LoaderInit
  /\ Program <= Len(args) + 1
  /\ \A p \in 1..Program : initProgram[p] <= Base /\ Base <= memAddress
  /\ \A a \in Addresses : a >= memAddress => origin[a] = 0
  /\ \A p \in 1..(Program - 1) :
       Placed(ram, origin, initProgram[p], initProgram[p + 1], bins[args[p].name])
  /\ file > Len(args) /\ Program <= Len(args) => InProgress(Bin)

-----------------------------------------------------------------------------
(* Counting.                                                               *)

LEMMA BeforeNat ==
  ASSUME NEW code, NEW k \in Nat
  PROVE  /\ IsFiniteSet({j \in 1..(k - 1) : code[j].label = NoText})
         /\ Before(code, k) \in Nat
<1> DEFINE S == {j \in 1..(k - 1) : code[j].label = NoText}
<1>1. IsFiniteSet(1..(k - 1))
  BY FS_Interval
<1>2. S \in SUBSET (1..(k - 1))
  OBVIOUS
<1>3. IsFiniteSet(S)
  BY <1>1, <1>2, FS_Subset
<1>4. Cardinality(S) \in Nat
  BY <1>3, FS_CardinalityType
<1> QED BY <1>3, <1>4 DEF Before

LEMMA BeforeFirst == ASSUME NEW code PROVE Before(code, 1) = 0
<1>1. {j \in 1..(1 - 1) : code[j].label = NoText} = {}
  OBVIOUS
<1> QED BY <1>1, FS_EmptySet DEF Before

LEMMA BeforeNext ==
  ASSUME NEW code, NEW k \in Nat \ {0}
  PROVE  Before(code, k + 1) = Before(code, k) + IF code[k].label = NoText THEN 1 ELSE 0
<1> DEFINE S == {j \in 1..(k - 1) : code[j].label = NoText}
           T == {j \in 1..((k + 1) - 1) : code[j].label = NoText}
<1>1. IsFiniteSet(S) /\ k \notin S
  <2>1. IsFiniteSet(S)
    BY BeforeNat
  <2> QED BY <2>1
<1>2. Cardinality(S \cup {k}) = Cardinality(S) + 1
  BY <1>1, FS_AddElement
<1>3. T = IF code[k].label = NoText THEN S \cup {k} ELSE S
  OBVIOUS
<1>4. /\ Before(code, k) = Cardinality(S)
      /\ Before(code, k + 1) = Cardinality(T)
      /\ Before(code, k) \in Nat
  BY BeforeNat DEF Before
<1> HIDE DEF S, T
<1> QED BY <1>2, <1>3, <1>4

LEMMA BeforeOrder ==
  ASSUME NEW code, NEW j \in Nat \ {0}, NEW k \in Nat, j <= k
  PROVE  /\ Before(code, j) <= Before(code, k)
         /\ j < k /\ code[j].label = NoText => Before(code, j) < Before(code, k)
<1>1. ASSUME NEW i \in Nat, i <= k PROVE Before(code, i) <= Before(code, k)
  <2> DEFINE S == {x \in 1..(i - 1) : code[x].label = NoText}
             T == {x \in 1..(k - 1) : code[x].label = NoText}
  <2>1. S \in SUBSET T
    BY <1>1
  <2>2. IsFiniteSet(T)
    BY BeforeNat
  <2>3. Cardinality(S) <= Cardinality(T)
    BY <2>1, <2>2, FS_Subset
  <2> QED BY <2>3 DEF Before
<1>2. ASSUME j < k, code[j].label = NoText PROVE Before(code, j) < Before(code, k)
  <2>1. Before(code, j + 1) = Before(code, j) + 1
    BY <1>2, BeforeNext
  <2>2. Before(code, j + 1) <= Before(code, k)
    BY <1>1, <1>2
  <2>3. Before(code, j) \in Nat /\ Before(code, k) \in Nat
    BY BeforeNat
  <2> QED BY <2>1, <2>2, <2>3
<1> QED BY <1>1, <1>2

(* Every number below the count is that of an instruction.                 *)
LEMMA BeforeOnto ==
  ASSUME NEW code, NEW n \in Nat \ {0}, NEW m \in Nat, m < Before(code, n)
  PROVE  \E k \in 1..(n - 1) : code[k].label = NoText /\ Before(code, k) = m
<1> DEFINE S == {k \in 1..n : m < Before(code, k)}
<1>1. S \subseteq Nat /\ S # {}
  <2>1. n \in S
    OBVIOUS
  <2> QED BY <2>1
<1>2. PICK x \in S : \A y \in S : ~(<<y, x>> \in OpToRel(<, Nat))
  BY <1>1, WFMin, NatLessThanWellFounded
<1>3. x \in Nat /\ x # 0 /\ x <= n /\ m < Before(code, x)
  OBVIOUS
<1>4. x # 1
  BY <1>3, BeforeFirst
<1>5. PICK k \in 1..(n - 1) : x = k + 1
  <2>1. x - 1 \in 1..(n - 1) /\ x = (x - 1) + 1
    BY <1>3, <1>4
  <2> QED BY <2>1
<1>6. ~(m < Before(code, k))
  <2> SUFFICES ASSUME m < Before(code, k) PROVE FALSE
    OBVIOUS
  <2>1. k \in S /\ k \in Nat /\ k < x
    BY <1>5
  <2>2. ~(<<k, x>> \in OpToRel(<, Nat))
    BY <1>2, <2>1
  <2> QED BY <1>3, <2>1, <2>2, Zenon DEF OpToRel
<1>7. Before(code, x) = Before(code, k) + IF code[k].label = NoText THEN 1 ELSE 0
  BY <1>5, BeforeNext
<1>8. Before(code, k) \in Nat
  <2>1. k \in Nat
    BY <1>5
  <2> QED BY <2>1, BeforeNat
<1> QED BY <1>3, <1>6, <1>7, <1>8

-----------------------------------------------------------------------------
(* What is below the program being loaded.                                 *)

LEMMA HasValuesKept ==
  ASSUME NEW mem, NEW mem2, NEW values, NEW b \in Nat,
         NEW from \in Int, NEW to \in Int, NEW from2 \in Int, NEW to2 \in Int,
         HasValues(mem, values, b, from, to), from2 <= from, to <= to2,
         \A a \in Addresses : a >= from /\ a < to => mem2[a] = mem[a]
  PROVE  HasValues(mem2, values, b, from2, to2)
<1> SUFFICES ASSUME NEW k \in DOMAIN values
             PROVE  /\ b + k - 1 \in Addresses /\ b + k - 1 \in from2..(to2 - 1)
                    /\ mem2[b + k - 1] = IntBits(values[k])
  BY DEF HasValues
<1> DEFINE a == b + k - 1
<1>1. a \in Addresses /\ a \in from..(to - 1) /\ mem[a] = IntBits(values[k])
  BY DEF HasValues
<1> HIDE DEF a
<1>2. a \in Int /\ a >= from /\ a < to
  BY <1>1
<1>3. mem2[a] = IntBits(values[k])
  BY <1>1, <1>2
<1>4. a \in from2..(to2 - 1)
  BY <1>2
<1> QED BY <1>1, <1>3, <1>4 DEF a

LEMMA HasValuesNew ==
  ASSUME NEW mem, NEW values \in Seq(Numbers), NEW b \in Nat, NEW from \in Nat, from <= b,
         b + Len(values) <= MemorySize,
         \A a \in Addresses : a \in b..(b + Len(values) - 1) => mem[a] = IntBits(values[a - b + 1])
  PROVE  HasValues(mem, values, b, from, b + Len(values))
<1> DEFINE n == Len(values)
<1>1. n \in Nat /\ DOMAIN values = 1..n
  OBVIOUS
<1> SUFFICES ASSUME NEW k \in 1..n
             PROVE  /\ b + k - 1 \in Addresses /\ b + k - 1 \in from..(b + n - 1)
                    /\ mem[b + k - 1] = IntBits(values[k])
  BY <1>1 DEF HasValues
<1> HIDE DEF n
<1>2. b + k - 1 \in Addresses /\ b + k - 1 \in b..(b + n - 1)
  BY <1>1, MemorySizeAssumption DEF Addresses, n
<1>3. (b + k - 1) - b + 1 = k /\ b + k - 1 \in from..(b + n - 1)
  BY <1>1
<1> QED BY <1>2, <1>3 DEF n

LEMMA CodeLength ==
  ASSUME NEW bin, IsBin(bin)
  PROVE  /\ Len(bin.code) \in Nat /\ DOMAIN bin.code = 1..Len(bin.code)
         /\ \A k \in 1..Len(bin.code) : bin.code[k] \in Items
         /\ \A k \in Nat : Before(bin.code, k) \in Nat
<1>1. bin.code \in Seq(Items)
  BY DEF IsBin
<1>2. \A k \in Nat : Before(bin.code, k) \in Nat
  BY BeforeNat
<1>3. /\ Len(bin.code) \in Nat /\ DOMAIN bin.code = 1..Len(bin.code)
      /\ \A k \in 1..Len(bin.code) : bin.code[k] \in Items
  BY <1>1
<1> QED BY <1>2, <1>3

(* A step that leaves the words below alone displaces no program there.    *)
LEMMA PlacedKept ==
  ASSUME NEW mem, NEW lines, NEW mem2, NEW lines2, NEW base \in Nat, NEW top \in Nat,
         NEW bin, IsBin(bin), Placed(mem, lines, base, top, bin),
         \A a \in Addresses : a < top => mem2[a] = mem[a] /\ lines2[a] = lines[a]
  PROVE  Placed(mem2, lines2, base, top, bin)
<1> DEFINE at(k) == base + Before(bin.code, k)
           n == Len(bin.code)
           end == at(n + 1)
<1>1. n \in Nat /\ DOMAIN bin.code = 1..n
  BY CodeLength
<1>2. end \in Nat /\ end < top
  <2>1. Before(bin.code, n + 1) \in Nat
    BY CodeLength
  <2> QED BY <2>1 DEF Placed
<1>3. \A a \in Addresses : a >= end /\ a < top => lines2[a] = 0
  BY DEF Placed
<1>4. ASSUME top <= MemorySize + 1, NEW k \in DOMAIN bin.code, bin.code[k].label = NoText
      PROVE  /\ lines2[at(k)] = bin.code[k].line
             /\ Linked(mem2, bin.code[k], mem2[at(k)], bin, base, end, top - 1)
  <2> DEFINE a == at(k)
             item == bin.code[k]
  <2>1. a < end /\ a \in Addresses /\ a < top
    <3>1. n + 1 \in Nat /\ k \in Nat \ {0} /\ k < n + 1
      BY <1>1, <1>4
    <3>2. Before(bin.code, k) < Before(bin.code, n + 1)
      BY <1>4, <3>1, BeforeOrder
    <3>3. Before(bin.code, k) \in Nat /\ Before(bin.code, n + 1) \in Nat
      BY <3>1, BeforeNat
    <3> QED BY <1>2, <1>4, <3>2, <3>3, MemorySizeAssumption DEF Addresses
  <2>2. lines[a] = item.line /\ Linked(mem, item, mem[a], bin, base, end, top - 1)
    BY <1>4 DEF Placed
  <2>3. mem2[a] = mem[a] /\ lines2[a] = lines[a]
    BY <2>1
  <2> HIDE DEF a, item, end
  <2>4. ASSUME NEW b \in Addresses, NEW values, HasValues(mem, values, b, end, top - 1)
        PROVE  HasValues(mem2, values, b, end, top - 1)
    <3>1. \A x \in Addresses : x >= end /\ x < top - 1 => mem2[x] = mem[x]
      BY <1>2 DEF Addresses
    <3>2. end \in Int /\ top - 1 \in Int /\ end <= end /\ top - 1 <= top - 1 /\ b \in Nat
      BY <1>2 DEF Addresses
    <3> QED BY <2>4, <3>1, <3>2, HasValuesKept
  <2>5. Linked(mem2, item, mem2[a], bin, base, end, top - 1)
    BY <2>2, <2>3, <2>4, Zenon DEF Linked
  <2> QED BY <2>2, <2>3, <2>5 DEF a, item
<1> QED BY <1>2, <1>3, <1>4, Zenon DEF Placed

-----------------------------------------------------------------------------
(* The program being loaded.                                               *)

(* No label of a .bin file is behind another.                              *)
LEMMA BinMade ==
  ASSUME TypeOK, AssembledSoFar, Loading
  PROVE  /\ IsBin(Bin)
         /\ \A k \in DOMAIN Bin.code : Bin.code[k].label # NoText /\ k < Len(Bin.code) =>
              Bin.code[k + 1].label = NoText
<1>1. IsBin(Bin)
  BY BinRead
<1>2. Program \in 1..(file - 1)
  <2>1. Program \in Nat \ {0}
    BY DEF TypeOK, LoaderTypeOK, Program
  <2>2. Len(args) \in Nat /\ file \in Int
    BY CommandLinesAssumption DEF TypeOK, AssemblerTypeOK
  <2> QED BY <2>1, <2>2 DEF Loading
<1>3. args[Program].name \in DOMAIN bins
  BY <1>2 DEF TypeOK, AssemblerTypeOK
<1>4. PICK i \in 1..(file - 1) : Assembled(args, i, Bin)
  BY <1>3, AssembledParts DEF BinsSoFar, Bin
<1>5. Renders(args[i].text, Len(args[i].text) + 2, Bin.code)
  BY <1>4 DEF Assembled
<1> HIDE DEF Bin
<1> QED BY <1>1, <1>5 DEF Renders

(* The base of the program and where the loader is in it.                  *)
LEMMA ProgramBase ==
  ASSUME TypeOK
  PROVE  /\ Program \in Nat \ {0} /\ Base \in Nat
         /\ \A p \in 1..Program : initProgram[p] \in Nat
BY DEF TypeOK, LoaderTypeOK, Program, Base

(* A step within a program: what is below its base stays, so do the        *)
(* programs there.                                                         *)
LEMMA OnTheWay ==
  ASSUME TypeOK, LoadedSoFar, Loading, UNCHANGED assemblerVars, initProgram' = initProgram,
         Base <= memAddress',
         \A a \in Addresses : a < Base => ram'[a] = ram[a] /\ origin'[a] = origin[a],
         \A a \in Addresses : a >= memAddress' => origin'[a] = 0,
         InProgress(Bin)'
  PROVE  LoadedSoFar'
<1>1. /\ file > Len(args) /\ Program <= Len(args)
      /\ UNCHANGED <<args, file, bins>> /\ Program' = Program /\ Base' = Base
  BY DEF Loading, assemblerVars, Program, Base
<1>2. ~(file <= Len(args))
  <2>1. file \in Int /\ Len(args) \in Nat
    BY CommandLinesAssumption DEF TypeOK, AssemblerTypeOK
  <2> QED BY <1>1, <2>1
<1>3. ASSUME NEW p \in 1..(Program - 1)
      PROVE  Placed(ram', origin', initProgram[p], initProgram[p + 1], bins[args[p].name])
  <2>1. p \in 1..Program /\ p + 1 \in 1..Program
    BY ProgramBase
  <2>2. /\ initProgram[p] \in Nat /\ initProgram[p + 1] \in Nat
        /\ initProgram[p + 1] <= Base /\ Base \in Nat
    BY <2>1, ProgramBase DEF LoadedSoFar
  <2>3. IsBin(bins[args[p].name])
    <3>1. p \in 1..(file - 1)
      <4>1. file \in Int /\ Len(args) \in Nat /\ Program \in Nat
        BY CommandLinesAssumption, ProgramBase DEF TypeOK, AssemblerTypeOK
      <4> QED BY <1>1, <4>1
    <3> QED BY <3>1 DEF TypeOK, AssemblerTypeOK
  <2>4. \A a \in Addresses : a < initProgram[p + 1] => ram'[a] = ram[a] /\ origin'[a] = origin[a]
    BY <2>2 DEF Addresses
  <2>5. Placed(ram, origin, initProgram[p], initProgram[p + 1], bins[args[p].name])
    BY DEF LoadedSoFar
  <2>6. PICK base, top, bin : /\ base \in Nat /\ base = initProgram[p]
                              /\ top \in Nat /\ top = initProgram[p + 1]
                              /\ bin = bins[args[p].name]
    BY <2>2
  <2>7. Placed(ram', origin', base, top, bin)
    <3>1. IsBin(bin)
      BY <2>3, <2>6
    <3>2. Placed(ram, origin, base, top, bin)
      BY <2>5, <2>6
    <3>3. \A a \in Addresses : a < top => ram'[a] = ram[a] /\ origin'[a] = origin[a]
      BY <2>4, <2>6
    <3>4. base \in Nat /\ top \in Nat
      BY <2>6
    <3> QED BY <3>1, <3>2, <3>3, <3>4, PlacedKept, Zenon
  <2> QED BY <2>6, <2>7
<1>4. \A p \in 1..Program : initProgram[p] <= Base
  BY DEF LoadedSoFar
<1>5. Program <= Len(args) + 1
  BY DEF LoadedSoFar
<1> QED BY <1>1, <1>2, <1>3, <1>4, <1>5, Zenon DEF LoadedSoFar

LEMMA InProgressNext ==
  ASSUME NEW bin, Bin' = bin, Counts(bin)', Queued(bin.code)', Stored(bin.code)',
         LabelsKnown(bin.code)', VariablesKnown(bin)'
  PROVE  InProgress(Bin)'
BY DEF InProgress

LEMMA SameProgram ==
  ASSUME UNCHANGED assemblerVars, initProgram' = initProgram
  PROVE  Bin' = Bin /\ Base' = Base /\ Program' = Program
BY DEF assemblerVars, Bin, Base, Program

LEMMA Loads ==
  ASSUME TypeOK, LoadedSoFar, Loading PROVE InProgress(Bin) /\ IsBin(Bin)
BY BinRead DEF LoadedSoFar, Loading

(* An instruction is read: the q-th item, this one or that behind a label. *)
LEMMA PushLoaded ==
  ASSUME TypeOK, RoomKept, LoadedSoFar, ReadingCode, UNCHANGED assemblerVars,
         NEW q \in {position, position + 1}, q <= Len(Bin.code), Bin.code[q].label = NoText,
         position < q => Bin.code[position].label # NoText,
         Push(Bin.code[q]), position' = q + 1, LabelsKnown(Bin.code)'
  PROVE  LoadedSoFar'
<1> PICK bin : bin = Bin
  OBVIOUS
<1> DEFINE c == bin.code
<1>1. /\ InProgress(bin) /\ IsBin(bin) /\ position <= Len(c) /\ Loading
      /\ Bin' = bin /\ Base' = Base
  <2>1. InProgress(Bin) /\ IsBin(Bin) /\ Loading /\ position <= Len(Bin.code)
    BY Loads DEF ReadingCode
  <2>2. Bin' = Bin /\ Base' = Base
    BY SameProgram DEF Push
  <2> QED BY <2>1, <2>2
<1>2. /\ position \in Nat \ {0} /\ Base \in Nat /\ memAddress \in Nat /\ address \in Nat
      /\ instructions \in Seq(Items) /\ Len(instructions) \in Nat /\ Len(c) \in Nat
      /\ q \in Nat \ {0}
  <2>1. Len(c) \in Nat
    BY <1>1, CodeLength
  <2>2. position \in Nat \ {0}
    BY DEF TypeOK, LoaderTypeOK
  <2>3. q \in Nat \ {0}
    BY <2>2
  <2> QED BY <2>1, <2>2, <2>3, ProgramBase, Counters
<1>0. \A k \in Nat : Before(c, k) \in Nat
  BY BeforeNat
<1>3. /\ memAddress = Base
      /\ Len(instructions) = Before(c, position)
      /\ address = memAddress + Len(instructions)
  <2>1. Before(c, position) \in Nat
    BY <1>0, <1>2
  <2> QED BY <1>1, <1>2, <2>1 DEF InProgress, Counts, RoomKept
<1>4. /\ instructions' = Append(instructions, c[q]) /\ address' = address + 1
      /\ UNCHANGED <<initProgram, variableAddresses, memAddress, ram, origin>>
  BY DEF Push, image
<1>5. Before(c, q) = Before(c, position) /\ Before(c, q + 1) = Before(c, position) + 1
  <2>1. Before(c, q) = Before(c, position)
    <3>1. CASE q = position
      BY <3>1
    <3>2. CASE q = position + 1
      <4>1. Before(c, position) \in Nat /\ c[position].label # NoText
        BY <1>0, <1>2, <3>2
      <4>2. Before(c, position + 1) = Before(c, position) + 0
        BY <1>2, <4>1, BeforeNext
      <4> QED BY <3>2, <4>1, <4>2
    <3>3. q = position \/ q = position + 1
      OBVIOUS
    <3> QED BY <3>1, <3>2, <3>3
  <2> QED BY <1>2, <2>1, BeforeNext
<1>6. Len(instructions') = Len(instructions) + 1
      /\ (\A k \in 1..Len(instructions) : instructions'[k] = instructions[k])
      /\ instructions'[Len(instructions) + 1] = c[q]
  BY <1>2, <1>4
<1>7. Counts(bin)'
  BY <1>1, <1>2, <1>3, <1>4, <1>5, <1>6 DEF Counts
<1>8. Queued(c)'
  <2> SUFFICES ASSUME NEW k \in 1..q, c[k].label = NoText
               PROVE  instructions'[Before(c, k) + 1] = c[k]
    <3>1. ASSUME NEW k \in 1..q PROVE Before(c, k) \in Nat
      <4>1. k \in Nat
        BY <1>2
      <4> QED BY <1>0, <4>1
    <3>2. (q + 1) - 1 = q
      BY <1>2
    <3>3. \A k \in 1..q : Base + Before(c, k) - Base + 1 = Before(c, k) + 1
      BY <1>2, <3>1
    <3>4. /\ bin' = bin /\ c' = c /\ Base' = Base /\ memAddress' = memAddress
          /\ position' - 1 = q /\ memAddress = Base
      BY <1>1, <1>3, <1>4, <3>2
    <3> QED BY <3>3, <3>4 DEF Queued
  <2>1. CASE k < position
    <3>1. Before(c, k) < Before(c, position) /\ Before(c, k) \in Nat
      <4>1. k \in Nat \ {0} /\ k \in Nat /\ k <= position
        BY <1>2, <2>1
      <4> QED BY <1>0, <1>2, <2>1, <4>1, BeforeOrder
    <3>2. Before(c, k) + 1 \in 1..Len(instructions)
      BY <1>2, <1>3, <3>1
    <3>3. Base + Before(c, k) >= memAddress /\ Base + Before(c, k) - memAddress + 1 = Before(c, k) + 1
      BY <1>2, <1>3, <3>1
    <3>4. k \in 1..(position - 1)
      BY <1>2, <2>1
    <3>5. instructions[Before(c, k) + 1] = c[k]
      BY <1>1, <3>3, <3>4 DEF InProgress, Queued
    <3> QED BY <1>6, <3>2, <3>5
  <2>2. CASE k >= position
    <3>1. k = q
      BY <1>2, <2>2
    <3> QED BY <1>3, <1>5, <1>6, <3>1
  <2> QED BY <1>2, <2>1, <2>2
<1>9. Stored(c)'
  <2>1. \A k \in 1..q : ~(Base + Before(c, k) < memAddress)
    <3> SUFFICES ASSUME NEW k \in 1..q PROVE ~(Base + Before(c, k) < Base)
      BY <1>3
    <3>0. k \in Nat
      BY <1>2
    <3>1. Before(c, k) \in Nat
      BY <1>0, <3>0
    <3> QED BY <1>2, <3>1
  <2>2. (q + 1) - 1 = q
    BY <1>2
  <2> QED BY <1>1, <1>4, <2>1, <2>2 DEF Stored
<1>10. VariablesKnown(bin)'
  BY <1>1, <1>4 DEF InProgress, VariablesKnown
<1>11. InProgress(Bin)'
  BY <1>1, <1>7, <1>8, <1>9, <1>10, InProgressNext
<1>12. \A a \in Addresses : a >= memAddress => origin[a] = 0
  BY DEF LoadedSoFar
<1> QED BY <1>1, <1>2, <1>3, <1>4, <1>11, <1>12, OnTheWay


LEMMA LastLabelOn ==
  ASSUME NEW code, NEW n, NEW p \in Nat \ {0}, NEW p2 \in Nat, NEW k, p <= p2,
         LastLabel(code, n, p, k), \A m \in p..(p2 - 1) : code[m].label # n
  PROVE  LastLabel(code, n, p2, k)
<1>1. k \in 1..(p - 1) /\ code[k].label = n /\ \A m \in (k + 1)..(p - 1) : code[m].label # n
  BY DEF LastLabel
<1>2. k \in 1..(p2 - 1)
  BY <1>1
<1>3. ASSUME NEW m \in (k + 1)..(p2 - 1) PROVE code[m].label # n
  <2>1. m \in (k + 1)..(p - 1) \/ m \in p..(p2 - 1)
    BY <1>1
  <2> QED BY <1>1, <2>1
<1> QED BY <1>1, <1>2, <1>3 DEF LastLabel

LEMMA LabelsNext ==
  ASSUME NEW bin, Bin' = bin, LabelsKnown(bin.code)' PROVE LabelsKnown(Bin.code)'
OBVIOUS

LEMMA InstructionLoaded ==
  ASSUME TypeOK, RoomKept, LoadedSoFar, LoadInstruction, UNCHANGED assemblerVars
  PROVE  LoadedSoFar'
<1> PICK bin : bin = Bin
  OBVIOUS
<1> DEFINE c == bin.code
<1>1. /\ ReadingCode /\ position <= Len(c) /\ c[position].label = NoText
      /\ Push(c[position]) /\ position' = position + 1 /\ labelAddresses' = labelAddresses
  BY DEF LoadInstruction, ReadingCode
<1>2. /\ LabelsKnown(c) /\ Bin' = bin /\ Base' = Base /\ position \in Nat \ {0}
  <2>1. Bin' = Bin /\ Base' = Base
    BY <1>1, SameProgram DEF Push
  <2>2. LabelsKnown(Bin.code)
    BY <1>1, Loads DEF InProgress, ReadingCode
  <2> QED BY <2>1, <2>2 DEF TypeOK, LoaderTypeOK
<1>3. LabelsKnown(c)'
  <2>0. (position + 1) - 1 = position /\ \A k \in 1..position : k \in 1..(position - 1) \/ k = position
    BY <1>2
  <2>1. ASSUME NEW k \in 1..position, c[k].label # NoText
        PROVE  c[k].label \in DOMAIN labelAddresses \ LongNames
    BY <1>1, <1>2, <2>0, <2>1 DEF LabelsKnown
  <2>2. ASSUME NEW n \in DOMAIN labelAddresses
        PROVE  n # NoText /\ \E k \in 1..position :
                 LastLabel(c, n, position + 1, k) /\ labelAddresses[n] = Base + Before(c, k)
    <3>1. PICK k \in 1..(position - 1) :
            LastLabel(c, n, position, k) /\ labelAddresses[n] = Base + Before(c, k)
      BY <1>2 DEF LabelsKnown
    <3>2. n # NoText
      BY <1>2 DEF LabelsKnown
    <3>3. \A m \in position..((position + 1) - 1) : c[m].label # n
      BY <1>1, <1>2, <3>2
    <3>4. LastLabel(c, n, position + 1, k)
      BY <1>2, <3>1, <3>3, LastLabelOn
    <3>5. k \in 1..position
      BY <1>2
    <3> QED BY <3>1, <3>2, <3>4, <3>5
  <2> QED BY <1>1, <1>2, <2>0, <2>1, <2>2 DEF LabelsKnown
<1>4. LabelsKnown(Bin.code)'
  BY <1>2, <1>3, LabelsNext
<1> QED BY <1>1, <1>2, <1>4, PushLoaded

(* What only stops the loader leaves what it knows.                        *)
LEMMA AbortLoaded ==
  ASSUME LoadedSoFar, file > Len(args), TypeOK, Abort, UNCHANGED assemblerVars PROVE LoadedSoFar'
<1>1. /\ UNCHANGED <<args, file, bins>>
      /\ UNCHANGED <<initProgram, position, labelAddresses, variableAddresses, instructions,
                     address, memAddress, ram, origin, written>>
  BY DEF Abort, placing, image, assemblerVars
<1>2. ~(file <= Len(args))
  <2>1. file \in Int /\ Len(args) \in Nat
    BY CommandLinesAssumption DEF TypeOK, AssemblerTypeOK
  <2> QED BY <2>1
<1>3. Bin' = Bin /\ Base' = Base /\ Program' = Program
  BY <1>1 DEF Bin, Base, Program
<1>4. Program <= Len(args) => InProgress(Bin)'
  BY <1>1, <1>3 DEF LoadedSoFar, InProgress, Counts, Queued, Stored, LabelsKnown, VariablesKnown, Resolved
<1> QED BY <1>1, <1>2, <1>3, <1>4 DEF LoadedSoFar

LEMMA LabelLoaded ==
  ASSUME TypeOK, RoomKept, AssembledSoFar, LoadedSoFar, LoadLabel, UNCHANGED assemblerVars
  PROVE  LoadedSoFar'
<1> PICK bin : bin = Bin
  OBVIOUS
<1> DEFINE c == bin.code
           n == c[position].label
<1>1. ReadingCode /\ Loading /\ position <= Len(c) /\ n # NoText
  BY DEF LoadLabel, AtLabel, ReadingCode
<1>2. CASE Abort
  BY <1>1, <1>2, AbortLoaded DEF Loading
<1>3. CASE n \notin LongNames /\ DefineLabel(address)
  <2>1. /\ Push(c[position + 1]) /\ position' = (position + 1) + 1
        /\ labelAddresses' = Put(labelAddresses, n, address)
        /\ position \in Nat \ {0}
    BY <1>3 DEF DefineLabel, TypeOK, LoaderTypeOK
  <2>2. LabelsKnown(c) /\ Bin' = bin /\ Base' = Base /\ Counts(bin) /\ IsBin(bin)
    <3>1. Bin' = Bin /\ Base' = Base
      BY <2>1, SameProgram DEF Push
    <3>2. LabelsKnown(Bin.code) /\ Counts(Bin) /\ IsBin(Bin)
      BY <1>1, Loads DEF InProgress
    <3> QED BY <3>1, <3>2
  <2>3. position + 1 <= Len(c) /\ c[position + 1].label = NoText
    <3>1. position + 1 \in 1..Len(c)
      BY BehindLabel DEF LoadLabel
    <3>2. Len(c) \in Nat /\ DOMAIN c = 1..Len(c)
      BY <2>2, CodeLength
    <3>3. position \in DOMAIN c /\ position < Len(c) /\ position + 1 <= Len(c)
      BY <2>1, <3>1, <3>2
    <3> QED BY <1>1, <3>3, BinMade
  <2>4. address = Base + Before(c, position)
    <3>1. address = memAddress + Len(instructions)
      BY <1>1 DEF RoomKept
    <3> QED BY <2>2, <3>1 DEF Counts
  <2>5. LabelsKnown(c)'
    <3>0. /\ ((position + 1) + 1) - 1 = position + 1
          /\ \A k \in 1..(position + 1) : k \in 1..(position - 1) \/ k = position \/ k = position + 1
      BY <2>1
    <3>1. ASSUME NEW k \in 1..(position + 1), c[k].label # NoText
          PROVE  c[k].label \in (DOMAIN labelAddresses \cup {n}) \ LongNames
      BY <1>3, <2>2, <2>3, <3>0, <3>1 DEF LabelsKnown
    <3>2. ASSUME NEW x \in DOMAIN labelAddresses, x # n
          PROVE  x # NoText /\ \E k \in 1..(position + 1) :
                   LastLabel(c, x, (position + 1) + 1, k) /\ labelAddresses[x] = Base + Before(c, k)
      <4>1. PICK k \in 1..(position - 1) :
              LastLabel(c, x, position, k) /\ labelAddresses[x] = Base + Before(c, k)
        BY <2>2 DEF LabelsKnown
      <4>2. x # NoText
        BY <2>2 DEF LabelsKnown
      <4>3. \A m \in position..(((position + 1) + 1) - 1) : c[m].label # x
        BY <2>1, <2>3, <3>2, <4>2
      <4>4. LastLabel(c, x, (position + 1) + 1, k)
        BY <2>1, <4>1, <4>3, LastLabelOn
      <4>5. k \in 1..(position + 1)
        BY <2>1
      <4> QED BY <4>1, <4>2, <4>4, <4>5
    <3>3. LastLabel(c, n, (position + 1) + 1, position) /\ position \in 1..(position + 1)
      BY <1>1, <2>1, <2>3 DEF LastLabel
    <3>4. /\ DOMAIN labelAddresses' = DOMAIN labelAddresses \cup {n}
          /\ labelAddresses'[n] = address
          /\ \A x \in DOMAIN labelAddresses : x # n => labelAddresses'[x] = labelAddresses[x]
      BY <2>1 DEF Put
    <3> HIDE DEF c, n
    <3> QED BY <1>1, <2>1, <2>2, <2>4, <3>0, <3>1, <3>2, <3>3, <3>4 DEF LabelsKnown
  <2>6. LabelsKnown(Bin.code)'
    BY <2>2, <2>5, LabelsNext
  <2> QED BY <1>1, <2>1, <2>3, <2>6, PushLoaded
<1> QED BY <1>2, <1>3 DEF LoadLabel, padNameThrows


(* Until all variables are read, no code is stored.                        *)
LEMMA VariableLoaded ==
  ASSUME TypeOK, RoomKept, LoadedSoFar, LoadVariable, UNCHANGED assemblerVars
  PROVE  LoadedSoFar'
<1> PICK v \in Unread :
      IF Stops(v) THEN Abort
      ELSE LET values == Bin.data[v]
               place == address..(address + Len(values) - 1) IN
           /\ variableAddresses' = Put(variableAddresses, v, address)
           /\ address' = address + Len(values)
           /\ ram' = [a \in Addresses |->
                        IF a \in place THEN IntBits(values[a - address + 1]) ELSE ram[a]]
           /\ written' = written \cup place
           /\ UNCHANGED <<initProgram, position, labelAddresses, instructions,
                          memAddress, origin, aborted>>
  BY DEF LoadVariable
<1>1. ReadingData /\ Loading /\ file > Len(args)
  BY DEF LoadVariable, ReadingData, Loading
<1>2. CASE Stops(v)
  BY <1>1, <1>2, AbortLoaded
<1>3. CASE ~Stops(v)
  <2> PICK bin, values : bin = Bin /\ values = bin.data[v]
    OBVIOUS
  <2> DEFINE n == Len(values)
  <2>1. /\ variableAddresses' = Put(variableAddresses, v, address)
        /\ address' = address + n
        /\ ram' = [a \in Addresses |->
                     IF a \in address..(address + n - 1) THEN IntBits(values[a - address + 1])
                     ELSE ram[a]]
        /\ UNCHANGED <<initProgram, position, labelAddresses, instructions, memAddress, origin>>
    BY <1>3
  <2>2. /\ InProgress(bin) /\ Bin' = bin /\ Base' = Base
        /\ Counts(bin) /\ Queued(bin.code) /\ LabelsKnown(bin.code) /\ VariablesKnown(bin)
    <3>1. Bin' = bin /\ Base' = Base
      BY <2>1, SameProgram
    <3>2. InProgress(bin)
      BY <1>1, Loads
    <3> QED BY <3>1, <3>2 DEF InProgress
  <2>3. /\ values \in Seq(Numbers) /\ values # <<>> /\ v \notin LongNames
        /\ n \in Nat /\ DOMAIN values = 1..n /\ address + n <= MemorySize
    <3>1. values \in Seq(Numbers)
      BY <1>1, VariableRead
    <3>2. values # <<>> /\ v \notin LongNames /\ ~(address + n > MemorySize)
      BY <1>3 DEF Stops, padNameThrows
    <3>3. n \in Nat /\ DOMAIN values = 1..n
      BY <3>1
    <3> HIDE DEF n
    <3> QED BY <3>1, <3>2, <3>3, Counters, MemorySizeAssumption
  <2>4. /\ position \in Nat /\ Base \in Nat /\ memAddress \in Nat /\ address \in Nat
        /\ Len(instructions) \in Nat
        /\ \A x \in DOMAIN variableAddresses : variableAddresses[x] \in Nat
    BY ProgramBase, Counters DEF TypeOK, LoaderTypeOK, IsTable
  <2>5. /\ v \in DOMAIN bin.data /\ v \notin DOMAIN variableAddresses
        /\ position > Len(bin.code) /\ Len(bin.code) \in Nat
    <3>1. Len(bin.code) \in Nat
      BY <1>1, Loads, CodeLength
    <3> QED BY <1>1, <3>1 DEF Unread, ReadingData
  <2>6. memAddress = Base
    BY <2>2, <2>5 DEF Counts
  <2>7. /\ DOMAIN variableAddresses' = DOMAIN variableAddresses \cup {v}
        /\ variableAddresses'[v] = address
        /\ \A x \in DOMAIN variableAddresses : variableAddresses'[x] = variableAddresses[x]
    BY <2>1, <2>5 DEF Put
  <2> HIDE DEF n
  <2>8. \A a \in Addresses : a < address => ram'[a] = ram[a]
    BY <2>1, <2>4 DEF Addresses
  <2>9. Counts(bin)'
    BY <2>1, <2>2, <2>3, <2>4, <2>6 DEF Counts
  <2>10. Queued(bin.code)' /\ LabelsKnown(bin.code)'
    BY <2>1, <2>2 DEF Queued, LabelsKnown
  <2>11. Stored(bin.code)'
    <3>1. \A k \in 1..(position - 1) : Before(bin.code, k) \in Nat
      <4> SUFFICES ASSUME NEW k \in 1..(position - 1) PROVE Before(bin.code, k) \in Nat
        OBVIOUS
      <4>1. k \in Nat
        BY <2>4
      <4> QED BY <4>1, BeforeNat
    <3>2. \A k \in 1..(position - 1) : ~(Base + Before(bin.code, k) < memAddress)
      BY <2>4, <2>6, <3>1
    <3> QED BY <2>1, <2>2, <3>2 DEF Stored
  <2> DEFINE from == memAddress + Len(instructions)
  <2>12. from <= address /\ from \in Nat
    BY <2>2, <2>4 DEF Counts
  <2>13. HasValues(ram', values, address, from, address + n)
    <3>1. \A a \in Addresses : a \in address..(address + n - 1) =>
            ram'[a] = IntBits(values[a - address + 1])
      BY <2>1
    <3> HIDE DEF from
    <3> QED BY <2>3, <2>4, <2>12, <3>1, HasValuesNew DEF n
  <2>14. VariablesKnown(bin)'
    <3>1. ASSUME NEW x \in DOMAIN variableAddresses
          PROVE  /\ x \in DOMAIN bin.data \ LongNames /\ bin.data[x] # <<>>
                 /\ HasValues(ram', bin.data[x], variableAddresses[x], from, address + n)
      <4>1. x \in DOMAIN bin.data \ LongNames /\ bin.data[x] # <<>>
            /\ HasValues(ram, bin.data[x], variableAddresses[x], from, address)
        BY <2>2 DEF VariablesKnown
      <4>2. \A a \in Addresses : a >= from /\ a < address => ram'[a] = ram[a]
        BY <2>8
      <4>3. /\ variableAddresses[x] \in Nat /\ from \in Int /\ address \in Int
            /\ address + n \in Int /\ from <= from /\ address <= address + n
        BY <2>3, <2>4, <2>12
      <4> HIDE DEF from
      <4>4. HasValues(ram', bin.data[x], variableAddresses[x], from, address + n)
        BY <4>1, <4>2, <4>3, HasValuesKept
      <4> QED BY <4>1, <4>4
    <3>2. v \in DOMAIN bin.data \ LongNames /\ bin.data[v] # <<>>
          /\ HasValues(ram', bin.data[v], address, from, address + n)
      BY <2>3, <2>5, <2>13
    <3>3. from' = from
      BY <2>1
    <3>4. ASSUME NEW x \in DOMAIN variableAddresses'
          PROVE  /\ x \in DOMAIN bin.data \ LongNames /\ bin.data[x] # <<>>
                 /\ HasValues(ram', bin.data[x], variableAddresses'[x], from', address')
      <4>1. CASE x = v
        BY <2>1, <2>7, <3>2, <3>3, <4>1
      <4>2. CASE x \in DOMAIN variableAddresses
        BY <2>1, <2>7, <3>1, <3>3, <4>2
      <4> QED BY <2>7, <4>1, <4>2
    <3>5. ~(position' <= Len(bin.code))
      BY <2>1, <2>4, <2>5
    <3> QED BY <3>4, <3>5 DEF VariablesKnown
  <2>15. InProgress(Bin)'
    BY <2>2, <2>9, <2>10, <2>11, <2>14, InProgressNext
  <2>16. \A a \in Addresses : a < Base => ram'[a] = ram[a] /\ origin'[a] = origin[a]
    <3>1. Base <= address
      BY <2>4, <2>6, <2>12
    <3> QED BY <2>1, <2>4, <2>8, <3>1 DEF Addresses
  <2>17. Base <= memAddress' /\ \A a \in Addresses : a >= memAddress' => origin'[a] = 0
    BY <2>1, <2>4, <2>6 DEF LoadedSoFar
  <2> QED BY <1>1, <2>1, <2>15, <2>16, <2>17, OnTheWay
<1> QED BY <1>2, <1>3


LEMMA ResolvedSame ==
  ASSUME UNCHANGED <<labelAddresses, variableAddresses>>, NEW item
  PROVE  Resolved(item)' = Resolved(item)
BY DEF Resolved

LEMMA StoreLoaded ==
  ASSUME TypeOK, RoomKept, LoadedSoFar, LoadStore, UNCHANGED assemblerVars
  PROVE  LoadedSoFar'
<1> PICK bin : bin = Bin
  OBVIOUS
<1> DEFINE c == bin.code
           n == Len(instructions)
<1>1. /\ Loading /\ position > Len(c) /\ DOMAIN bin.data \subseteq DOMAIN variableAddresses
      /\ instructions # <<>> /\ instructions' = Tail(instructions) /\ memAddress' = memAddress + 1
      /\ UNCHANGED <<initProgram, position, labelAddresses, variableAddresses, address>>
  BY DEF LoadStore, Storing, Unread
<1>2. /\ Bin' = bin /\ Base' = Base /\ IsBin(bin)
      /\ Counts(bin) /\ Queued(c) /\ Stored(c) /\ LabelsKnown(c) /\ VariablesKnown(bin)
  <2>1. Bin' = bin /\ Base' = Base
    BY <1>1, SameProgram
  <2>2. InProgress(bin) /\ IsBin(bin)
    BY <1>1, Loads
  <2> QED BY <2>1, <2>2 DEF InProgress
<1>3. /\ position \in Nat /\ Base \in Nat /\ memAddress \in Nat /\ address \in Nat
      /\ n \in Nat \ {0} /\ Len(c) \in Nat /\ instructions \in Seq(Items)
      /\ \A x \in DOMAIN variableAddresses : variableAddresses[x] \in Nat
      /\ ram \in [Addresses -> Words] /\ origin \in [Addresses -> Nat]
  <2>1. n \in Nat \ {0}
    BY <1>1, Counters
  <2>2. Len(c) \in Nat
    BY <1>2, CodeLength
  <2> HIDE DEF n
  <2> QED BY <2>1, <2>2, ProgramBase, Counters DEF TypeOK, LoaderTypeOK, IsTable
<1>4. ASSUME NEW k \in 1..(position - 1)
      PROVE  /\ Before(c, k) \in Nat
             /\ c[k].label = NoText => Base + Before(c, k) < memAddress + n
  <2>1. k \in Nat \ {0} /\ k \in Nat /\ k < position /\ k <= position
    BY <1>3
  <2>2. Before(c, k) \in Nat /\ Before(c, position) \in Nat
    BY <1>3, <2>1, BeforeNat
  <2>3. c[k].label = NoText => Before(c, k) < Before(c, position)
    BY <1>3, <2>1, BeforeOrder
  <2>4. memAddress + n = Base + Before(c, position)
    BY <1>2 DEF Counts
  <2> HIDE DEF n, c
  <2> QED BY <1>3, <2>2, <2>3, <2>4
<1>5. /\ Len(instructions') = n - 1
      /\ \A k \in 1..(n - 1) : instructions'[k] = instructions[k + 1]
      /\ Head(instructions) = instructions[1]
  BY <1>1, <1>3
<1>6. /\ memAddress \in Addresses =>
           ram'[memAddress] = Resolved(instructions[1]) /\ origin'[memAddress] = instructions[1].line
      /\ \A a \in Addresses : a # memAddress => ram'[a] = ram[a] /\ origin'[a] = origin[a]
  <2>1. CASE memAddress \in Addresses
    BY <1>3, <1>5, <2>1 DEF LoadStore
  <2>2. CASE memAddress \notin Addresses
    BY <2>2 DEF LoadStore, image
  <2> QED BY <2>1, <2>2
<1> HIDE DEF n
<1>7. memAddress' + Len(instructions') = memAddress + n /\ memAddress + n <= address
  <2>1. memAddress + n <= address
    BY <1>2 DEF Counts, n
  <2> QED BY <1>1, <1>3, <1>5, <2>1
<1>8. Counts(bin)'
  <2>1. /\ position <= Len(c) + 1 /\ Base <= memAddress
        /\ memAddress + n = Base + Before(c, position)
    BY <1>2 DEF Counts, n
  <2>2. Base <= memAddress + 1
    BY <1>3, <2>1
  <2> QED BY <1>1, <1>2, <1>7, <2>1, <2>2 DEF Counts
<1>9. Queued(c)'
  <2> SUFFICES ASSUME NEW k \in 1..(position - 1), c[k].label = NoText,
                      Base + Before(c, k) >= memAddress + 1
               PROVE  instructions'[Base + Before(c, k) - (memAddress + 1) + 1] = c[k]
    BY <1>1, <1>2 DEF Queued
  <2>1. Before(c, k) \in Nat /\ Base + Before(c, k) < memAddress + n
    BY <1>4
  <2>2. PICK x \in Nat : x = Base + Before(c, k) - memAddress
    BY <1>3, <2>1
  <2>3. x \in 1..(n - 1) /\ Base + Before(c, k) - (memAddress + 1) + 1 = x
    BY <1>3, <2>1, <2>2
  <2>4. instructions[x + 1] = c[k]
    <3>1. Base + Before(c, k) >= memAddress
      BY <1>3, <2>1
    <3> QED BY <1>2, <2>2, <3>1 DEF Queued
  <2> QED BY <1>5, <2>3, <2>4
<1>10. Stored(c)'
  <2> SUFFICES ASSUME NEW k \in 1..(position - 1), c[k].label = NoText,
                      Base + Before(c, k) < memAddress + 1, Base + Before(c, k) \in Addresses
               PROVE  /\ origin'[Base + Before(c, k)] = c[k].line
                      /\ ram'[Base + Before(c, k)] = Resolved(c[k])
    <3>1. \A item : Resolved(item)' = Resolved(item)
      BY <1>1, ResolvedSame
    <3> QED BY <1>1, <1>2, <3>1 DEF Stored
  <2> PICK a \in Nat : a = Base + Before(c, k)
    BY <1>3, <1>4
  <2>1. CASE a = memAddress
    <3>1. Base + Before(c, k) >= memAddress /\ Base + Before(c, k) - memAddress + 1 = 1
      BY <1>3, <1>4, <2>1
    <3>2. instructions[1] = c[k]
      BY <1>2, <3>1 DEF Queued
    <3> QED BY <1>6, <2>1, <3>2
  <2>2. CASE a # memAddress
    <3>1. a < memAddress
      BY <1>3, <2>2
    <3>2. origin[a] = c[k].line /\ ram[a] = Resolved(c[k])
      BY <1>2, <3>1 DEF Stored
    <3> QED BY <1>6, <2>2, <3>2
  <2> QED BY <2>1, <2>2
<1>11. LabelsKnown(c)'
  BY <1>1, <1>2 DEF LabelsKnown
<1>12. VariablesKnown(bin)'
  <2> DEFINE from == memAddress + n
  <2>1. ASSUME NEW x \in DOMAIN variableAddresses
        PROVE  /\ x \in DOMAIN bin.data \ LongNames /\ bin.data[x] # <<>>
               /\ HasValues(ram', bin.data[x], variableAddresses[x], from, address)
    <3>1. x \in DOMAIN bin.data \ LongNames /\ bin.data[x] # <<>>
          /\ HasValues(ram, bin.data[x], variableAddresses[x], from, address)
      BY <1>2 DEF VariablesKnown, n
    <3>2. \A a \in Addresses : a >= from /\ a < address => ram'[a] = ram[a]
      <4>1. \A a \in Addresses : a >= from => a # memAddress
        BY <1>3 DEF Addresses
      <4> HIDE DEF from
      <4> QED BY <1>6, <4>1
    <3>3. /\ variableAddresses[x] \in Nat /\ from \in Int /\ address \in Int
          /\ from <= from /\ address <= address
      BY <1>3
    <3> HIDE DEF from
    <3>4. HasValues(ram', bin.data[x], variableAddresses[x], from, address)
      BY <3>1, <3>2, <3>3, HasValuesKept
    <3> QED BY <3>1, <3>4
  <2>2. ~(position <= Len(c))
    BY <1>1, <1>3
  <2> QED BY <1>1, <1>7, <2>1, <2>2 DEF VariablesKnown
<1>13. InProgress(Bin)'
  BY <1>2, <1>8, <1>9, <1>10, <1>11, <1>12, InProgressNext
<1>14. Base <= memAddress
  BY <1>2 DEF Counts
<1>15. \A a \in Addresses : a < Base => ram'[a] = ram[a] /\ origin'[a] = origin[a]
  BY <1>3, <1>6, <1>14 DEF Addresses
<1>16. \A a \in Addresses : a >= memAddress' => origin'[a] = 0
  <2>1. \A a \in Addresses : a >= memAddress => origin[a] = 0
    BY DEF LoadedSoFar
  <2>2. \A a \in Addresses : a >= memAddress + 1 => a >= memAddress /\ a # memAddress
    BY <1>3 DEF Addresses
  <2> QED BY <1>1, <1>6, <2>1, <2>2
<1>17. Base <= memAddress'
  BY <1>1, <1>3, <1>14
<1> QED BY <1>1, <1>13, <1>15, <1>16, <1>17, OnTheWay


LEMMA NothingMore == \A n \in Nat : n + 0 = n /\ n <= n
OBVIOUS

(* A program begins: nothing of it is known.                               *)
LEMMA ProgramBegins ==
  ASSUME NEW bin, Bin' = bin, IsBin(bin), Base' \in Nat, position' = 1,
         labelAddresses' = <<>>, variableAddresses' = <<>>, instructions' = <<>>,
         address' = Base', memAddress' = Base'
  PROVE  InProgress(Bin)'
<1>1. Len(bin.code) \in Nat /\ Before(bin.code, 1) = 0 /\ 1 - 1 = 0
  BY CodeLength, BeforeFirst
<1>2. 1..(1 - 1) = {} /\ DOMAIN <<>> = {} /\ Len(<<>>) = 0
  OBVIOUS
<1>3. Counts(bin)'
  <2> PICK b \in Nat : b = Base'
    OBVIOUS
  <2>0. 1 <= Len(bin.code) + 1
    BY <1>1
  <2>1. b + 0 = b /\ b <= b
    BY NothingMore, Zenon
  <2>2. Before(bin.code, position') = 0 /\ Len(instructions') = 0
    BY <1>1, <1>2, Zenon
  <2>3. memAddress' + Len(instructions') = Base' + Before(bin.code, position')
        /\ memAddress' + Len(instructions') <= address' /\ Base' <= memAddress'
    BY <2>1, <2>2, Zenon
  <2> QED BY <2>0, <2>3, Zenon DEF Counts
<1>4. Queued(bin.code)' /\ Stored(bin.code)' /\ LabelsKnown(bin.code)'
  BY <1>2 DEF Queued, Stored, LabelsKnown
<1>5. VariablesKnown(bin)'
  BY <1>2 DEF VariablesKnown
<1> QED BY <1>3, <1>4, <1>5, InProgressNext

(* Two last labels are one.                                                *)
LEMMA LastLabelOne ==
  ASSUME NEW code, NEW n, NEW p \in Nat, NEW k, NEW m,
         LastLabel(code, n, p, k), LastLabel(code, n, p, m)
  PROVE  k = m
<1>1. k \in 1..(p - 1) /\ m \in 1..(p - 1)
  BY DEF LastLabel
<1>2. ~(k < m) /\ ~(m < k)
  <2>1. k < m => m \in (k + 1)..(p - 1)
    BY <1>1
  <2>2. m < k => k \in (m + 1)..(p - 1)
    BY <1>1
  <2> QED BY <2>1, <2>2 DEF LastLabel
<1> QED BY <1>1, <1>2

(* The tables of a program that is read have for every symbol what it is   *)
(* to be linked to.                                                        *)
LEMMA ResolvedLinked ==
  ASSUME TypeOK, NEW bin, IsBin(bin), NEW item, position = Len(bin.code) + 1,
         LabelsKnown(bin.code), VariablesKnown(bin),
         DOMAIN bin.data \subseteq DOMAIN variableAddresses, Len(instructions) = 0
  PROVE  Linked(ram, item, Resolved(item), bin, Base, memAddress, address)
<1> DEFINE c == bin.code
           n == item.sym
<1>0. Len(c) \in Nat /\ DOMAIN c = 1..Len(c) /\ (Len(c) + 1) - 1 = Len(c)
  BY CodeLength
<1>1. n = NoText => Resolved(item) = item.bits
  BY DEF Resolved
<1>2. ASSUME n # NoText, NEW m \in DOMAIN c, LastLabel(c, n, Len(c) + 1, m)
      PROVE  Resolved(item) = Pointing(item, Base + Before(c, m))
  <2>1. c[m].label = n /\ m \in 1..(position - 1)
    BY <1>2 DEF LastLabel
  <2>2. n \in DOMAIN labelAddresses
    BY <1>2, <2>1 DEF LabelsKnown
  <2>3. PICK k \in 1..(position - 1) :
          LastLabel(c, n, position, k) /\ labelAddresses[n] = Base + Before(c, k)
    BY <2>2 DEF LabelsKnown
  <2>4. k = m
    BY <1>0, <1>2, <2>3, LastLabelOne
  <2> HIDE DEF c
  <2> QED BY <1>2, <2>2, <2>3, <2>4 DEF Resolved, Pointing
<1>3. ASSUME n \in DOMAIN bin.data, n # NoText, \A m \in DOMAIN c : c[m].label # n
      PROVE  \E b \in Addresses : /\ Resolved(item) = Pointing(item, b)
                                  /\ HasValues(ram, bin.data[n], b, memAddress, address)
  <2>1. n \notin DOMAIN labelAddresses
    <3> SUFFICES ASSUME n \in DOMAIN labelAddresses PROVE FALSE
      OBVIOUS
    <3>1. PICK k \in 1..(position - 1) : LastLabel(c, n, position, k)
      BY DEF LabelsKnown
    <3> QED BY <1>0, <1>3, <3>1 DEF LastLabel
  <2>2. n \in DOMAIN variableAddresses
    BY <1>3
  <2>3. Resolved(item) = Pointing(item, variableAddresses[n])
    BY <1>3, <2>1, <2>2 DEF Resolved, Pointing
  <2>4. /\ bin.data[n] # <<>> /\ bin.data[n] \in Seq(Numbers)
        /\ HasValues(ram, bin.data[n], variableAddresses[n], memAddress + Len(instructions), address)
    BY <1>3, <2>2 DEF VariablesKnown, IsBin, IsTable
  <2>5. PICK values, b : values = bin.data[n] /\ b = variableAddresses[n]
    OBVIOUS
  <2>6. b \in Nat /\ HasValues(ram, values, b, memAddress, address)
    <3>1. memAddress + Len(instructions) = memAddress
      BY Counters
    <3> QED BY <2>2, <2>4, <2>5, <3>1 DEF TypeOK, LoaderTypeOK, IsTable
  <2>7. b \in Addresses
    <3>1. 1 \in DOMAIN values
      BY <2>4, <2>5
    <3>2. b + 1 - 1 \in Addresses
      BY <2>6, <3>1 DEF HasValues
    <3> QED BY <2>6, <3>2
  <2> QED BY <2>3, <2>5, <2>6, <2>7, Zenon
<1> HIDE DEF c
<1> QED BY <1>1, <1>2, <1>3 DEF Linked, c


(* What is read and stored is placed.                                      *)
LEMMA ProgramPlaced ==
  ASSUME TypeOK, LoadedSoFar, Storing, Len(instructions) = 0
  PROVE  Placed(ram, origin, Base, address + 1, Bin)
<1> PICK bin : bin = Bin
  OBVIOUS
<1> DEFINE c == bin.code
           end == Base + Before(c, Len(c) + 1)
<1>1. /\ Loading /\ position > Len(c) /\ DOMAIN bin.data \subseteq DOMAIN variableAddresses
  BY DEF Storing, Unread
<1>2. /\ IsBin(bin) /\ Counts(bin) /\ Stored(c) /\ LabelsKnown(c) /\ VariablesKnown(bin)
  BY <1>1, Loads DEF InProgress
<1>3. /\ position \in Nat /\ Base \in Nat /\ memAddress \in Nat /\ address \in Nat
      /\ Len(c) \in Nat /\ DOMAIN c = 1..Len(c)
  <2>1. Len(c) \in Nat /\ DOMAIN c = 1..Len(c)
    BY <1>2, CodeLength
  <2> QED BY <2>1, ProgramBase, Counters DEF TypeOK, LoaderTypeOK
<1>4. position = Len(c) + 1
  <2>1. position <= Len(c) + 1
    BY <1>2 DEF Counts
  <2> PICK n \in Nat : n = Len(c)
    BY <1>3
  <2> QED BY <1>1, <1>3, <2>1
<1>5. memAddress = end /\ end <= address /\ end < address + 1
  <2>1. memAddress + 0 = Base + Before(c, Len(c) + 1) /\ memAddress + 0 <= address
    BY <1>2, <1>4 DEF Counts
  <2> HIDE DEF end
  <2>2. memAddress = end
    BY <1>3, <2>1 DEF end
  <2> QED BY <1>3, <2>1, <2>2
<1>6. ASSUME NEW k \in DOMAIN c, c[k].label # NoText PROVE c[k].label \notin LongNames
  <2>1. k \in 1..(position - 1)
    BY <1>3, <1>4
  <2> QED BY <1>2, <1>6, <2>1 DEF LabelsKnown
<1>7. \A v \in DOMAIN bin.data : v \notin LongNames /\ bin.data[v] # <<>>
  BY <1>1, <1>2 DEF VariablesKnown
<1>8. \A a \in Addresses : a >= end /\ a < address + 1 => origin[a] = 0
  BY <1>5 DEF LoadedSoFar
<1>9. ASSUME address + 1 <= MemorySize + 1, NEW k \in DOMAIN c, c[k].label = NoText
      PROVE  /\ origin[Base + Before(c, k)] = c[k].line
             /\ Linked(ram, c[k], ram[Base + Before(c, k)], bin, Base, end, (address + 1) - 1)
  <2>1. k \in 1..(position - 1) /\ k \in Nat \ {0} /\ Len(c) + 1 \in Nat /\ k < Len(c) + 1
    BY <1>3, <1>4
  <2>2. Before(c, k) < Before(c, Len(c) + 1)
    BY <1>9, <2>1, BeforeOrder
  <2>3. Before(c, k) \in Nat /\ Before(c, Len(c) + 1) \in Nat
    BY <2>1, BeforeNat
  <2> PICK a \in Nat, m \in Nat : a = Base + Before(c, k) /\ m = Before(c, Len(c) + 1)
    BY <1>3, <2>3
  <2>4. a < memAddress /\ a \in Addresses
    BY <1>3, <1>5, <1>9, <2>2, <2>3, MemorySizeAssumption DEF Addresses
  <2>5. origin[a] = c[k].line /\ ram[a] = Resolved(c[k])
    BY <1>2, <1>9, <2>1, <2>4 DEF Stored
  <2>6. (address + 1) - 1 = address
    BY <1>3
  <2>7. Linked(ram, c[k], Resolved(c[k]), bin, Base, memAddress, address)
    BY <1>1, <1>2, <1>4, ResolvedLinked
  <2> QED BY <1>5, <2>5, <2>6, <2>7
<1>10. \A k \in DOMAIN c : c[k].label # NoText => c[k].label \notin LongNames
  BY <1>6
<1> HIDE DEF c
<1> QED BY <1>5, <1>10, <1>7, <1>8, <1>9, Zenon DEF Placed, c

LEMMA ReturnLoaded ==
  ASSUME TypeOK, RoomKept, LoadedSoFar, LoadReturn, UNCHANGED assemblerVars
  PROVE  LoadedSoFar'
<1>1. /\ Storing /\ Loading /\ instructions = <<>>
      /\ initProgram' = Append(initProgram, address + 1)
      /\ UNCHANGED <<args, file, bins, instructions, ram, origin>>
      /\ address' = address + 1 /\ memAddress' = address + 1 /\ position' = 1
      /\ labelAddresses' = <<>> /\ variableAddresses' = <<>>
  BY DEF LoadReturn, NextProgram, Storing, image, assemblerVars
<1>2. file > Len(args) /\ Program <= Len(args) /\ ~(file <= Len(args))
      /\ Len(args) \in Nat /\ file \in Nat
  <2>1. file \in Nat /\ Len(args) \in Nat
    BY CommandLinesAssumption DEF TypeOK, AssemblerTypeOK
  <2> QED BY <1>1, <2>1 DEF Loading
<1>3. /\ Program' = Program + 1
      /\ \A p \in 1..Program : initProgram'[p] = initProgram[p]
      /\ Base' = address + 1 /\ initProgram'[Program + 1] = address + 1
  <2>1. initProgram \in Seq(Nat) /\ address + 1 \in Nat
    BY Counters DEF TypeOK, LoaderTypeOK
  <2> QED BY <1>1, <2>1 DEF Program, Base
<1>4. /\ Program \in Nat \ {0} /\ Base \in Nat /\ address \in Nat /\ memAddress \in Nat
      /\ \A p \in 1..Program : initProgram[p] \in Nat
  BY ProgramBase, Counters
<1>5. Base <= memAddress /\ memAddress <= address
  <2>1. memAddress + Len(instructions) <= address /\ Len(instructions) = 0
    BY <1>1 DEF RoomKept
  <2> QED BY <1>4, <2>1 DEF LoadedSoFar
<1>6. \A p \in 1..(Program + 1) : initProgram'[p] <= address + 1
  <2> SUFFICES ASSUME NEW p \in 1..(Program + 1) PROVE initProgram'[p] <= address + 1
    OBVIOUS
  <2>1. CASE p \in 1..Program
    <3>1. initProgram[p] <= Base
      BY <2>1 DEF LoadedSoFar
    <3> QED BY <1>3, <1>4, <1>5, <2>1, <3>1
  <2>2. CASE p = Program + 1
    BY <1>3, <1>4, <2>2
  <2> QED BY <1>4, <2>1, <2>2
<1>7. \A a \in Addresses : a >= address + 1 => origin[a] = 0
  <2>1. \A a \in Addresses : a >= address + 1 => a >= memAddress
    BY <1>4, <1>5 DEF Addresses
  <2> QED BY <2>1 DEF LoadedSoFar
<1>8. ASSUME NEW p \in 1..Program
      PROVE  Placed(ram, origin, initProgram'[p], initProgram'[p + 1], bins[args[p].name])
  <2>1. CASE p = Program
    <3>1. Placed(ram, origin, Base, address + 1, Bin)
      <4>1. Len(instructions) = 0
        BY <1>1
      <4> QED BY <1>1, <4>1, ProgramPlaced
    <3>2. initProgram'[p] = Base /\ initProgram'[p + 1] = address + 1 /\ Bin = bins[args[p].name]
      BY <1>3, <1>4, <2>1 DEF Base, Bin
    <3> QED BY <3>1, <3>2
  <2>2. CASE p # Program
    <3>1. p \in 1..(Program - 1) /\ p + 1 \in 1..Program
      BY <1>4, <2>2
    <3>2. Placed(ram, origin, initProgram[p], initProgram[p + 1], bins[args[p].name])
      BY <3>1 DEF LoadedSoFar
    <3> QED BY <1>3, <3>1, <3>2
  <2> QED BY <2>1, <2>2
<1>9. ASSUME Program + 1 <= Len(args) PROVE InProgress(Bin)'
  <2>1. Bin' = bins[args[Program + 1].name]
    BY <1>1, <1>3 DEF Bin
  <2>2. IsBin(bins[args[Program + 1].name])
    <3>1. Program + 1 \in 1..(file - 1)
      BY <1>2, <1>4, <1>9
    <3> QED BY <3>1 DEF TypeOK, AssemblerTypeOK
  <2>3. Base' \in Nat /\ address' = Base' /\ memAddress' = Base' /\ instructions' = <<>>
    BY <1>1, <1>3, <1>4
  <2> QED BY <1>1, <2>1, <2>2, <2>3, ProgramBegins
<1>10. Program + 1 <= Len(args) + 1 /\ (Program + 1) - 1 = Program /\ address + 1 <= address + 1
  BY <1>2, <1>4
<1> QED BY <1>1, <1>2, <1>3, <1>6, <1>7, <1>8, <1>9, <1>10, Zenon DEF LoadedSoFar

LEMMA InitLoaded == Init => LoadedSoFar
<1> SUFFICES ASSUME Init PROVE LoadedSoFar
  OBVIOUS
<1>1. /\ LoaderInit /\ file = 1 /\ Len(args) \in Nat
  BY CommandLinesAssumption DEF Init, AssemblerInit
<1>2. Program = 1 /\ Base = 0 /\ memAddress = 0 /\ \A a \in Addresses : origin[a] = 0
  BY <1>1 DEF LoaderInit, Program, Base
<1>3. \A p \in 1..1 : initProgram[p] = 0
  BY <1>1 DEF LoaderInit
<1> QED BY <1>1, <1>2, <1>3 DEF LoadedSoFar

(* The assembler is done before the loader begins.                         *)
LEMMA AssemblerStepLoaded ==
  ASSUME TypeOK, TypeOK', LoadedSoFar, AssemblerStep, UNCHANGED loaderVars PROVE LoadedSoFar'
<1>1. file <= Len(args) /\ args' = args
  BY DEF AssemblerStep, AsmSection, AsmLabel, ReadsLabel, AsmInstruction, AsmVariable, AsmWrite,
         Written, Reads
<1>2. LoaderInit /\ LoaderInit'
  <2>1. LoaderInit
    BY <1>1 DEF LoadedSoFar
  <2> QED BY <2>1 DEF LoaderInit, loaderVars, placing, image
<1>3. /\ Program' = 1 /\ Base' = 0 /\ memAddress' = 0 /\ address' = 0 /\ position' = 1
      /\ \A a \in Addresses : origin'[a] = 0
      /\ labelAddresses' = <<>> /\ variableAddresses' = <<>> /\ instructions' = <<>>
      /\ \A p \in 1..1 : initProgram'[p] = 0
  BY <1>2 DEF LoaderInit, Program, Base
<1>4. Len(args) \in Nat /\ file' \in Nat
  BY CommandLinesAssumption DEF TypeOK, AssemblerTypeOK
<1>5. ASSUME file' > Len(args), 1 <= Len(args) PROVE InProgress(Bin)'
  <2>1. Bin' = bins'[args[1].name]
    BY <1>1, <1>3 DEF Bin
  <2>2. IsBin(bins'[args[1].name])
    <3>1. 1 \in 1..(file' - 1)
      <4>1. PICK f \in Nat, n \in Nat : f = file' /\ n = Len(args)
        BY <1>4
      <4>2. f > n /\ 1 <= n
        BY <1>5, <4>1
      <4>3. 1 \in 1..(f - 1)
        BY <4>2
      <4> QED BY <4>1, <4>3
    <3> QED BY <1>1, <3>1 DEF TypeOK, AssemblerTypeOK
  <2>3. Base' \in Nat /\ address' = Base' /\ memAddress' = Base'
    BY <1>3
  <2> QED BY <1>3, <2>1, <2>2, <2>3, ProgramBegins
<1>6. 1 <= Len(args) + 1 /\ 1..(1 - 1) = {} /\ 0 <= 0
  BY <1>4
<1> QED BY <1>1, <1>2, <1>3, <1>5, <1>6 DEF LoadedSoFar

LEMMA LoaderStops ==
  ASSUME TypeOK, LoadedSoFar, UNCHANGED vars PROVE LoadedSoFar'
<1>1. /\ UNCHANGED <<args, file, bins>>
      /\ UNCHANGED <<initProgram, position, labelAddresses, variableAddresses, instructions,
                     address, memAddress, ram, origin, written, aborted>>
  BY DEF vars, loaderVars, placing, image, assemblerVars
<1>2. LoaderInit => LoaderInit'
  BY <1>1 DEF LoaderInit
<1>3. Bin' = Bin /\ Base' = Base /\ Program' = Program
  BY <1>1 DEF Bin, Base, Program
<1>4. InProgress(Bin) => InProgress(Bin)'
  BY <1>1, <1>3 DEF InProgress, Counts, Queued, Stored, LabelsKnown, VariablesKnown, Resolved
<1> QED BY <1>1, <1>2, <1>3, <1>4 DEF LoadedSoFar

LEMMA NextLoaded ==
  ASSUME TypeOK, TypeOK', RoomKept, AssembledSoFar, LoadedSoFar, [Next]_vars PROVE LoadedSoFar'
<1>1. CASE AssemblerStep /\ UNCHANGED loaderVars
  BY <1>1, AssemblerStepLoaded
<1>2. CASE LoaderStep /\ UNCHANGED assemblerVars
  BY <1>2, InstructionLoaded, LabelLoaded, VariableLoaded, StoreLoaded, ReturnLoaded DEF LoaderStep
<1>3. CASE UNCHANGED vars
  BY <1>3, LoaderStops
<1> QED BY <1>1, <1>2, <1>3 DEF Next, Started

(* The loader places what the assembler made: at every base the            *)
(* instructions of the file in order, with the address of the instruction  *)
(* after the label or of the values of the variable where they name one    *)
(* (loader.cpp:45-128).                                                    *)
THEOREM LoadedAsRead == Spec => []LoadedSoFar
BY InitType, NextType, InitRoom, NextRoom, InitAssembled, NextAssembled, InitLoaded, NextLoaded,
   PTL DEF Spec

=============================================================================
