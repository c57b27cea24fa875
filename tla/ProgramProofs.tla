---------------------------- MODULE ProgramProofs ----------------------------
(***************************************************************************)
(* What the threads find in the memory, for every command line and any     *)
(* memory: the properties of Startup that are stated on the files alone    *)
(* follow from where the assembler and the loader have put what.           *)
(***************************************************************************)
EXTENDS LoaderProofs

(* The addresses of code from base to top, by the lines they come from.    *)
CodeIn(lines, base, top) == {a \in Addresses : a \in base..(top - 1) /\ lines[a] > 0}

(* The first of these behind the line l.                                   *)
FirstBehind(lines, base, top, l) == Min({a \in CodeIn(lines, base, top) : lines[a] > l})

(* The word at a is that of an instruction with that symbol.               *)
Linking(bin, mem, base, top, a, n) ==
  \E k \in 1..Len(bin.code) :
    /\ bin.code[k].sym = n /\ bin.code[k].bits \in Words
    /\ Linked(mem, bin.code[k], mem[a], bin, base, base + Before(bin.code, Len(bin.code) + 1), top - 1)

(* A text, its .bin file, and where that is in a memory.                   *)
Laid(text, bin, mem, lines, base, top) ==
  /\ text \in Seq(Lines)
  /\ IsBin(bin)
  /\ Renders(text, Len(text) + 2, bin.code)
  /\ base \in Nat
  /\ top \in Nat
  /\ top <= MemorySize + 1
  /\ Placed(mem, lines, base, top, bin)

-----------------------------------------------------------------------------
(* One program.                                                            *)

LEMMA ItemBounds ==
  ASSUME NEW text \in Seq(Lines), NEW bin, IsBin(bin), Renders(text, Len(text) + 2, bin.code),
         NEW k \in 1..Len(bin.code)
  PROVE  /\ bin.code[k] \in Items
         /\ bin.code[k].line \in 1..(Len(text) + 1)
         /\ Stands(text, bin.code[k])
<1>1. k \in DOMAIN bin.code /\ bin.code[k] \in Items
  BY CodeLength
<1>2. bin.code[k].line \in 1..((Len(text) + 2) - 1) /\ Stands(text, bin.code[k])
  BY <1>1 DEF Renders
<1>3. (Len(text) + 2) - 1 = Len(text) + 1
  OBVIOUS
<1> QED BY <1>1, <1>2, <1>3

(* The place of an instruction in the memory is that in the code.          *)
LEMMA PlaceOf ==
  ASSUME NEW text, NEW bin, NEW mem, NEW lines, NEW base, NEW top,
         Laid(text, bin, mem, lines, base, top),
         NEW k \in 1..Len(bin.code), bin.code[k].label = NoText
  PROVE  LET a == base + Before(bin.code, k)
             end == base + Before(bin.code, Len(bin.code) + 1) IN
         /\ a < end /\ a \in CodeIn(lines, base, top)
         /\ lines[a] = bin.code[k].line
         /\ Linked(mem, bin.code[k], mem[a], bin, base, end, top - 1)
<1> DEFINE c == bin.code
           end == base + Before(c, Len(c) + 1)
<1> PICK a : a = base + Before(c, k)
  OBVIOUS
<1>1. /\ base \in Nat /\ top \in Nat /\ top <= MemorySize + 1
      /\ IsBin(bin) /\ text \in Seq(Lines) /\ Renders(text, Len(text) + 2, c)
  BY DEF Laid
<1>2. Len(c) \in Nat /\ DOMAIN c = 1..Len(c)
  BY <1>1, CodeLength
<1>3. k \in Nat \ {0} /\ k \in Nat /\ Len(c) + 1 \in Nat /\ k < Len(c) + 1
  BY <1>2
<1>4. Before(c, k) \in Nat /\ Before(c, Len(c) + 1) \in Nat
      /\ Before(c, k) < Before(c, Len(c) + 1)
  <2>1. Before(c, k) \in Nat /\ Before(c, Len(c) + 1) \in Nat
    BY <1>3, BeforeNat
  <2>2. k <= Len(c) + 1
    BY <1>3
  <2>3. Before(c, k) < Before(c, Len(c) + 1)
    BY <1>3, <2>2, BeforeOrder
  <2> QED BY <2>1, <2>3
<1>5. end < top
  BY DEF Laid, Placed
<1>6. /\ lines[a] = c[k].line
      /\ Linked(mem, c[k], mem[a], bin, base, end, top - 1)
  BY <1>2 DEF Laid, Placed
<1>7. a < end /\ a >= base /\ a \in Nat /\ end \in Nat
  BY <1>1, <1>4
<1>8. c[k].line > 0
  <2>1. c[k].line \in 1..(Len(text) + 1)
    BY <1>1, ItemBounds
  <2> QED BY <1>1, <2>1
<1> HIDE DEF end, c
<1>9. a \in Addresses /\ a \in base..(top - 1)
  BY <1>1, <1>5, <1>7, MemorySizeAssumption DEF Addresses
<1>10. a \in CodeIn(lines, base, top)
  BY <1>6, <1>8, <1>9 DEF CodeIn
<1> QED BY <1>6, <1>7, <1>10, Zenon DEF end, c

(* The code of a program is its instructions, from its base, without gap.  *)
LEMMA CodePlaced ==
  ASSUME NEW text, NEW bin, NEW mem, NEW lines, NEW base, NEW top,
         Laid(text, bin, mem, lines, base, top)
  PROVE  LET c == bin.code
             code == CodeIn(lines, base, top)
             n == Before(c, Len(c) + 1) IN
         /\ n \in Nat
         /\ code = base..(base + n - 1)
         /\ \A a \in code : \E k \in 1..Len(c) : c[k].label = NoText /\ a = base + Before(c, k)
<1> DEFINE c == bin.code
           places == CodeIn(lines, base, top)
<1>1. base \in Nat /\ top \in Nat /\ IsBin(bin)
  BY DEF Laid
<1>2. Len(c) \in Nat
  BY <1>1, CodeLength
<1>3. PICK n \in Nat : n = Before(c, Len(c) + 1)
  <2>1. Len(c) + 1 \in Nat
    BY <1>2
  <2>2. Before(c, Len(c) + 1) \in Nat
    BY <2>1, BeforeNat
  <2> QED BY <2>2
<1>4. ASSUME NEW a \in places PROVE a \in base..(base + n - 1)
  <2>1. a \in Addresses /\ a \in base..(top - 1) /\ lines[a] > 0
    BY DEF CodeIn
  <2>2. ~(a >= base + n /\ a < top)
    <3> SUFFICES ASSUME a >= base + n, a < top PROVE FALSE
      OBVIOUS
    <3>1. lines[a] = 0
      BY <1>3, <2>1 DEF Laid, Placed
    <3> QED BY <2>1, <3>1
  <2> QED BY <1>1, <2>1, <2>2
<1>5. ASSUME NEW a \in base..(base + n - 1)
      PROVE  a \in places /\ \E k \in 1..Len(c) : c[k].label = NoText /\ a = base + Before(c, k)
  <2>1. PICK m \in Nat : a = base + m /\ m < n
    <3>1. a - base \in Nat /\ a = base + (a - base) /\ a - base < n
      BY <1>1
    <3> QED BY <3>1
  <2>2. PICK k \in 1..((Len(c) + 1) - 1) : c[k].label = NoText /\ Before(c, k) = m
    <3>1. Len(c) + 1 \in Nat \ {0} /\ m < Before(c, Len(c) + 1)
      BY <1>2, <1>3, <2>1
    <3> QED BY <3>1, BeforeOnto
  <2>3. k \in 1..Len(c)
    BY <1>2
  <2>4. base + Before(c, k) \in places
    BY <2>2, <2>3, PlaceOf
  <2> QED BY <2>1, <2>2, <2>3, <2>4
<1> HIDE DEF c, places
<1>6. places = base..(base + n - 1)
  BY <1>4, <1>5
<1> QED BY <1>3, <1>5, <1>6 DEF c, places

(* Where an instruction is, and the line it is from, tell which it is.     *)
LEMMA CodeOrder ==
  ASSUME NEW text \in Seq(Lines), NEW bin, IsBin(bin), Renders(text, Len(text) + 2, bin.code),
         NEW k \in 1..Len(bin.code), NEW m \in 1..Len(bin.code)
  PROVE  /\ Before(bin.code, k) < Before(bin.code, m) => k < m
         /\ k < m => Rank(bin.code[k]) < Rank(bin.code[m])
         /\ Rank(bin.code[k]) < Rank(bin.code[m]) => k < m
<1> DEFINE c == bin.code
<1>1. k \in Nat \ {0} /\ m \in Nat \ {0} /\ k \in Nat /\ m \in Nat
      /\ k \in DOMAIN c /\ m \in DOMAIN c
  <2>1. DOMAIN c = 1..Len(c)
    BY CodeLength
  <2>2. k \in Nat \ {0} /\ m \in Nat \ {0} /\ k \in Nat /\ m \in Nat
    OBVIOUS
  <2> QED BY <2>1, <2>2
<1>2. Before(c, k) \in Nat /\ Before(c, m) \in Nat
  BY <1>1, BeforeNat
<1>3. m <= k => Before(c, m) <= Before(c, k)
  BY <1>1, BeforeOrder
<1>4. (k < m => Rank(c[k]) < Rank(c[m])) /\ (m < k => Rank(c[m]) < Rank(c[k]))
  BY <1>1 DEF Renders
<1>5. Rank(c[k]) \in Int /\ Rank(c[m]) \in Int
  BY ItemBounds, RankBounds
<1> HIDE DEF c
<1>6. k < m \/ m < k \/ k = m
  BY <1>1
<1> QED BY <1>1, <1>2, <1>3, <1>4, <1>5, <1>6 DEF c

(* The code of a program in the order of its lines, with its ENDs.         *)
LEMMA LinesPlaced ==
  ASSUME NEW text, NEW bin, NEW mem, NEW lines, NEW base, NEW top,
         Laid(text, bin, mem, lines, base, top)
  PROVE  \E code :
           /\ code = CodeIn(lines, base, top)
           /\ code = base..(base + Cardinality(code) - 1)
           /\ \A a, b \in code : a < b => lines[a] < lines[b]
           /\ \A l \in EndLines(text) :
                (\E k \in LabelsOf(text) : k < l) \/ l > Len(text) => \E a \in code : lines[a] = l
<1> DEFINE c == bin.code
<1> PICK code : code = CodeIn(lines, base, top)
  OBVIOUS
<1>1. /\ base \in Nat /\ IsBin(bin) /\ text \in Seq(Lines) /\ Renders(text, Len(text) + 2, c)
  BY DEF Laid
<1>2. PICK n \in Nat : code = base..(base + n - 1)
  BY CodePlaced
<1>3. Cardinality(code) = n
  <2>1. base + n - 1 \in Int /\ base \in Int
    BY <1>1
  <2>2. Cardinality(base..(base + n - 1)) = IF base > base + n - 1 THEN 0 ELSE base + n - 1 - base + 1
    BY <2>1, FS_Interval
  <2> QED BY <1>1, <1>2, <2>2
<1>4. ASSUME NEW a \in code, NEW b \in code, a < b PROVE lines[a] < lines[b]
  <2>1. PICK k \in 1..Len(c) : c[k].label = NoText /\ a = base + Before(c, k)
    BY CodePlaced
  <2>2. PICK m \in 1..Len(c) : c[m].label = NoText /\ b = base + Before(c, m)
    BY CodePlaced
  <2>3. k < m
    <3>1. Before(c, k) \in Nat /\ Before(c, m) \in Nat
      <4>1. k \in Nat /\ m \in Nat
        OBVIOUS
      <4> QED BY <4>1, BeforeNat
    <3>2. Before(c, k) < Before(c, m)
      BY <1>1, <1>4, <2>1, <2>2, <3>1
    <3> QED BY <1>1, <3>2, CodeOrder
  <2>4. Rank(c[k]) < Rank(c[m])
    BY <1>1, <2>3, CodeOrder
  <2>5. Rank(c[k]) = 2 * c[k].line /\ Rank(c[m]) = 2 * c[m].line
        /\ c[k].line \in Nat /\ c[m].line \in Nat
    BY <1>1, <2>1, <2>2, ItemBounds, RankBounds
  <2>6. lines[a] = c[k].line /\ lines[b] = c[m].line
    BY <2>1, <2>2, PlaceOf
  <2> QED BY <2>4, <2>5, <2>6
<1>5. ASSUME NEW l \in EndLines(text), (\E k \in LabelsOf(text) : k < l) \/ l > Len(text)
      PROVE  \E a \in code : lines[a] = l
  <2>1. l \in Nat /\ l < Len(text) + 2
    BY <1>1, TextLines
  <2>2. PICK k \in DOMAIN c : Rank(c[k]) = 2 * l
    BY <1>1, <1>5, <2>1 DEF Renders
  <2>3. k \in 1..Len(c)
    BY <1>1, <2>2, CodeLength
  <2>4. c[k].label = NoText /\ c[k].line = l
    <3>1. c[k] \in Items
      BY <1>1, <2>3, ItemBounds
    <3>2. /\ c[k].line \in Nat
          /\ c[k].label = NoText => Rank(c[k]) = 2 * c[k].line
          /\ c[k].label # NoText => Rank(c[k]) = 2 * c[k].line + 1
      BY <3>1, RankBounds
    <3> PICK x \in Nat : x = c[k].line
      BY <3>2
    <3>3. 2 * l # 2 * x + 1 /\ (2 * l = 2 * x => l = x)
      BY <2>1
    <3> QED BY <2>2, <3>2, <3>3
  <2>5. base + Before(c, k) \in code /\ lines[base + Before(c, k)] = c[k].line
    BY <2>3, <2>4, PlaceOf
  <2> QED BY <2>4, <2>5
<1>6. code = base..(base + Cardinality(code) - 1)
  BY <1>2, <1>3
<1> QED BY <1>4, <1>5, <1>6

-----------------------------------------------------------------------------
(* Every program that is loaded.                                           *)

(* The file a .bin file is of is the last of its name.                     *)
LEMMA FileOf ==
  ASSUME TypeOK, AssembledSoFar, file > Len(args), NEW n \in DOMAIN bins
  PROVE  \E i \in DOMAIN args : /\ args[i].name = n
                                /\ Unshadowed(i)
                                /\ Assembled(args, i, bins[n])
<1>1. Len(args) \in Nat /\ DOMAIN args = 1..Len(args)
  BY CommandLinesAssumption DEF TypeOK, AssemblerTypeOK
<1>2. file = Len(args) + 1
  BY <1>1 DEF TypeOK, AssemblerTypeOK
<1>3. PICK i \in 1..(file - 1) : /\ args[i].name = n
                                 /\ \A j \in (i + 1)..(file - 1) : args[j].name # n
                                 /\ Assembled(args, i, bins[n])
  BY AssembledParts DEF BinsSoFar
<1>4. file - 1 = Len(args)
  BY <1>1, <1>2
<1>5. i \in DOMAIN args /\ Unshadowed(i)
  BY <1>1, <1>3, <1>4 DEF Unshadowed
<1> QED BY <1>3, <1>5

(* An unshadowed file has its .bin file, and where the loader is past it   *)
(* its place.                                                              *)
LEMMA BinOf ==
  ASSUME TypeOK, AssembledSoFar, file > Len(args), NEW i \in DOMAIN args, Unshadowed(i)
  PROVE  LET bin == bins[args[i].name] IN
         /\ args \in Seq(Files) /\ args[i].text \in Seq(Lines)
         /\ IsBin(bin)
         /\ Assembled(args, i, bin)
<1>1. args \in Seq(Files) /\ Len(args) \in Nat /\ DOMAIN args = 1..Len(args)
  <2>1. args \in Seq(Files)
    BY CommandLinesAssumption DEF TypeOK, AssemblerTypeOK, Files
  <2> QED BY <2>1
<1>2. file = Len(args) + 1 /\ i \in 1..(file - 1)
  BY <1>1 DEF TypeOK, AssemblerTypeOK
<1>3. args[i].name \in DOMAIN bins /\ IsBin(bins[args[i].name])
  BY <1>2 DEF TypeOK, AssemblerTypeOK
<1>4. PICK j \in DOMAIN args : /\ args[j].name = args[i].name
                               /\ Unshadowed(j)
                               /\ Assembled(args, j, bins[args[i].name])
  BY <1>3, FileOf
<1>5. i = j
  <2>1. i < j => j \in (i + 1)..Len(args)
    BY <1>1
  <2>2. j < i => i \in (j + 1)..Len(args)
    BY <1>1
  <2>3. ~(i < j) /\ ~(j < i)
    BY <1>4, <2>1, <2>2 DEF Unshadowed
  <2> QED BY <1>1, <2>3
<1>6. args[i].text \in Seq(Lines)
  <2>1. args[i] \in Files
    BY <1>1
  <2> QED BY <2>1 DEF Files
<1> QED BY <1>1, <1>3, <1>4, <1>5, <1>6

LEMMA LoadedLaid ==
  ASSUME TypeOK, AssembledSoFar, LoadedSoFar, NEW i \in Loaded
  PROVE  /\ file > Len(args) /\ i \in DOMAIN args /\ Unshadowed(i)
         /\ Laid(args[i].text, bins[args[i].name], ram, origin, initProgram[i], initProgram[i + 1])
         /\ Code(i) = CodeIn(origin, initProgram[i], initProgram[i + 1])
<1>1. /\ i \in 1..(Program - 1) /\ Unshadowed(i) /\ initProgram[i + 1] <= MemorySize + 1
  BY DEF Loaded
<1>2. Program \in Nat \ {0} /\ Len(args) \in Nat /\ DOMAIN args = 1..Len(args)
      /\ file \in Nat
  BY ProgramBase, CommandLinesAssumption DEF TypeOK, AssemblerTypeOK
<1>3. file > Len(args)
  <2>1. Program # 1
    BY <1>1, <1>2
  <2>2. LoaderInit => Program = 1
    BY DEF LoaderInit, Program
  <2> QED BY <1>2, <2>1, <2>2 DEF LoadedSoFar
<1>4. i \in DOMAIN args
  <2>1. Program <= Len(args) + 1
    BY DEF LoadedSoFar
  <2> QED BY <1>1, <1>2, <2>1
<1>5. initProgram[i] \in Nat /\ initProgram[i + 1] \in Nat
  <2>1. i \in 1..Program /\ i + 1 \in 1..Program
    BY <1>1, <1>2
  <2> QED BY <2>1, ProgramBase
<1>6. Placed(ram, origin, initProgram[i], initProgram[i + 1], bins[args[i].name])
  BY <1>1 DEF LoadedSoFar
<1>7. /\ args[i].text \in Seq(Lines) /\ IsBin(bins[args[i].name])
      /\ Renders(args[i].text, Len(args[i].text) + 2, bins[args[i].name].code)
  BY <1>1, <1>3, <1>4, BinOf DEF Assembled
<1> QED BY <1>1, <1>3, <1>4, <1>5, <1>6, <1>7 DEF Laid, Code, CodeIn

LEMMA PlacedLines == TypeOK /\ AssembledSoFar /\ LoadedSoFar => LinesInOrder
<1> SUFFICES ASSUME TypeOK, AssembledSoFar, LoadedSoFar, NEW i \in Loaded
             PROVE  /\ Code(i) = initProgram[i]..(initProgram[i] + Cardinality(Code(i)) - 1)
                    /\ \A a, b \in Code(i) : a < b => origin[a] < origin[b]
                    /\ \A l \in LabelLines(i) \cup {Len(args[i].text) + 1} :
                         (\E k \in LabelLines(i) : k < l) \/ l > Len(args[i].text)
                           => \E a \in Code(i) : origin[a] = l
  BY DEF LinesInOrder
<1> PICK text, bin, base, top, mem, lines :
      /\ text = args[i].text /\ bin = bins[args[i].name] /\ base = initProgram[i]
      /\ top = initProgram[i + 1] /\ mem = ram /\ lines = origin
  OBVIOUS
<1>1. Laid(text, bin, mem, lines, base, top) /\ Code(i) = CodeIn(lines, base, top)
  BY LoadedLaid
<1>2. LabelLines(i) = LabelsOf(text) /\ LabelLines(i) \cup {Len(text) + 1} = EndLines(text)
  BY DEF LabelLines, EndLines
<1>3. PICK code :
        /\ code = CodeIn(lines, base, top)
        /\ code = base..(base + Cardinality(code) - 1)
        /\ \A a, b \in code : a < b => lines[a] < lines[b]
        /\ \A l \in EndLines(text) :
             (\E k \in LabelsOf(text) : k < l) \/ l > Len(text) => \E a \in code : lines[a] = l
  BY <1>1, LinesPlaced
<1>4. Code(i) = code /\ lines = origin /\ base = initProgram[i] /\ text = args[i].text
  BY <1>1, <1>3
<1> QED BY <1>2, <1>3, <1>4, Zenon

(* The code of every loaded program begins at its base and follows its     *)
(* lines without a gap, with an END before each label but the first and at *)
(* its end (assembler.cpp:184-187, 346, loader.cpp:121).                   *)
THEOREM InOrder == Spec => []LinesInOrder
BY Types, AssembledAsWritten, LoadedAsRead, PlacedLines, PTL

-----------------------------------------------------------------------------
(* Symbols.                                                                *)

LEMMA MinIs ==
  ASSUME NEW S \in SUBSET Int, NEW m \in S, \A x \in S : m <= x PROVE Min(S) = m
<1>1. Min(S) \in S /\ \A x \in S : Min(S) <= x
  <2>1. \E y \in S : \A x \in S : y <= x
    OBVIOUS
  <2> QED BY <2>1 DEF Min
<1>2. Min(S) <= m /\ m <= Min(S) /\ Min(S) \in Int
  BY <1>1
<1> QED BY <1>2

LEMMA MaxIs ==
  ASSUME NEW S \in SUBSET Int, NEW m \in S, \A x \in S : x <= m PROVE Max(S) = m
<1>1. Max(S) \in S /\ \A x \in S : Max(S) >= x
  <2>1. \E y \in S : \A x \in S : y >= x
    OBVIOUS
  <2> QED BY <2>1 DEF Max
<1>2. Max(S) <= m /\ m <= Max(S) /\ Max(S) \in Int
  BY <1>1
<1> QED BY <1>2

LEMMA MaxFound ==
  ASSUME NEW S \in SUBSET Nat, NEW n \in Nat, \A x \in S : x <= n, S # {}
  PROVE  Max(S) \in S /\ \A x \in S : x <= Max(S)
<1> DEFINE T == {y \in Nat : n - y \in S}
<1>1. T # {}
  <2>1. PICK x \in S : TRUE
    OBVIOUS
  <2>2. n - x \in T
    <3>1. n - x \in Nat /\ n - (n - x) = x
      OBVIOUS
    <3> QED BY <3>1
  <2> QED BY <2>2
<1>2. PICK y \in T : \A z \in T : ~(<<z, y>> \in OpToRel(<, Nat))
  BY <1>1, WFMin, NatLessThanWellFounded
<1>3. n - y \in S
  OBVIOUS
<1>4. ASSUME NEW x \in S PROVE x <= n - y
  <2>1. n - x \in Nat /\ n - (n - x) = x
    OBVIOUS
  <2>2. n - x \in T
    BY <2>1
  <2>3. ~(n - x < y)
    <3>1. ~(<<n - x, y>> \in OpToRel(<, Nat))
      BY <1>2, <2>2
    <3>2. y \in Nat
      OBVIOUS
    <3> QED BY <2>1, <3>1, <3>2, Zenon DEF OpToRel
  <2> QED BY <2>1, <2>3
<1>5. Max(S) = n - y
  <2>1. S \in SUBSET Int
    OBVIOUS
  <2> HIDE DEF T
  <2> QED BY <1>3, <1>4, <2>1, MaxIs
<1> QED BY <1>3, <1>4, <1>5

(* The item a word of code comes from, and what stands in its line.        *)
LEMMA ItemOf ==
  ASSUME NEW text, NEW bin, NEW mem, NEW lines, NEW base, NEW top,
         Laid(text, bin, mem, lines, base, top), NEW a \in CodeIn(lines, base, top)
  PROVE  \E k \in DOMAIN bin.code :
           /\ bin.code[k] \in Items
           /\ bin.code[k].label = NoText
           /\ bin.code[k].line = lines[a]
           /\ Linked(mem, bin.code[k], mem[a], bin, base,
                     base + Before(bin.code, Len(bin.code) + 1), top - 1)
           /\ IF lines[a] \in DOMAIN text /\ text[lines[a]].kind = "op"
              THEN /\ bin.code[k].sym = IF Symbolic(text[lines[a]])
                                        THEN Operand(text[lines[a]]) ELSE NoText
                   /\ Encodes(text[lines[a]], bin.code[k].bits)
              ELSE bin.code[k].sym = NoText /\ bin.code[k].bits = EndBits
<1>1. IsBin(bin) /\ text \in Seq(Lines) /\ Renders(text, Len(text) + 2, bin.code)
  BY DEF Laid
<1>2. PICK k \in 1..Len(bin.code) : bin.code[k].label = NoText /\ a = base + Before(bin.code, k)
  BY CodePlaced
<1>3. bin.code[k].line = lines[a]
      /\ Linked(mem, bin.code[k], mem[a], bin, base,
                base + Before(bin.code, Len(bin.code) + 1), top - 1)
  BY <1>2, PlaceOf
<1>4. Stands(text, bin.code[k]) /\ bin.code[k] \in Items /\ k \in DOMAIN bin.code
  BY <1>1, ItemBounds, CodeLength
<1>5. lines[a] \in DOMAIN text /\ text[lines[a]].kind = "op" => lines[a] \notin EndLines(text)
  <2>1. lines[a] \in DOMAIN text /\ lines[a] \in EndLines(text) => lines[a] \in LabelsOf(text)
    BY <1>1, TextLines
  <2> QED BY <2>1 DEF LabelsOf
<1> PICK item : item = bin.code[k]
  OBVIOUS
<1>6. IF lines[a] \in DOMAIN text /\ text[lines[a]].kind = "op"
      THEN /\ item.sym = IF Symbolic(text[lines[a]]) THEN Operand(text[lines[a]]) ELSE NoText
           /\ Encodes(text[lines[a]], item.bits)
      ELSE item.sym = NoText /\ item.bits = EndBits
  BY <1>2, <1>3, <1>4, <1>5 DEF Stands
<1> QED BY <1>2, <1>3, <1>4, <1>6

(* An instruction of a line has its symbol.                                *)
LEMMA SymbolOf ==
  ASSUME NEW text, NEW bin, NEW mem, NEW lines, NEW base, NEW top,
         Laid(text, bin, mem, lines, base, top), NEW a \in CodeIn(lines, base, top),
         lines[a] \in DOMAIN text, text[lines[a]].kind = "op", Symbolic(text[lines[a]])
  PROVE  Linking(bin, mem, base, top, a, Operand(text[lines[a]]))
<1>1. PICK k \in DOMAIN bin.code :
        /\ bin.code[k] \in Items
        /\ Linked(mem, bin.code[k], mem[a], bin, base,
                  base + Before(bin.code, Len(bin.code) + 1), top - 1)
        /\ bin.code[k].sym = Operand(text[lines[a]])
  BY ItemOf
<1>2. k \in 1..Len(bin.code)
  BY CodeLength DEF Laid
<1> QED BY <1>1, <1>2 DEF Items, Linking

(* A label of the text is in the code, with its name; and the other way.   *)
LEMMA LabelAt ==
  ASSUME NEW text \in Seq(Lines), NEW bin, IsBin(bin), Renders(text, Len(text) + 2, bin.code)
  PROVE  /\ \A e \in LabelsOf(text) : \E m \in 1..Len(bin.code) :
              /\ Rank(bin.code[m]) = 2 * e + 1 /\ bin.code[m].line = e
              /\ bin.code[m].label = text[e].name /\ bin.code[m].label # NoText
         /\ \A m \in 1..Len(bin.code) : bin.code[m].label # NoText =>
              /\ bin.code[m].line \in LabelsOf(text)
              /\ bin.code[m].label = text[bin.code[m].line].name
<1> DEFINE c == bin.code
<1>1. ASSUME NEW m \in 1..Len(c), c[m].label # NoText
      PROVE  c[m].line \in LabelsOf(text) /\ c[m].label = text[c[m].line].name
  BY <1>1, ItemBounds DEF Stands
<1>2. ASSUME NEW e \in LabelsOf(text)
      PROVE  \E m \in 1..Len(c) : /\ Rank(c[m]) = 2 * e + 1 /\ c[m].line = e
                                  /\ c[m].label = text[e].name /\ c[m].label # NoText
  <2>1. e \in Nat /\ e < Len(text) + 2
    <3>1. e \in 1..Len(text)
      BY TextLines
    <3> QED BY <3>1
  <2>2. PICK m \in DOMAIN c : Rank(c[m]) = 2 * e + 1
    BY <2>1 DEF Renders
  <2>3. m \in 1..Len(c)
    BY <2>2, CodeLength
  <2>4. c[m].label # NoText /\ c[m].line = e
    <3>1. c[m] \in Items
      BY <2>3, ItemBounds
    <3>2. /\ c[m].line \in Nat
          /\ c[m].label = NoText => Rank(c[m]) = 2 * c[m].line
          /\ c[m].label # NoText => Rank(c[m]) = 2 * c[m].line + 1
      BY <3>1, RankBounds
    <3> PICK x \in Nat : x = c[m].line
      BY <3>2
    <3>3. 2 * e + 1 # 2 * x /\ (2 * e + 1 = 2 * x + 1 => e = x)
      BY <2>1
    <3> QED BY <2>2, <3>2, <3>3
  <2> QED BY <1>1, <2>2, <2>3, <2>4
<1> HIDE DEF c
<1> QED BY <1>1, <1>2 DEF c


(* The last label of a name in the code is that of the last such line, and *)
(* the code from there on is that of the lines behind it.                  *)
LEMMA LabelsPlaced ==
  ASSUME NEW text, NEW bin, NEW mem, NEW lines, NEW base, NEW top,
         Laid(text, bin, mem, lines, base, top),
         NEW l \in LabelsOf(text),
         \A e \in LabelsOf(text) : text[e].name = text[l].name => e <= l
  PROVE  \E m \in 1..Len(bin.code) :
           /\ LastLabel(bin.code, text[l].name, Len(bin.code) + 1, m)
           /\ base + Before(bin.code, m) = FirstBehind(lines, base, top, l)
<1> DEFINE c == bin.code
           n == text[l].name
           behind == {b \in CodeIn(lines, base, top) : lines[b] > l}
<1>1. /\ base \in Nat /\ IsBin(bin) /\ text \in Seq(Lines) /\ Renders(text, Len(text) + 2, c)
  BY DEF Laid
<1>2. Len(c) \in Nat /\ DOMAIN c = 1..Len(c) /\ c[Len(c)].label = NoText
  BY <1>1, CodeLength DEF IsBin
<1>3. l \in Nat
  BY <1>1, TextLines
<1>4. PICK m \in 1..Len(c) :
        Rank(c[m]) = 2 * l + 1 /\ c[m].line = l /\ c[m].label = n /\ c[m].label # NoText
  BY <1>1, LabelAt
<1>5. \A k \in 1..Len(c) :
        /\ c[k] \in Items /\ c[k].line \in Nat /\ Rank(c[k]) \in Int
        /\ c[k].label = NoText => Rank(c[k]) = 2 * c[k].line
        /\ c[k].label # NoText => Rank(c[k]) = 2 * c[k].line + 1
  BY <1>1, ItemBounds, RankBounds
<1>6. LastLabel(c, n, Len(c) + 1, m)
  <2>1. ASSUME NEW k \in (m + 1)..((Len(c) + 1) - 1) PROVE c[k].label # n
    <3>1. k \in 1..Len(c) /\ m < k
      BY <1>2
    <3>2. Rank(c[m]) < Rank(c[k])
      BY <1>1, <3>1, CodeOrder
    <3>3. c[k].label = n => c[k].line \in LabelsOf(text) /\ c[k].line <= l
      <4> SUFFICES ASSUME c[k].label = n PROVE c[k].line \in LabelsOf(text) /\ c[k].line <= l
        OBVIOUS
      <4>1. c[k].line \in LabelsOf(text) /\ c[k].label = text[c[k].line].name
        BY <1>1, <1>4, <3>1, LabelAt
      <4> QED BY <4>1
    <3> SUFFICES ASSUME c[k].label = n PROVE FALSE
      OBVIOUS
    <3>4. Rank(c[k]) = 2 * c[k].line + 1 /\ c[k].line \in Nat
      BY <1>4, <1>5, <3>1
    <3> QED BY <1>3, <1>4, <3>2, <3>3, <3>4
  <2>2. m \in 1..((Len(c) + 1) - 1)
    BY <1>2
  <2> QED BY <1>4, <2>1, <2>2 DEF LastLabel
<1>7. m + 1 \in 1..Len(c) /\ c[m + 1].label = NoText
  <2>1. m < Len(c)
    BY <1>2, <1>4
  <2>2. m + 1 \in 1..Len(c)
    BY <1>2, <2>1
  <2> QED BY <1>1, <1>2, <1>4, <2>1, <2>2 DEF Renders
<1>8. PICK x \in Nat : x = Before(c, m) /\ x = Before(c, m + 1)
  <2>1. m \in Nat \ {0} /\ m \in Nat
    OBVIOUS
  <2>2. Before(c, m + 1) = Before(c, m) + 0 /\ Before(c, m) \in Nat
    BY <1>4, <2>1, BeforeNext, BeforeNat
  <2> QED BY <2>2
<1>9. base + x \in behind
  <2>1. base + x \in CodeIn(lines, base, top) /\ lines[base + x] = c[m + 1].line
    BY <1>7, <1>8, PlaceOf
  <2>2. Rank(c[m]) < Rank(c[m + 1])
    <3>1. m < m + 1
      OBVIOUS
    <3> QED BY <1>1, <1>7, <3>1, CodeOrder
  <2>3. c[m + 1].line \in Nat /\ Rank(c[m + 1]) = 2 * c[m + 1].line
    BY <1>5, <1>7
  <2>4. c[m + 1].line > l
    BY <1>3, <1>4, <2>2, <2>3
  <2> QED BY <2>1, <2>4
<1>10. ASSUME NEW b \in behind PROVE base + x <= b
  <2>1. PICK k \in 1..Len(c) : c[k].label = NoText /\ b = base + Before(c, k)
    BY CodePlaced
  <2>2. lines[b] = c[k].line /\ c[k].line > l
    BY <2>1, PlaceOf
  <2>3. Rank(c[k]) = 2 * c[k].line /\ c[k].line \in Nat
    BY <1>5, <2>1
  <2>4. Rank(c[m]) < Rank(c[k])
    BY <1>3, <1>4, <2>2, <2>3
  <2>5. m < k
    BY <1>1, <2>4, CodeOrder
  <2>6. Before(c, m + 1) <= Before(c, k)
    <3>1. m + 1 \in Nat \ {0} /\ k \in Nat /\ m + 1 <= k
      BY <2>5
    <3> QED BY <3>1, BeforeOrder
  <2>7. Before(c, k) \in Nat
    <3>1. k \in Nat
      OBVIOUS
    <3> QED BY <3>1, BeforeNat
  <2> QED BY <1>1, <1>8, <2>1, <2>6, <2>7
<1>11. behind \in SUBSET Int
  <2>1. Addresses \subseteq Int
    BY MemorySizeAssumption DEF Addresses
  <2> QED BY <2>1 DEF CodeIn
<1>12. Min(behind) = base + x
  <2> HIDE DEF behind, c
  <2> QED BY <1>9, <1>10, <1>11, MinIs
<1> HIDE DEF c, n
<1> QED BY <1>6, <1>8, <1>12 DEF c, n, FirstBehind

LEMMA PlacedLabels == TypeOK /\ AssembledSoFar /\ LoadedSoFar => LabelsAsDefined
<1> SUFFICES ASSUME TypeOK, AssembledSoFar, LoadedSoFar, NEW i \in Loaded,
                    NEW a \in Instructions(i),
                    Symbolic(Source(i, a)), HasLabel(i, Operand(Source(i, a)))
             PROVE  ram[a].low =
                      Low(Min({b \in Code(i) :
                                 origin[b] > Max({k \in LabelLines(i) :
                                                    Line(i, k).name = Operand(Source(i, a))})}))
  BY Zenon DEF LabelsAsDefined
<1> PICK text, bin, base, top, mem, lines :
      /\ text = args[i].text /\ bin = bins[args[i].name] /\ base = initProgram[i]
      /\ top = initProgram[i + 1] /\ mem = ram /\ lines = origin
  OBVIOUS
<1>1. Laid(text, bin, mem, lines, base, top) /\ Code(i) = CodeIn(lines, base, top)
  BY LoadedLaid
<1>2. /\ a \in CodeIn(lines, base, top) /\ lines[a] \in DOMAIN text
      /\ text[lines[a]].kind = "op" /\ Source(i, a) = text[lines[a]]
  BY <1>1 DEF Instructions, FromInstruction, Source, Line
<1>3. PICK n : n = Operand(text[lines[a]])
  OBVIOUS
<1> DEFINE L == {k \in LabelsOf(text) : text[k].name = n}
<1>4. L = {k \in LabelLines(i) : Line(i, k).name = Operand(Source(i, a))} /\ L # {}
  BY <1>2, <1>3 DEF LabelLines, Line, HasLabel
<1>5. PICK l \in LabelsOf(text) :
        /\ l = Max(L) /\ text[l].name = n
        /\ \A e \in LabelsOf(text) : text[e].name = text[l].name => e <= l
  <2>1. L \in SUBSET Nat /\ Len(text) \in Nat /\ \A x \in L : x <= Len(text)
    <3>1. text \in Seq(Lines)
      BY <1>1 DEF Laid
    <3>2. \A x \in LabelsOf(text) : x \in 1..Len(text)
      BY <3>1, TextLines
    <3> QED BY <3>1, <3>2
  <2> HIDE DEF L
  <2>2. Max(L) \in L /\ \A x \in L : x <= Max(L)
    BY <1>4, <2>1, MaxFound
  <2> QED BY <2>2 DEF L
<1>6. n # NoText
  <2>1. text \in Seq(Lines)
    BY <1>1 DEF Laid
  <2>2. text[l] \in Lines /\ text[l].kind = "colon"
    BY <2>1, TextLines
  <2> QED BY <1>5, <2>2 DEF Lines, Names
<1>7. PICK k \in 1..Len(bin.code) :
        /\ bin.code[k].sym = n /\ bin.code[k].bits \in Words
        /\ Linked(mem, bin.code[k], mem[a], bin, base,
                  base + Before(bin.code, Len(bin.code) + 1), top - 1)
  <2>1. Symbolic(text[lines[a]])
    BY <1>2
  <2>2. Linking(bin, mem, base, top, a, n)
    BY <1>1, <1>2, <1>3, <2>1, SymbolOf
  <2> QED BY <2>2 DEF Linking
<1>8. PICK m \in 1..Len(bin.code) :
        /\ LastLabel(bin.code, n, Len(bin.code) + 1, m)
        /\ base + Before(bin.code, m) = FirstBehind(lines, base, top, l)
  <2>1. \A e \in LabelsOf(text) : text[e].name = text[l].name => e <= l
    BY <1>5
  <2>2. PICK m \in 1..Len(bin.code) :
          /\ LastLabel(bin.code, text[l].name, Len(bin.code) + 1, m)
          /\ base + Before(bin.code, m) = FirstBehind(lines, base, top, l)
    BY <1>1, <2>1, LabelsPlaced
  <2> QED BY <1>5, <2>2
<1>9. mem[a] = Pointing(bin.code[k], base + Before(bin.code, m))
  <2>1. m \in DOMAIN bin.code
    BY <1>1, CodeLength DEF Laid
  <2> QED BY <1>6, <1>7, <1>8, <2>1 DEF Linked
<1>10. mem[a].low = Low(base + Before(bin.code, m))
  <2>1. \A w \in Words : \A x : [w EXCEPT !.low = x].low = x
    BY DEF Words
  <2> QED BY <1>7, <1>9, <2>1 DEF Pointing
<1> HIDE DEF L
<1> QED BY <1>1, <1>4, <1>5, <1>8, <1>10 DEF FirstBehind

(* A word that names a label holds the address of what comes behind the    *)
(* last label of that name in its own file (assembler.cpp:184-193,         *)
(* loader.cpp:78-105).                                                     *)
THEOREM LabelsMeant == Spec => []LabelsAsDefined
BY Types, AssembledAsWritten, LoadedAsRead, PlacedLabels, PTL


(* The data of the i-th file has the variables declared up to it, each     *)
(* with the values of the last declaration.                                *)
LEMMA DataOf ==
  ASSUME args \in Seq(Files), NEW i \in DOMAIN args, NEW data, Remembers(args, i + 1, 1, data),
         NEW n \in Texts
  PROVE  /\ Declaring(i, n) # {} => n \in DOMAIN data
         /\ n \in DOMAIN data => Declaring(i, n) # {} /\ ValuesOf(i, n) = data[n]
<1>1. i \in Nat /\ Len(args) \in Nat /\ i <= Len(args) /\ DOMAIN args = 1..Len(args)
  OBVIOUS
<1>2. \A j : Declarations(j, n) = DeclarationsOf(args[j].text, n)
  BY DEF Declarations
<1>3. ASSUME Declaring(i, n) # {} PROVE n \in DOMAIN data
  <2>1. PICK j \in 1..i : Declarations(j, n) # {}
    BY <1>3 DEF Declaring
  <2>2. PICK k \in DeclarationsOf(args[j].text, n) : TRUE
    BY <1>2, <2>1
  <2>3. j \in DOMAIN args /\ Earlier(j, k, i + 1, 1)
    BY <1>1 DEF Earlier
  <2> QED BY <2>2, <2>3 DEF Remembers
<1>4. ASSUME n \in DOMAIN data PROVE Declaring(i, n) # {} /\ ValuesOf(i, n) = data[n]
  <2>0. PICK j \in DOMAIN args : \E k \in DeclarationsOf(args[j].text, n) :
          /\ Earlier(j, k, i + 1, 1)
          /\ data[n] = Parsed(args[j].text[k].values)
          /\ \A j2 \in DOMAIN args : \A k2 \in DeclarationsOf(args[j2].text, n) :
               Earlier(j2, k2, i + 1, 1) => ~Earlier(j, k, j2, k2)
    BY <1>4 DEF Remembers
  <2>1. PICK k \in DeclarationsOf(args[j].text, n) :
          /\ Earlier(j, k, i + 1, 1)
          /\ data[n] = Parsed(args[j].text[k].values)
          /\ \A j2 \in DOMAIN args : \A k2 \in DeclarationsOf(args[j2].text, n) :
               Earlier(j2, k2, i + 1, 1) => ~Earlier(j, k, j2, k2)
    BY <2>0
  <2>2. j \in Nat /\ k \in Nat /\ k >= 1
    BY <2>1, DeclarationLines
  <2>3. j \in 1..i /\ j \in Declaring(i, n)
    <3>1. j \in 1..i
      BY <1>1, <2>1, <2>2 DEF Earlier
    <3>2. Declarations(j, n) # {}
      BY <1>2
    <3> QED BY <3>1, <3>2 DEF Declaring
  <2>4. Max(Declaring(i, n)) = j
    <3>1. Declaring(i, n) \in SUBSET Int
      BY <1>1 DEF Declaring
    <3>2. ASSUME NEW x \in Declaring(i, n) PROVE x <= j
      <4>1. x \in 1..i /\ x \in DOMAIN args
        BY <1>1 DEF Declaring
      <4>2. PICK y \in DeclarationsOf(args[x].text, n) : TRUE
        BY <1>2 DEF Declaring
      <4>3. Earlier(x, y, i + 1, 1)
        BY <1>1, <4>1 DEF Earlier
      <4>4. ~Earlier(j, k, x, y)
        BY <2>1, <4>1, <4>2, <4>3
      <4> QED BY <2>2, <4>1, <4>4 DEF Earlier
    <3> QED BY <2>3, <3>1, <3>2, MaxIs
  <2>5. Max(Declarations(j, n)) = k
    <3> DEFINE D == DeclarationsOf(args[j].text, n)
    <3>1. \A y \in D : y \in Nat
      <4> SUFFICES ASSUME NEW y \in D PROVE y \in Nat
        OBVIOUS
      <4> QED BY DeclarationLines
    <3>2. ASSUME NEW y \in D PROVE y <= k
      <4>1. Earlier(j, y, i + 1, 1)
        BY <1>1, <2>3 DEF Earlier
      <4>2. ~Earlier(j, k, j, y)
        BY <2>1, <4>1
      <4> QED BY <2>2, <3>1, <4>2 DEF Earlier
    <3>3. k \in D /\ D \in SUBSET Int
      BY <3>1
    <3> HIDE DEF D
    <3>4. Max(D) = k
      BY <3>2, <3>3, MaxIs
    <3> QED BY <1>2, <3>4 DEF D
  <2> QED BY <2>1, <2>3, <2>4, <2>5 DEF ValuesOf, Line
<1> QED BY <1>3, <1>4

LEMMA DeclaredNames ==
  ASSUME args \in Seq(Files), NEW i \in DOMAIN args, NEW n, Declaring(i, n) # {}
  PROVE  n \in Texts /\ n # NoText
<1>1. PICK j \in 1..i : Declarations(j, n) # {}
  BY DEF Declaring
<1>2. j \in DOMAIN args
  <2>1. i \in 1..Len(args) /\ DOMAIN args = 1..Len(args) /\ Len(args) \in Nat
    OBVIOUS
  <2> QED BY <2>1
<1>3. PICK k \in DeclarationsOf(args[j].text, n) : TRUE
  BY <1>1 DEF Declarations
<1>4. args[j].text[k] \in Lines /\ args[j].text[k].kind = "colon" /\ args[j].text[k].name = n
  <2>1. args[j].text \in Seq(Lines) /\ k \in DOMAIN args[j].text
    BY <1>2, <1>3, DeclarationLines DEF DeclarationsOf
  <2> QED BY <1>3, <2>1 DEF DeclarationsOf
<1>5. \A l \in Lines : l.kind = "colon" => l.name \in Names
  BY DEF Lines
<1> QED BY <1>4, <1>5 DEF Names

(* A symbol that is no label of the text has its values in the data.       *)
LEMMA VariablesPlaced ==
  ASSUME NEW text, NEW bin, NEW mem, NEW lines, NEW base, NEW top,
         Laid(text, bin, mem, lines, base, top), NEW a, NEW n, n # NoText,
         n \in DOMAIN bin.data, Linking(bin, mem, base, top, a, n),
         \A e \in LabelsOf(text) : text[e].name # n
  PROVE  \E b \in Addresses :
           /\ mem[a].low = Low(b)
           /\ \A k \in DOMAIN bin.data[n] :
                /\ b + k - 1 \in Addresses \ CodeIn(lines, base, top)
                /\ b + k - 1 \in base..(top - 1)
                /\ mem[b + k - 1] = IntBits(bin.data[n][k])
<1> DEFINE c == bin.code
<1>1. /\ base \in Nat /\ top \in Nat
      /\ IsBin(bin) /\ text \in Seq(Lines) /\ Renders(text, Len(text) + 2, c)
  BY DEF Laid
<1>2. PICK x \in Nat : x = Before(c, Len(c) + 1) /\ CodeIn(lines, base, top) = base..(base + x - 1)
  BY CodePlaced
<1>3. PICK end : end = base + x
  OBVIOUS
<1>4. PICK k \in 1..Len(c) : /\ c[k].sym = n /\ c[k].bits \in Words
                             /\ Linked(mem, c[k], mem[a], bin, base, end, top - 1)
  BY <1>2, <1>3 DEF Linking
<1>5. \A m \in DOMAIN c : c[m].label # n
  <2> SUFFICES ASSUME NEW m \in DOMAIN c, c[m].label = n PROVE FALSE
    OBVIOUS
  <2>1. m \in 1..Len(c)
    BY <1>1, CodeLength
  <2> QED BY <1>1, <2>1, LabelAt
<1>6. PICK b \in Addresses : /\ mem[a] = Pointing(c[k], b)
                             /\ HasValues(mem, bin.data[n], b, end, top - 1)
  BY <1>4, <1>5 DEF Linked
<1>7. mem[a].low = Low(b)
  <2>1. \A w \in Words : \A y : [w EXCEPT !.low = y].low = y
    BY DEF Words
  <2> QED BY <1>4, <1>6, <2>1 DEF Pointing
<1>8. ASSUME NEW j \in DOMAIN bin.data[n]
      PROVE  /\ b + j - 1 \in Addresses \ CodeIn(lines, base, top)
             /\ b + j - 1 \in base..(top - 1)
             /\ mem[b + j - 1] = IntBits(bin.data[n][j])
  <2> PICK y : y = b + j - 1
    OBVIOUS
  <2>1. y \in Addresses /\ y \in end..((top - 1) - 1) /\ mem[y] = IntBits(bin.data[n][j])
    BY <1>6 DEF HasValues
  <2>2. y \in base..(top - 1) /\ y \notin base..(base + x - 1)
    BY <1>1, <1>2, <1>3, <2>1
  <2> QED BY <1>2, <2>1, <2>2
<1> QED BY <1>7, <1>8

LEMMA PlacedVariables == TypeOK /\ AssembledSoFar /\ LoadedSoFar => VariablesAsDeclared
<1> SUFFICES ASSUME TypeOK, AssembledSoFar, LoadedSoFar, NEW i \in Loaded,
                    NEW a \in Instructions(i), Symbolic(Source(i, a)),
                    ~HasLabel(i, Operand(Source(i, a))),
                    Declaring(i, Operand(Source(i, a))) # {}
             PROVE  \E b \in Addresses :
                      /\ ram[a].low = Low(b)
                      /\ \A k \in DOMAIN ValuesOf(i, Operand(Source(i, a))) :
                           /\ b + k - 1 \in Addresses \ Code(i)
                           /\ b + k - 1 \in initProgram[i]..(initProgram[i + 1] - 1)
                           /\ ram[b + k - 1] = IntBits(ValuesOf(i, Operand(Source(i, a)))[k])
  BY Zenon DEF VariablesAsDeclared
<1> PICK n : n = Operand(Source(i, a))
  OBVIOUS
<1> PICK text, bin, base, top, mem, lines :
      /\ text = args[i].text /\ bin = bins[args[i].name] /\ base = initProgram[i]
      /\ top = initProgram[i + 1] /\ mem = ram /\ lines = origin
  OBVIOUS
<1>1. /\ Laid(text, bin, mem, lines, base, top) /\ Code(i) = CodeIn(lines, base, top)
      /\ file > Len(args) /\ i \in DOMAIN args /\ Unshadowed(i)
  BY LoadedLaid
<1>2. /\ a \in CodeIn(lines, base, top) /\ lines[a] \in DOMAIN text
      /\ text[lines[a]].kind = "op" /\ Source(i, a) = text[lines[a]]
  BY <1>1 DEF Instructions, FromInstruction, Source, Line
<1>3. args \in Seq(Files) /\ Remembers(args, i + 1, 1, bin.data)
  BY <1>1, BinOf DEF Assembled
<1>4. n \in Texts /\ n # NoText
  BY <1>1, <1>3, DeclaredNames
<1>5. n \in DOMAIN bin.data /\ ValuesOf(i, n) = bin.data[n]
  BY <1>1, <1>3, <1>4, DataOf
<1>6. \A e \in LabelsOf(text) : text[e].name # n
  BY DEF HasLabel, LabelLines, Line
<1>7. Linking(bin, mem, base, top, a, n)
  <2>1. Symbolic(text[lines[a]]) /\ n = Operand(text[lines[a]])
    BY <1>2
  <2> QED BY <1>1, <1>2, <2>1, SymbolOf
<1>8. \E b \in Addresses :
        /\ mem[a].low = Low(b)
        /\ \A k \in DOMAIN bin.data[n] :
             /\ b + k - 1 \in Addresses \ CodeIn(lines, base, top)
             /\ b + k - 1 \in base..(top - 1)
             /\ mem[b + k - 1] = IntBits(bin.data[n][k])
  BY <1>1, <1>4, <1>5, <1>6, <1>7, VariablesPlaced
<1>9. Code(i) = CodeIn(lines, base, top)
  BY <1>1
<1>10. PICK b \in Addresses :
        /\ ram[a].low = Low(b)
        /\ \A k \in DOMAIN ValuesOf(i, n) :
             /\ b + k - 1 \in Addresses \ Code(i)
             /\ b + k - 1 \in initProgram[i]..(initProgram[i + 1] - 1)
             /\ ram[b + k - 1] = IntBits(ValuesOf(i, n)[k])
  BY <1>5, <1>8, <1>9
<1> QED BY <1>10

(* Any other symbol that is declared holds an address, cut to 16 bits, in  *)
(* the data of its own program, where the values of its last declaration   *)
(* are (assembler.cpp:69, 313-319, 372; loader.cpp:52-70, 106-112).        *)
THEOREM VariablesMeant == Spec => []VariablesAsDeclared
BY Types, AssembledAsWritten, LoadedAsRead, PlacedVariables, PTL


-----------------------------------------------------------------------------
(* Stopping.                                                               *)

(* The loader has stopped at a label or at a variable.                     *)
StoppedAt ==
  aborted =>
    /\ file > Len(args)
    /\ Program <= Len(args)
    /\ \/ /\ position <= Len(Bin.code)
          /\ Bin.code[position].label # NoText
          /\ Bin.code[position].label \in LongNames
       \/ \E v \in Unread : Stops(v)

LEMMA NextStopped ==
  ASSUME TypeOK, LoadedSoFar, StoppedAt, [Next]_vars PROVE StoppedAt'
<1>1. CASE AssemblerStep /\ UNCHANGED loaderVars
  <2>1. file <= Len(args)
    BY <1>1 DEF AssemblerStep, AsmSection, AsmLabel, ReadsLabel, AsmInstruction, AsmVariable,
                AsmWrite, Written, Reads
  <2>2. aborted' = FALSE
    BY <1>1, <2>1 DEF LoadedSoFar, LoaderInit, loaderVars
  <2> QED BY <2>2 DEF StoppedAt
<1>2. CASE LoaderStep /\ UNCHANGED assemblerVars
  <2>1. Loading /\ aborted = FALSE
    <3>1. Loading
      BY <1>2 DEF LoaderStep, LoadInstruction, LoadLabel, AtLabel, LoadVariable, LoadStore,
                  LoadReturn, NextProgram, Storing, ReadingCode, ReadingData
    <3> QED BY <3>1 DEF Loading, TypeOK, LoaderTypeOK
  <2>2. CASE aborted' = aborted
    BY <2>1, <2>2 DEF StoppedAt
  <2>3. CASE Abort
    <3>1. /\ UNCHANGED <<args, file, bins>>
          /\ UNCHANGED <<initProgram, position, variableAddresses, address>>
      BY <1>2, <2>3 DEF Abort, placing, image, assemblerVars
    <3>2. /\ Bin' = Bin /\ Program' = Program /\ Unread' = Unread
          /\ \A v : Stops(v)' = Stops(v)
      BY <3>1 DEF Bin, Program, Unread, Stops
    <3>3. file > Len(args) /\ Program <= Len(args)
      BY <2>1 DEF Loading
    <3>4. \/ /\ position <= Len(Bin.code)
             /\ Bin.code[position].label # NoText
             /\ Bin.code[position].label \in LongNames
          \/ \E v \in Unread : Stops(v)
      <4>1. CASE LoadLabel
        <5>1. AtLabel /\ ReadingCode
          BY <4>1 DEF LoadLabel, AtLabel
        <5>2. padNameThrows(Bin.code[position].label)
          BY <2>1, <2>3, <4>1 DEF LoadLabel, DefineLabel, Push, Abort
        <5> QED BY <5>1, <5>2 DEF AtLabel, ReadingCode, padNameThrows
      <4>2. CASE LoadVariable
        <5>1. PICK v \in Unread : Stops(v) \/ aborted' = aborted
          BY <4>2 DEF LoadVariable
        <5> QED BY <2>1, <2>3, <5>1 DEF Abort
      <4>3. ~LoadInstruction /\ ~LoadStore /\ ~LoadReturn
        BY <2>1, <2>3 DEF Abort, LoadInstruction, Push, LoadStore, LoadReturn, NextProgram
      <4> QED BY <1>2, <4>1, <4>2, <4>3 DEF LoaderStep
    <3> QED BY <3>1, <3>2, <3>3, <3>4, Zenon DEF StoppedAt
  <2>4. aborted' = aborted \/ Abort
    <3>1. CASE LoadVariable
      BY <3>1 DEF LoadVariable
    <3> QED BY <1>2, <3>1 DEF LoaderStep, LoadInstruction, LoadLabel, DefineLabel, Push, LoadStore,
                              LoadReturn, NextProgram
  <2> QED BY <2>2, <2>3, <2>4
<1>3. CASE UNCHANGED vars
  <2>1. /\ UNCHANGED <<args, file, bins>>
        /\ UNCHANGED <<initProgram, position, variableAddresses, address, aborted>>
    BY <1>3 DEF vars, loaderVars, placing, image, assemblerVars
  <2>2. /\ Bin' = Bin /\ Program' = Program /\ Unread' = Unread
        /\ \A v : Stops(v)' = Stops(v)
    BY <2>1 DEF Bin, Program, Unread, Stops
  <2> QED BY <2>1, <2>2, Zenon DEF StoppedAt
<1> QED BY <1>1, <1>2, <1>3 DEF Next, Started

LEMMA LongLabels ==
  ASSUME NEW text \in Seq(Lines), NEW bin, IsBin(bin), Renders(text, Len(text) + 2, bin.code)
  PROVE  (\E l \in LabelsOf(text) : text[l].name \in LongNames) <=>
         (\E k \in DOMAIN bin.code : bin.code[k].label # NoText /\ bin.code[k].label \in LongNames)
<1> DEFINE c == bin.code
<1>1. DOMAIN c = 1..Len(c)
  BY CodeLength
<1>2. ASSUME NEW l \in LabelsOf(text), text[l].name \in LongNames
      PROVE  \E k \in DOMAIN c : c[k].label # NoText /\ c[k].label \in LongNames
  <2>1. PICK m \in 1..Len(c) : c[m].label = text[l].name /\ c[m].label # NoText
    BY LabelAt
  <2> QED BY <1>1, <1>2, <2>1
<1>3. ASSUME NEW k \in DOMAIN c, c[k].label # NoText, c[k].label \in LongNames
      PROVE  \E l \in LabelsOf(text) : text[l].name \in LongNames
  <2>1. c[k].line \in LabelsOf(text) /\ c[k].label = text[c[k].line].name
    BY <1>1, <1>3, LabelAt
  <2> QED BY <1>3, <2>1
<1> QED BY <1>2, <1>3

(* A long label in the .bin file of a file is one of its lines, a variable *)
(* that cannot be placed one that it or a file before it declares.         *)
LEMMA UnplaceableIn ==
  ASSUME TypeOK, AssembledSoFar, file > Len(args), NEW i \in DOMAIN args, Unshadowed(i),
         NEW bin, bin = bins[args[i].name]
  PROVE  /\ (\E l \in LabelLines(i) : Line(i, l).name \in LongNames) <=>
            (\E k \in DOMAIN bin.code : bin.code[k].label # NoText /\ bin.code[k].label \in LongNames)
         /\ (\E n \in Texts : Declaring(i, n) # {} /\ (n \in LongNames \/ ValuesOf(i, n) = <<>>)) <=>
            (\E v \in DOMAIN bin.data : v \in LongNames \/ bin.data[v] = <<>>)
<1> PICK text : text = args[i].text
  OBVIOUS
<1>1. /\ args \in Seq(Files) /\ text \in Seq(Lines) /\ IsBin(bin)
      /\ Renders(text, Len(text) + 2, bin.code) /\ Remembers(args, i + 1, 1, bin.data)
  BY BinOf DEF Assembled
<1>2. (\E l \in LabelLines(i) : Line(i, l).name \in LongNames) <=>
      (\E k \in DOMAIN bin.code : bin.code[k].label # NoText /\ bin.code[k].label \in LongNames)
  <2>1. (\E l \in LabelsOf(text) : text[l].name \in LongNames) <=>
        (\E k \in DOMAIN bin.code : bin.code[k].label # NoText /\ bin.code[k].label \in LongNames)
    BY <1>1, LongLabels
  <2> QED BY <2>1 DEF LabelLines, Line
<1>5. ASSUME NEW n \in Texts, Declaring(i, n) # {}, n \in LongNames \/ ValuesOf(i, n) = <<>>
      PROVE  \E v \in DOMAIN bin.data : v \in LongNames \/ bin.data[v] = <<>>
  <2>1. n \in DOMAIN bin.data /\ ValuesOf(i, n) = bin.data[n]
    BY <1>1, <1>5, DataOf
  <2> QED BY <1>5, <2>1
<1>6. ASSUME NEW v \in DOMAIN bin.data, v \in LongNames \/ bin.data[v] = <<>>
      PROVE  \E n \in Texts : Declaring(i, n) # {} /\ (n \in LongNames \/ ValuesOf(i, n) = <<>>)
  <2>1. v \in Texts
    BY <1>1 DEF IsBin, IsTable
  <2>2. Declaring(i, v) # {} /\ ValuesOf(i, v) = bin.data[v]
    BY <1>1, <2>1, DataOf
  <2> QED BY <1>6, <2>1, <2>2
<1> QED BY <1>2, <1>5, <1>6, Zenon

(* What has stopped the loader is in its command line.                     *)
LEMMA StoppedFor ==
  ASSUME TypeOK, AssembledSoFar, LoadedSoFar, StoppedAt, aborted
  PROVE  Unplaceable \/ \E v \in Unread : address + Len(Bin.data[v]) > MemorySize
<1>1. file > Len(args) /\ Program <= Len(args)
  BY DEF StoppedAt
<1>2. PICK n \in DOMAIN bins : n = args[Program].name
  <2>1. Program \in 1..(file - 1)
    <3>1. file \in Nat /\ Len(args) \in Nat /\ Program \in Nat \ {0}
      BY ProgramBase, CommandLinesAssumption DEF TypeOK, AssemblerTypeOK
    <3> QED BY <1>1, <3>1
  <2> QED BY <2>1 DEF TypeOK, AssemblerTypeOK
<1>3. PICK i \in DOMAIN args : args[i].name = n /\ Unshadowed(i)
  BY <1>1, FileOf
<1>4. PICK bin : bin = bins[args[i].name] /\ bin = Bin
  BY <1>2, <1>3 DEF Bin
<1>5. IsBin(bin)
  BY <1>1, <1>3, <1>4, BinOf
<1>6. CASE /\ position <= Len(bin.code)
           /\ bin.code[position].label # NoText
           /\ bin.code[position].label \in LongNames
  <2>1. position \in DOMAIN bin.code
    <3>1. position \in Nat \ {0} /\ Len(bin.code) \in Nat /\ DOMAIN bin.code = 1..Len(bin.code)
      BY <1>5, CodeLength DEF TypeOK, LoaderTypeOK
    <3> QED BY <1>6, <3>1
  <2>2. \E l \in LabelLines(i) : Line(i, l).name \in LongNames
    BY <1>1, <1>3, <1>4, <1>6, <2>1, UnplaceableIn
  <2> QED BY <1>3, <2>2 DEF Unplaceable
<1>7. ASSUME NEW v \in Unread, Stops(v)
      PROVE  Unplaceable \/ address + Len(Bin.data[v]) > MemorySize
  <2>1. CASE v \in LongNames \/ bin.data[v] = <<>>
    <3>1. v \in DOMAIN bin.data
      BY <1>4 DEF Unread
    <3>2. \E x \in Texts : Declaring(i, x) # {} /\ (x \in LongNames \/ ValuesOf(i, x) = <<>>)
      BY <1>1, <1>3, <1>4, <2>1, <3>1, UnplaceableIn
    <3> QED BY <1>3, <3>2 DEF Unplaceable
  <2> QED BY <1>4, <1>7, <2>1 DEF Stops, padNameThrows
<1> QED BY <1>4, <1>6, <1>7 DEF StoppedAt

(* All programs are loaded: nothing in them was unplaceable.               *)
LEMMA AllPlaceable ==
  ASSUME TypeOK, AssembledSoFar, LoadedSoFar, Program > Len(args) PROVE ~Unplaceable
<1>1. /\ Len(args) \in Nat /\ DOMAIN args = 1..Len(args) /\ Program \in Nat \ {0} /\ file \in Nat
  BY ProgramBase, CommandLinesAssumption DEF TypeOK, AssemblerTypeOK
<1> SUFFICES ASSUME NEW i \in DOMAIN args, Unshadowed(i),
                    \/ \E l \in LabelLines(i) : Line(i, l).name \in LongNames
                    \/ \E n \in Texts : Declaring(i, n) # {} /\ (n \in LongNames \/ ValuesOf(i, n) = <<>>)
             PROVE  FALSE
  BY Zenon DEF Unplaceable
<1>2. file > Len(args)
  <2>1. LoaderInit => Program = 1
    BY DEF LoaderInit, Program
  <2>2. Len(args) >= 1
    BY <1>1
  <2> QED BY <1>1, <2>1, <2>2 DEF LoadedSoFar
<1>3. PICK bin : bin = bins[args[i].name]
  OBVIOUS
<1>4. Placed(ram, origin, initProgram[i], initProgram[i + 1], bin)
  <2>1. i \in 1..(Program - 1)
    BY <1>1
  <2> QED BY <1>3, <2>1 DEF LoadedSoFar
<1>5. /\ \A k \in DOMAIN bin.code : bin.code[k].label # NoText => bin.code[k].label \notin LongNames
      /\ \A v \in DOMAIN bin.data : v \notin LongNames /\ bin.data[v] # <<>>
  BY <1>4 DEF Placed
<1>6. \/ \E k \in DOMAIN bin.code : bin.code[k].label # NoText /\ bin.code[k].label \in LongNames
      \/ \E v \in DOMAIN bin.data : v \in LongNames \/ bin.data[v] = <<>>
  BY <1>2, <1>3, UnplaceableIn
<1> QED BY <1>5, <1>6

(* The simulator stops before it starts only for what padName cannot pad,  *)
(* a list without a value or data that does not fit, and does not start    *)
(* with the first two (loader.cpp:14-16, 52-69, 81).                       *)
THEOREM StopsExactly == Spec => []AbortsExactly
<1>1. Init => StoppedAt
  BY DEF Init, LoaderInit, StoppedAt
<1>2. TypeOK /\ LoadedSoFar /\ StoppedAt /\ [Next]_vars => StoppedAt'
  BY NextStopped
<1>3. TypeOK /\ AssembledSoFar /\ LoadedSoFar /\ StoppedAt => AbortsExactly
  BY StoppedFor, AllPlaceable DEF AbortsExactly
<1> QED BY <1>1, <1>2, <1>3, Types, AssembledAsWritten, LoadedAsRead, PTL DEF Spec


-----------------------------------------------------------------------------
(* Instructions.                                                           *)

(* In words of the width of the code, the control unit reads the number an *)
(* operand has in its word exactly below Limit (CONTROL_UNIT.cpp:68-78).   *)
THEOREM ImmediatesRead == ASSUME Legible PROVE Spec => []ImmediatesExact
<1>1. TypeOK => ImmediatesExact
  <2> SUFFICES ASSUME TypeOK, NEW i \in Loaded, NEW a \in Instructions(i)
               PROVE  ConvertToDecimalValue(ram[a].low) = ram[a].low <=> ram[a].low < Limit
    BY DEF ImmediatesExact
  <2>1. ram[a] \in Words
    BY DEF Instructions, Code, TypeOK, LoaderTypeOK
  <2>2. ram[a].low \in Half
    BY <2>1 DEF Words
  <2> QED BY <2>2, ConvertsExactly
<1> QED BY <1>1, Types, PTL

(* Two instructions that agree in what is decoded of their operation.      *)
LEMMA DecodedSame ==
  ASSUME NEW i, NEW j, i.op = j.op,
         i.op \in Arithmetic \cup Comparing => i.rs = j.rs,
         i.op \in Arithmetic => i.rd = j.rd,
         i.op \in Arithmetic \cup Immediate \cup Comparing
           \/ (i.op = "PRINT" /\ i.imm = NoImm) => i.rt = j.rt,
         i.op \notin Arithmetic => i.imm = j.imm
  PROVE  Decoded(i, EmptySlot) = Decoded(j, EmptySlot)
<1> PICK op : op = IF i.op \in Identified THEN i.op ELSE ""
  OBVIOUS
<1>1. op = IF j.op \in Identified THEN j.op ELSE ""
  OBVIOUS
<1>2. op # "" => op = i.op
  OBVIOUS
<1>3. "" \notin Arithmetic \cup Immediate \cup Comparing
  BY DEF Arithmetic, Immediate, Comparing
<1>4. "PRINT" \notin Arithmetic /\ "J" \notin Arithmetic
      /\ Arithmetic \cap Immediate = {} /\ Arithmetic \cap Comparing = {}
  BY DEF Arithmetic, Immediate, Comparing
<1>5. /\ op \in Arithmetic \cup Comparing => i.rs = j.rs
      /\ op \in Arithmetic => i.rd = j.rd
      /\ op \in Arithmetic \cup Immediate \cup Comparing
           \/ (op = "PRINT" /\ i.imm = NoImm) => i.rt = j.rt
      /\ op \in Immediate \cup Comparing \cup {"J", "PRINT"} => i.imm = j.imm
  BY <1>2, <1>3, <1>4
<1> QED BY <1>1, <1>5 DEF Decoded

LEMMA DecodedAs ==
  ASSUME NEW i, NEW op, NEW rs, NEW rt, NEW rd, NEW imm, i.op = op,
         op \in Arithmetic \cup Comparing => i.rs = rs,
         op \in Arithmetic => i.rd = rd,
         op \in Arithmetic \cup Immediate \cup Comparing
           \/ (op = "PRINT" /\ i.imm = NoImm) => i.rt = rt,
         op \notin Arithmetic => i.imm = imm
  PROVE  Decoded(i, EmptySlot) = Decoded(Instr(op, rs, rt, rd, imm), EmptySlot)
<1> PICK j : j = Instr(op, rs, rt, rd, imm)
  OBVIOUS
<1>1. j.op = op /\ j.rs = rs /\ j.rt = rt /\ j.rd = rd /\ j.imm = imm
  BY DEF Instr
<1>2. Decoded(i, EmptySlot) = Decoded(j, EmptySlot)
  BY <1>1, DecodedSame
<1> QED BY <1>2

(* A word with another low half.                                           *)
LEMMA LowReplaced ==
  ASSUME NEW op, NEW rs, NEW rt, NEW low, NEW new
  PROVE  /\ [IType(op, rs, rt, low) EXCEPT !.low = new] = IType(op, rs, rt, new)
         /\ IType(op, rs, rt, low).low = low
BY DEF IType, Bits

LEMMA RegisterCode ==
  ASSUME NEW r \in DOMAIN registerMap PROVE getRegisterCode(r) = registerMap[r]
BY DEF getRegisterCode

(* What an instruction means, kind by kind.                                *)
LEMMA Meanings ==
  ASSUME NEW s, NEW imm
  PROVE  /\ s.op \in Calculating =>
              Meaning(s, imm) = Instr(s.op, s.args[2], s.args[3], s.args[1], NoImm)
         /\ s.op \in Branching => Meaning(s, imm) = Instr(s.op, s.args[1], s.args[2], NoReg, imm)
         /\ s.op \in Immediate => Meaning(s, imm) = Instr(s.op, NoReg, s.args[1], NoReg, imm)
         /\ s.op = "J" \/ PrintsWord(s) => Meaning(s, imm) = Instr(s.op, NoReg, NoReg, NoReg, imm)
         /\ s.op = "PRINT" /\ ~PrintsWord(s) =>
              Meaning(s, imm) = Instr("PRINT", NoReg, s.args[1], NoReg, NoImm)
<1>1. /\ s.op \in Calculating => s.op \notin Branching \cup Immediate \cup {"J", "PRINT"}
      /\ s.op \in Branching => s.op \notin Immediate \cup {"J", "PRINT"}
      /\ s.op \in Immediate => s.op \notin {"J", "PRINT"}
  BY DEF Calculating, Branching, Immediate
<1>2. PrintsWord(s) => s.op = "PRINT"
  BY DEF PrintsWord
<1> PICK a : a = Instr(s.op, s.args[2], s.args[3], s.args[1], NoImm)
  OBVIOUS
<1> PICK b : b = Instr(s.op, s.args[1], s.args[2], NoReg, imm)
  OBVIOUS
<1> PICK c : c = Instr(s.op, NoReg, s.args[1], NoReg, imm)
  OBVIOUS
<1> PICK d : d = Instr(s.op, NoReg, NoReg, NoReg, imm)
  OBVIOUS
<1> PICK e : e = Instr("PRINT", NoReg, s.args[1], NoReg, NoImm)
  OBVIOUS
<1>3. Meaning(s, imm) = CASE s.op \in Calculating -> a
                          [] s.op \in Branching -> b
                          [] s.op \in Immediate -> c
                          [] s.op = "J" \/ PrintsWord(s) -> d
                          [] OTHER -> e
  BY DEF Meaning
<1>4. /\ s.op \in Calculating => Meaning(s, imm) = a
      /\ s.op \in Branching => Meaning(s, imm) = b
      /\ s.op \in Immediate => Meaning(s, imm) = c
      /\ s.op = "J" \/ PrintsWord(s) => Meaning(s, imm) = d
      /\ s.op = "PRINT" /\ ~PrintsWord(s) => Meaning(s, imm) = e
  BY <1>1, <1>2, <1>3
<1> QED BY <1>4

(* A word that encodes an instruction, with a number that can be told, is  *)
(* read as that instruction.                                               *)
LEMMA ReadAsWritten ==
  ASSUME Legible, NEW s \in Lines, s.kind = "op", NEW bits \in Words, Encodes(s, bits),
         Named(s) \subseteq DOMAIN registerMap,
         NEW low \in Half, ~Symbolic(s) => low = bits.low,
         NEW w \in Words, w = [bits EXCEPT !.low = low],
         s.op \in Calculating \/ low < Limit,
         PrintsWord(s) => low # 0
  PROVE  /\ Decoded(Read(w), EmptySlot) = Decoded(Meaning(s, Read(w).imm), EmptySlot)
         /\ s.op \notin Calculating /\ Operand(s) \in DOMAIN Stoi =>
              Read(w).imm = Low(Stoi[Operand(s)])
<1> DEFINE x == s.args[1]
           y == s.args[2]
           z == s.args[3]
<1> PICK r : r = Read(w)
  OBVIOUS
<1>0. w.low = low
  BY DEF Words
<1>1. s.op \notin Calculating => ConvertToDecimalValue(low) = low
  BY <1>0, ConvertsExactly
<1>2. "zero" \in DOMAIN registerMap /\ registerMap["zero"] = 0
  BY DEF registerMap
<1>3. s.op \in DOMAIN instructionMap
  BY DEF Lines
<1>4. /\ s.op \in Calculating => Named(s) = {x, y, z}
      /\ s.op \in Branching => Named(s) = {x, y}
      /\ s.op \in Immediate => Named(s) = {x}
  BY DEF Named, Calculating, Branching, Immediate
<1>5. CASE s.op \in Calculating
  <2>1. bits = RType(s.op, registerMap[y], registerMap[z], registerMap[x])
        /\ x \in DOMAIN registerMap /\ y \in DOMAIN registerMap /\ z \in DOMAIN registerMap
    <3>1. bits = RType(s.op, getRegisterCode(y), getRegisterCode(z), getRegisterCode(x))
      BY <1>5 DEF Encodes, Calculating, Branching, Immediate, PrintsWord
    <3> QED BY <1>4, <1>5, <3>1, RegisterCode
  <2>2. w = bits
    <3>1. ~Symbolic(s)
      BY <1>5 DEF Symbolic
    <3> QED BY <3>1 DEF Words
  <2>3. r.op = s.op /\ r.rs = y /\ r.rt = z /\ r.rd = x
    <3>1. s.op # "END"
      BY <1>5 DEF Calculating
    <3> QED BY <1>3, <2>1, <2>2, <3>1, ReadsBackDestination
  <2>4. Meaning(s, r.imm) = Instr(s.op, y, z, x, NoImm)
    BY <1>5, Meanings
  <2>5. s.op \in Arithmetic
    BY <1>5 DEF Calculating, Arithmetic
  <2> QED BY <1>5, <2>3, <2>4, <2>5, DecodedAs
<1>6. ASSUME NEW op \in DOMAIN instructionMap \ {"END"}, s.op = op,
             NEW a \in DOMAIN registerMap, NEW b \in DOMAIN registerMap, NEW n,
             bits = IType(op, registerMap[a], registerMap[b], n)
      PROVE  /\ r.op = op /\ r.rs = a /\ r.rt = b /\ bits.low = n
             /\ op \notin Calculating =>
                  r.imm = IF op = "PRINT" /\ low = 0 THEN NoImm ELSE low
  <2>1. w = IType(op, registerMap[a], registerMap[b], low) /\ bits.low = n
    BY <1>6, LowReplaced
  <2> QED BY <1>1, <1>6, <2>1, ReadsBack
<1>7. CASE s.op \in Branching
  <2>1. /\ bits = IType(s.op, registerMap[x], registerMap[y], NumberIn(s))
        /\ x \in DOMAIN registerMap /\ y \in DOMAIN registerMap
    <3>1. bits = IType(s.op, getRegisterCode(x), getRegisterCode(y), NumberIn(s))
      BY <1>7 DEF Encodes, Calculating, Branching, Immediate, PrintsWord
    <3> QED BY <1>4, <1>7, <3>1, RegisterCode
  <2>2. s.op # "END" /\ s.op \notin Calculating \cup Immediate \cup Arithmetic /\ s.op # "PRINT"
    BY <1>7 DEF Branching, Calculating, Immediate, Arithmetic
  <2>3. r.op = s.op /\ r.rs = x /\ r.rt = y /\ bits.low = NumberIn(s) /\ r.imm = low
    BY <1>3, <1>6, <2>1, <2>2
  <2>4. Meaning(s, r.imm) = Instr(s.op, x, y, NoReg, r.imm)
    BY <1>7, Meanings
  <2>5. Operand(s) \in DOMAIN Stoi => r.imm = Low(Stoi[Operand(s)])
    <3>1. ~Symbolic(s) /\ Operand(s) \in DOMAIN Stoi => bits.low = Low(Stoi[Operand(s)])
      BY <2>3 DEF NumberIn
    <3>2. Operand(s) \in DOMAIN Stoi => ~Symbolic(s)
      BY DEF Symbolic
    <3> QED BY <2>3, <3>1, <3>2
  <2> QED BY <2>2, <2>3, <2>4, <2>5, DecodedAs
<1>8. CASE s.op \in Immediate
  <2>1. bits = IType(s.op, 0, registerMap[x], NumberIn(s)) /\ x \in DOMAIN registerMap
    <3>1. bits = IType(s.op, 0, getRegisterCode(x), NumberIn(s))
      BY <1>8 DEF Encodes, Calculating, Branching, Immediate, PrintsWord
    <3> QED BY <1>4, <1>8, <3>1, RegisterCode
  <2>2. s.op # "END" /\ s.op \notin Calculating \cup Branching \cup Arithmetic \cup Comparing
        /\ s.op # "PRINT"
    BY <1>8 DEF Branching, Calculating, Immediate, Arithmetic, Comparing
  <2>3. r.op = s.op /\ r.rt = x /\ bits.low = NumberIn(s) /\ r.imm = low
    BY <1>2, <1>3, <1>6, <2>1, <2>2
  <2>4. Meaning(s, r.imm) = Instr(s.op, NoReg, x, NoReg, r.imm)
    BY <1>8, Meanings
  <2>5. Operand(s) \in DOMAIN Stoi => r.imm = Low(Stoi[Operand(s)])
    <3>1. ~Symbolic(s) /\ Operand(s) \in DOMAIN Stoi => bits.low = Low(Stoi[Operand(s)])
      BY <2>3 DEF NumberIn
    <3>2. Operand(s) \in DOMAIN Stoi => ~Symbolic(s)
      BY DEF Symbolic
    <3> QED BY <2>3, <3>1, <3>2
  <2> QED BY <2>2, <2>3, <2>4, <2>5, DecodedAs
<1>9. CASE s.op = "J" \/ PrintsWord(s)
  <2>1. bits = IType(s.op, 0, 0, NumberIn(s))
    BY <1>9 DEF Encodes, Calculating, Branching, Immediate, PrintsWord
  <2>2. s.op # "END" /\ s.op \notin Calculating \cup Branching \cup Immediate \cup Arithmetic \cup Comparing
    BY <1>9 DEF Branching, Calculating, Immediate, Arithmetic, Comparing, PrintsWord
  <2>3. r.op = s.op /\ bits.low = NumberIn(s)
        /\ r.imm = IF s.op = "PRINT" /\ low = 0 THEN NoImm ELSE low
    BY <1>2, <1>3, <1>6, <2>1, <2>2
  <2>7. r.imm = low
    BY <1>9, <2>3 DEF PrintsWord
  <2>4. Meaning(s, r.imm) = Instr(s.op, NoReg, NoReg, NoReg, r.imm)
    BY <1>9, Meanings
  <2>5. Operand(s) \in DOMAIN Stoi => r.imm = Low(Stoi[Operand(s)])
    <3>1. ~Symbolic(s) /\ Operand(s) \in DOMAIN Stoi => bits.low = Low(Stoi[Operand(s)])
      BY <2>3 DEF NumberIn
    <3>2. Operand(s) \in DOMAIN Stoi => ~Symbolic(s)
      BY DEF Symbolic
    <3> QED BY <2>3, <2>7, <3>1, <3>2
  <2>6. ~(s.op = "PRINT" /\ r.imm = NoImm)
    BY <2>7 DEF Half, NoImm
  <2> QED BY <2>2, <2>3, <2>4, <2>5, <2>6, DecodedAs
<1>10. CASE s.op = "PRINT" /\ ~PrintsWord(s)
  <2>1. bits = IType(s.op, 0, registerMap[x], 0) /\ x \in DOMAIN registerMap /\ Operand(s) = x
    <3>1. bits = IType(s.op, 0, getRegisterCode(x), 0)
      BY <1>10 DEF Encodes, Calculating, Branching, Immediate, PrintsWord
    <3>2. Operand(s) = x
      BY <1>10, Arities DEF Operand
    <3> QED BY <1>10, <3>1, <3>2, RegisterCode DEF PrintsWord
  <2>2. s.op # "END" /\ s.op \notin Calculating \cup Branching \cup Immediate \cup Arithmetic \cup Comparing
        /\ s.op # "J"
    BY <1>10 DEF Branching, Calculating, Immediate, Arithmetic, Comparing
  <2>3. r.op = s.op /\ r.rt = x /\ bits.low = 0
        /\ r.imm = IF s.op = "PRINT" /\ low = 0 THEN NoImm ELSE low
    BY <1>2, <1>3, <1>6, <2>1, <2>2
  <2>4. Meaning(s, r.imm) = Instr("PRINT", NoReg, x, NoReg, NoImm)
    BY <1>10, Meanings
  <2>5. r.imm = NoImm
    BY <1>10, <2>3 DEF Symbolic
  <2>6. Operand(s) \notin DOMAIN Stoi
    BY <2>1, StoiAssumption
  <2> QED BY <1>10, <2>2, <2>3, <2>4, <2>5, <2>6, DecodedAs
<1>11. \/ s.op \in Calculating \/ s.op \in Branching \/ s.op \in Immediate
       \/ s.op = "J" \/ PrintsWord(s) \/ (s.op = "PRINT" /\ ~PrintsWord(s))
  BY DEF Encodes
<1> QED BY <1>5, <1>7, <1>8, <1>9, <1>10, <1>11

(* In a word whose symbol is known the low half alone is replaced.         *)
LEMMA WordOf ==
  ASSUME NEW text, NEW bin, NEW mem, NEW lines, NEW base, NEW top,
         Laid(text, bin, mem, lines, base, top), NEW item \in Items, NEW w, NEW end, NEW to,
         Linked(mem, item, w, bin, base, end, to),
         \/ item.sym = NoText
         \/ item.sym \in DOMAIN bin.data
         \/ \E e \in LabelsOf(text) : text[e].name = item.sym
  PROVE  \E low \in Half : /\ w = [item.bits EXCEPT !.low = low]
                           /\ item.sym = NoText => low = item.bits.low
<1>1. /\ IsBin(bin) /\ text \in Seq(Lines) /\ Renders(text, Len(text) + 2, bin.code)
      /\ base \in Nat
  BY DEF Laid
<1> PICK n : n = item.sym
  OBVIOUS
<1>2. CASE n = NoText
  <2>1. w = item.bits /\ item.bits \in Words
    BY <1>2 DEF Linked, Items
  <2>2. item.bits.low \in Half /\ item.bits = [item.bits EXCEPT !.low = item.bits.low]
    BY <2>1 DEF Words
  <2> QED BY <2>1, <2>2
<1>3. \A b \in Int : w = Pointing(item, b) /\ n # NoText =>
        \E low \in Half : /\ w = [item.bits EXCEPT !.low = low]
                          /\ item.sym = NoText => low = item.bits.low
  BY LowHalf DEF Pointing
<1>4. ASSUME n # NoText, NEW e \in LabelsOf(text), text[e].name = n
      PROVE  \E b \in Int : w = Pointing(item, b)
  <2> DEFINE L == {k \in LabelsOf(text) : text[k].name = n}
  <2>1. L # {} /\ L \in SUBSET Nat /\ Len(text) \in Nat /\ \A x \in L : x <= Len(text)
    <3>1. \A x \in LabelsOf(text) : x \in 1..Len(text)
      BY <1>1, TextLines
    <3> QED BY <1>1, <1>4, <3>1
  <2>2. PICK l \in L : \A x \in L : x <= l
    <3> HIDE DEF L
    <3> QED BY <2>1, MaxFound
  <2>3. l \in LabelsOf(text) /\ text[l].name = n
        /\ \A x \in LabelsOf(text) : text[x].name = text[l].name => x <= l
    BY <2>2
  <2> HIDE DEF L
  <2>4. PICK m \in 1..Len(bin.code) : LastLabel(bin.code, n, Len(bin.code) + 1, m)
    BY <2>3, LabelsPlaced
  <2>5. m \in DOMAIN bin.code /\ Before(bin.code, m) \in Nat
    <3>1. m \in Nat
      BY <1>1, CodeLength
    <3> QED BY <1>1, <3>1, CodeLength
  <2>6. w = Pointing(item, base + Before(bin.code, m))
    BY <1>4, <2>4, <2>5 DEF Linked
  <2> QED BY <1>1, <2>5, <2>6
<1>5. ASSUME n # NoText, n \in DOMAIN bin.data, \A e \in LabelsOf(text) : text[e].name # n
      PROVE  \E b \in Int : w = Pointing(item, b)
  <2>1. \A m \in DOMAIN bin.code : bin.code[m].label # n
    <3> SUFFICES ASSUME NEW m \in DOMAIN bin.code, bin.code[m].label = n PROVE FALSE
      OBVIOUS
    <3>1. m \in 1..Len(bin.code)
      BY <1>1, CodeLength
    <3> QED BY <1>1, <1>5, <3>1, LabelAt
  <2>2. PICK b \in Addresses : w = Pointing(item, b)
    BY <1>5, <2>1 DEF Linked
  <2>3. b \in Int
    BY <2>2, MemorySizeAssumption DEF Addresses
  <2> QED BY <2>2, <2>3
<1> QED BY <1>2, <1>3, <1>4, <1>5

LEMMA ReadEnd == Read(EndBits) = End
BY DEF Read

(* An instruction of a loaded file: its word is as encoded, but for the    *)
(* low half where the symbol is known.                                     *)
LEMMA LoadedWord ==
  ASSUME TypeOK, AssembledSoFar, LoadedSoFar, NEW i \in Loaded, NEW a \in Instructions(i)
  PROVE  LET s == Source(i, a) IN
         /\ s \in Lines /\ s.kind = "op"
         /\ \E bits \in Words :
              /\ Encodes(s, bits)
              /\ (Symbolic(s) => \/ s.op \in {"LW", "SW"}
                                 \/ HasLabel(i, Operand(s))
                                 \/ Declaring(i, Operand(s)) # {})
                   => \E low \in Half : /\ ram[a] = [bits EXCEPT !.low = low]
                                        /\ ~Symbolic(s) => low = bits.low
<1> PICK text, bin, base, top, mem, lines :
      /\ text = args[i].text /\ bin = bins[args[i].name] /\ base = initProgram[i]
      /\ top = initProgram[i + 1] /\ mem = ram /\ lines = origin
  OBVIOUS
<1>1. /\ Laid(text, bin, mem, lines, base, top) /\ Code(i) = CodeIn(lines, base, top)
      /\ file > Len(args) /\ i \in DOMAIN args /\ Unshadowed(i)
  BY LoadedLaid
<1>2. PICK s : /\ s = Source(i, a) /\ s = text[lines[a]] /\ s.kind = "op"
               /\ a \in CodeIn(lines, base, top) /\ lines[a] \in DOMAIN text
  BY <1>1 DEF Instructions, FromInstruction, Source, Line
<1>3. s \in Lines
  <2>1. text \in Seq(Lines)
    BY <1>1 DEF Laid
  <2> QED BY <1>2, <2>1
<1>4. PICK k \in DOMAIN bin.code :
        /\ bin.code[k] \in Items /\ bin.code[k].label = NoText /\ bin.code[k].line = lines[a]
        /\ Linked(mem, bin.code[k], mem[a], bin, base,
                  base + Before(bin.code, Len(bin.code) + 1), top - 1)
        /\ bin.code[k].sym = IF Symbolic(s) THEN Operand(s) ELSE NoText
        /\ Encodes(s, bin.code[k].bits)
  BY <1>1, <1>2, ItemOf
<1>5. PICK item \in Items : item = bin.code[k]
  BY <1>4
<1>6. item.bits \in Words
  BY DEF Items
<1>7. args \in Seq(Files) /\ Remembers(args, i + 1, 1, bin.data) /\ Finds(text, bin.code, bin.data)
  BY <1>1, BinOf DEF Assembled
<1>8. ASSUME Symbolic(s) => \/ s.op \in {"LW", "SW"}
                            \/ HasLabel(i, Operand(s))
                            \/ Declaring(i, Operand(s)) # {}
      PROVE  \/ item.sym = NoText
             \/ item.sym \in DOMAIN bin.data
             \/ \E e \in LabelsOf(text) : text[e].name = item.sym
  <2>1. CASE ~Symbolic(s)
    BY <1>4, <1>5, <2>1
  <2>2. CASE Symbolic(s) /\ s.op \in {"LW", "SW"}
    <3>1. Operand(s) \in DOMAIN bin.data
      BY <1>2, <1>4, <1>7, <2>2 DEF Finds
    <3> QED BY <1>4, <1>5, <2>2, <3>1
  <2>3. CASE Symbolic(s) /\ HasLabel(i, Operand(s))
    <3>1. \E e \in LabelsOf(text) : text[e].name = Operand(s)
      BY <2>3 DEF HasLabel, LabelLines, Line
    <3> QED BY <1>4, <1>5, <2>3, <3>1
  <2>4. CASE Symbolic(s) /\ Declaring(i, Operand(s)) # {}
    <3>1. Operand(s) \in Texts
      BY <1>1, <1>7, <2>4, DeclaredNames
    <3>2. Operand(s) \in DOMAIN bin.data
      BY <1>1, <1>7, <2>4, <3>1, DataOf
    <3> QED BY <1>4, <1>5, <2>4, <3>2
  <2> QED BY <1>8, <2>1, <2>2, <2>3, <2>4
<1>9. ASSUME Symbolic(s) => \/ s.op \in {"LW", "SW"}
                            \/ HasLabel(i, Operand(s))
                            \/ Declaring(i, Operand(s)) # {}
      PROVE  \E low \in Half : /\ mem[a] = [item.bits EXCEPT !.low = low]
                               /\ ~Symbolic(s) => low = item.bits.low
  <2> PICK w : w = mem[a]
    OBVIOUS
  <2>1. \/ item.sym = NoText
        \/ item.sym \in DOMAIN bin.data
        \/ \E e \in LabelsOf(text) : text[e].name = item.sym
    BY <1>8, <1>9
  <2>2. Laid(text, bin, mem, lines, base, top)
    BY <1>1
  <2>3. Linked(mem, item, w, bin, base, base + Before(bin.code, Len(bin.code) + 1), top - 1)
    BY <1>4, <1>5
  <2>4. \E low \in Half : /\ w = [item.bits EXCEPT !.low = low]
                          /\ item.sym = NoText => low = item.bits.low
    BY <2>1, <2>2, <2>3, WordOf
  <2>5. PICK low \in Half : /\ w = [item.bits EXCEPT !.low = low]
                            /\ item.sym = NoText => low = item.bits.low
    BY <2>4
  <2> QED BY <1>4, <1>5, <2>5
<1> QED BY <1>2, <1>3, <1>4, <1>5, <1>6, <1>9

LEMMA PlacedInstructions ==
  ASSUME Legible PROVE TypeOK /\ AssembledSoFar /\ LoadedSoFar => InstructionsAsWritten
<1> SUFFICES ASSUME TypeOK, AssembledSoFar, LoadedSoFar PROVE InstructionsAsWritten
  OBVIOUS
<1>1. ASSUME NEW i \in Loaded, NEW a \in Code(i), ~FromInstruction(i, a)
      PROVE  Read(ram[a]) = End
  <2> PICK text, bin, base, top, mem, lines :
        /\ text = args[i].text /\ bin = bins[args[i].name] /\ base = initProgram[i]
        /\ top = initProgram[i + 1] /\ mem = ram /\ lines = origin
    OBVIOUS
  <2>1. Laid(text, bin, mem, lines, base, top) /\ Code(i) = CodeIn(lines, base, top)
    BY LoadedLaid
  <2>2. a \in CodeIn(lines, base, top) /\ ~(lines[a] \in DOMAIN text /\ text[lines[a]].kind = "op")
    BY <1>1, <2>1 DEF FromInstruction, Line
  <2>3. PICK k \in DOMAIN bin.code :
          /\ Linked(mem, bin.code[k], mem[a], bin, base,
                    base + Before(bin.code, Len(bin.code) + 1), top - 1)
          /\ bin.code[k].sym = NoText /\ bin.code[k].bits = EndBits
    BY <2>1, <2>2, ItemOf
  <2>4. ram[a] = EndBits
    BY <2>3 DEF Linked
  <2> QED BY <2>4, ReadEnd
<1>2. ASSUME NEW i \in Loaded, NEW a \in Code(i), FromInstruction(i, a)
      PROVE  LET s == Source(i, a)
                 r == Read(ram[a]) IN
             /\ s.op \in {"LW", "SW"} \/ Named(s) \subseteq DOMAIN registerMap
             /\ /\ Named(s) \subseteq DOMAIN registerMap
                /\ Symbolic(s) => \/ s.op \in {"LW", "SW"} \/ HasLabel(i, Operand(s))
                                  \/ Declaring(i, Operand(s)) # {}
                /\ s.op \in Calculating \/ ram[a].low < Limit
                /\ PrintsWord(s) => ram[a].low # 0
                => /\ Decoded(r, EmptySlot) = Decoded(Meaning(s, r.imm), EmptySlot)
                   /\ s.op \notin Calculating /\ Operand(s) \in DOMAIN Stoi =>
                        r.imm = Low(Stoi[Operand(s)])
  <2>1. a \in Instructions(i)
    BY <1>2 DEF Instructions
  <2> PICK s : s = Source(i, a)
    OBVIOUS
  <2>2. /\ s \in Lines /\ s.kind = "op"
        /\ \E bits \in Words :
             /\ Encodes(s, bits)
             /\ (Symbolic(s) => \/ s.op \in {"LW", "SW"}
                                \/ HasLabel(i, Operand(s))
                                \/ Declaring(i, Operand(s)) # {})
                  => \E low \in Half : /\ ram[a] = [bits EXCEPT !.low = low]
                                       /\ ~Symbolic(s) => low = bits.low
    <3>1. LET x == Source(i, a) IN
          /\ x \in Lines /\ x.kind = "op"
          /\ \E bits \in Words :
               /\ Encodes(x, bits)
               /\ (Symbolic(x) => \/ x.op \in {"LW", "SW"}
                                  \/ HasLabel(i, Operand(x))
                                  \/ Declaring(i, Operand(x)) # {})
                    => \E low \in Half : /\ ram[a] = [bits EXCEPT !.low = low]
                                         /\ ~Symbolic(x) => low = bits.low
      BY <2>1, LoadedWord
    <3> QED BY <3>1
  <2>3. PICK bits \in Words :
          /\ Encodes(s, bits)
          /\ (Symbolic(s) => \/ s.op \in {"LW", "SW"}
                             \/ HasLabel(i, Operand(s))
                             \/ Declaring(i, Operand(s)) # {})
               => \E low \in Half : /\ ram[a] = [bits EXCEPT !.low = low]
                                    /\ ~Symbolic(s) => low = bits.low
    BY <2>2
  <2>4. s.op \in {"LW", "SW"} \/ Named(s) \subseteq DOMAIN registerMap
    BY <2>3 DEF Encodes
  <2>5. PICK w \in Words : w = ram[a]
    BY DEF Code, TypeOK, LoaderTypeOK
  <2>6. ASSUME Named(s) \subseteq DOMAIN registerMap,
               Symbolic(s) => \/ s.op \in {"LW", "SW"} \/ HasLabel(i, Operand(s))
                              \/ Declaring(i, Operand(s)) # {},
               s.op \in Calculating \/ w.low < Limit,
               PrintsWord(s) => w.low # 0
        PROVE  /\ Decoded(Read(w), EmptySlot) = Decoded(Meaning(s, Read(w).imm), EmptySlot)
               /\ s.op \notin Calculating /\ Operand(s) \in DOMAIN Stoi =>
                    Read(w).imm = Low(Stoi[Operand(s)])
    <3>1. PICK low \in Half : w = [bits EXCEPT !.low = low] /\ (~Symbolic(s) => low = bits.low)
      BY <2>3, <2>5, <2>6
    <3>2. w.low = low
      BY <3>1 DEF Words
    <3> QED BY <2>2, <2>3, <2>6, <3>1, <3>2, ReadAsWritten
  <2> QED BY <2>4, <2>5, <2>6
<1> QED BY <1>1, <1>2, Zenon DEF InstructionsAsWritten

(* What the control unit reads is what was written: in words whose numbers *)
(* can be told, of 14 and 32 bits among them, every word of code of a file *)
(* that is loaded is decoded as the instruction of its line, with its      *)
(* number in place, and any other word of code is an END                   *)
(* (assembler.cpp:71-99, 247-260, CONTROL_UNIT.cpp:211-309).               *)
THEOREM InstructionsMeant == ASSUME Legible PROVE Spec => []InstructionsAsWritten
<1>1. TypeOK /\ AssembledSoFar /\ LoadedSoFar => InstructionsAsWritten
  BY PlacedInstructions
<1> QED BY <1>1, Types, AssembledAsWritten, LoadedAsRead, PTL

=============================================================================
