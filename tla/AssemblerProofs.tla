--------------------------- MODULE AssemblerProofs ---------------------------
(***************************************************************************)
(* What the assembler makes of the files, for every command line: the      *)
(* invariant that says it line by line, and its proof.                     *)
(***************************************************************************)
EXTENDS StartupProofs

(* The place of an item in the file, an END being before its label.        *)
Rank(item) == 2 * item.line + (IF item.label = NoText THEN 0 ELSE 1)

EndLines(text) == LabelsOf(text) \cup {Len(text) + 1}

(* The number in the word of an instruction: that of its operand, 0 where  *)
(* a symbol is to be replaced.                                             *)
NumberIn(i) == IF Operand(i) \in DOMAIN Stoi THEN Low(Stoi[Operand(i)]) ELSE 0

(* The word of an instruction; of those the assembler knows only lw and sw *)
(* are encoded with a register that is none.                               *)
Encodes(i, bits) ==
  LET code(k) == getRegisterCode(i.args[k]) IN
  /\ i.op \in {"LW", "SW"} \/ Named(i) \subseteq DOMAIN registerMap
  /\ \/ i.op \in Calculating /\ bits = RType(i.op, code(2), code(3), code(1))
     \/ i.op \in Branching /\ bits = IType(i.op, code(1), code(2), NumberIn(i))
     \/ i.op \in Immediate /\ bits = IType(i.op, 0, code(1), NumberIn(i))
     \/ (i.op = "J" \/ PrintsWord(i)) /\ bits = IType(i.op, 0, 0, NumberIn(i))
     \/ i.op = "PRINT" /\ ~PrintsWord(i) /\ bits = IType(i.op, 0, code(1), 0)

(* An item stands for its line: the label, the END before it or at the end *)
(* of the file, or the instruction with the symbol that it names.          *)
Stands(text, item) ==
  IF item.label # NoText
  THEN item.line \in LabelsOf(text) /\ item.label = text[item.line].name
  ELSE \/ /\ item.line \in EndLines(text)
          /\ item.bits = EndBits /\ item.sym = NoText
       \/ /\ item.line \in DOMAIN text
          /\ text[item.line].kind = "op"
          /\ LET i == text[item.line] IN
             /\ item.sym = IF Symbolic(i) THEN Operand(i) ELSE NoText
             /\ Encodes(i, item.bits)

(* A lw or sw in the code has its variable in the data.                    *)
Finds(text, code, data) ==
  \A k \in DOMAIN code :
    LET i == text[code[k].line] IN
    code[k].label = NoText /\ code[k].line \in DOMAIN text
      /\ i.kind = "op" /\ i.op \in {"LW", "SW"}
      => Operand(i) \in DOMAIN data

(* The code is what the lines before l of the text become: in their order, *)
(* with every label, an END where one is due, and no label behind another. *)
Renders(text, l, code) ==
  /\ \A k \in DOMAIN code : code[k].line \in 1..(l - 1) /\ Stands(text, code[k])
  /\ \A k, m \in DOMAIN code : k < m => Rank(code[k]) < Rank(code[m])
  /\ \A e \in LabelsOf(text) : e < l => \E k \in DOMAIN code : Rank(code[k]) = 2 * e + 1
  /\ \A e \in EndLines(text) :
       e < l /\ (e > Len(text) \/ \E f \in LabelsOf(text) : f < e)
         => \E k \in DOMAIN code : Rank(code[k]) = 2 * e
  /\ \A k \in DOMAIN code : code[k].label # NoText /\ k < Len(code) =>
       code[k + 1].label = NoText

Earlier(j, k, i, l) == j < i \/ (j = i /\ k < l)

(* The data is what the declarations before line l of the i-th file left:  *)
(* every variable, with the values of its last declaration.                *)
Remembers(files, i, l, data) ==
  /\ \A j \in DOMAIN files : \A n \in Texts : \A k \in DeclarationsOf(files[j].text, n) :
       Earlier(j, k, i, l) => n \in DOMAIN data
  /\ \A n \in DOMAIN data :
       \E j \in DOMAIN files : \E k \in DeclarationsOf(files[j].text, n) :
         /\ Earlier(j, k, i, l)
         /\ data[n] = Parsed(files[j].text[k].values)
         /\ \A j2 \in DOMAIN files : \A k2 \in DeclarationsOf(files[j2].text, n) :
              Earlier(j2, k2, i, l) => ~Earlier(j, k, j2, k2)

(* The .bin file of the i-th file.                                         *)
Assembled(files, i, bin) ==
  /\ Renders(files[i].text, Len(files[i].text) + 2, bin.code)
  /\ Remembers(files, i + 1, 1, bin.data)
  /\ Finds(files[i].text, bin.code, bin.data)

(* The assembler has made of the lines it has read what they say, whatever *)
(* it does with sections, labels and the data of the files before          *)
(* (assembler.cpp:150-193, 294-319, 340-377).                              *)
AssembledSoFar ==
  /\ Remembers(args, file, line, dataMap)
  /\ file <= Len(args) =>
       /\ line <= Len(Text) + 1
       /\ (textSection <=> InText(Text, line))
       /\ (insideLabel <=> \E e \in LabelsOf(Text) : e < line)
       /\ Renders(Text, line, output)
       /\ Finds(Text, output, dataMap)
  /\ \A n \in DOMAIN bins : \E i \in 1..(file - 1) :
       /\ args[i].name = n
       /\ \A j \in (i + 1)..(file - 1) : args[j].name # n
       /\ Assembled(args, i, bins[n])

-----------------------------------------------------------------------------
(* Lines.                                                                  *)

LEMMA SectionLine ==
  ASSUME NEW l \in Lines, l.kind = "section"
  PROVE  l.text \in BOOLEAN /\ (l = Section(TRUE) <=> l.text)
<1>1. l \in [kind : {"section"}, text : BOOLEAN]
  BY DEF Lines
<1>2. l.text \in BOOLEAN
  BY <1>1
<1>3. l = Section(l.text)
  BY <1>1 DEF Section
<1> QED BY <1>2, <1>3 DEF Section

LEMMA InTextFirst == ASSUME NEW text PROVE ~InText(text, 1)
BY DEF InText

(* Only a section changes whether the next line is in the text section.    *)
LEMMA InTextNext ==
  ASSUME NEW text \in Seq(Lines), NEW l \in 1..Len(text)
  PROVE  /\ text[l].kind = "section" => (InText(text, l + 1) <=> text[l].text)
         /\ text[l].kind # "section" => (InText(text, l + 1) <=> InText(text, l))
<1> DEFINE S == Section(TRUE)
           In == \E s \in 1..l : text[s] = S /\ \A r \in (s + 1)..l : text[r].kind # "section"
<1>0. text[l] \in Lines /\ l \in Nat
  OBVIOUS
<1>1. InText(text, l + 1) <=> In
  <2>1. (l + 1) - 1 = l
    BY <1>0
  <2> QED BY <2>1, Zenon DEF InText
<1>2. CASE text[l].kind = "section"
  <2>1. text[l] = S <=> text[l].text
    BY <1>0, <1>2, SectionLine
  <2> HIDE DEF S
  <2>2. text[l] = S => In
    OBVIOUS
  <2>3. ASSUME In PROVE text[l] = S
    <3>1. PICK s \in 1..l : text[s] = S /\ \A r \in (s + 1)..l : text[r].kind # "section"
      BY <2>3
    <3>2. ~(s < l)
      BY <1>0, <1>2, <3>1
    <3>3. s = l
      BY <3>2
    <3> QED BY <3>1, <3>3
  <2> QED BY <1>1, <1>2, <2>1, <2>2, <2>3, Zenon
<1>3. CASE text[l].kind # "section"
  <2>1. text[l] # S
    BY <1>3 DEF Section
  <2>0. InText(text, l) <=> \E s \in 1..(l - 1) :
                              text[s] = S /\ \A r \in (s + 1)..(l - 1) : text[r].kind # "section"
    BY DEF InText
  <2> HIDE DEF S
  <2>2. ASSUME InText(text, l) PROVE In
    <3>1. PICK s \in 1..(l - 1) : /\ text[s] = S
                                  /\ \A r \in (s + 1)..(l - 1) : text[r].kind # "section"
      BY <2>0, <2>2
    <3>2. \A r \in (s + 1)..l : text[r].kind # "section"
      <4> SUFFICES ASSUME NEW r \in (s + 1)..l PROVE text[r].kind # "section"
        OBVIOUS
      <4>1. r = l \/ r \in (s + 1)..(l - 1)
        OBVIOUS
      <4> QED BY <1>3, <3>1, <4>1
    <3> QED BY <1>0, <3>1, <3>2
  <2>3. ASSUME In PROVE InText(text, l)
    <3>1. PICK s \in 1..l : text[s] = S /\ \A r \in (s + 1)..l : text[r].kind # "section"
      BY <2>3
    <3>2. s \in 1..(l - 1)
      <4>1. s # l
        BY <2>1, <3>1
      <4> QED BY <4>1
    <3>3. \A r \in (s + 1)..(l - 1) : text[r].kind # "section"
      BY <3>1
    <3> QED BY <2>0, <3>1, <3>2, <3>3
  <2> QED BY <1>1, <1>3, <2>2, <2>3, Zenon
<1> QED BY <1>2, <1>3

LEMMA RegisterValid ==
  ASSUME NEW r PROVE getRegisterCode(r) # -1 <=> r \in DOMAIN registerMap
BY Registers DEF getRegisterCode

(* What is encoded of an instruction is nothing, or one item that stands   *)
(* for it: with its word, and its operand as a symbol if it is no number.  *)
LEMMA EncodedItem ==
  ASSUME NEW i \in Lines, i.kind = "op", line \in Nat
  PROVE  \/ Encoded(i) = <<>>
         \/ \E item \in Items : /\ Encoded(i) = <<item>>
                                /\ item.label = NoText
                                /\ item.line = line
                                /\ item.sym = IF Symbolic(i) THEN Operand(i) ELSE NoText
                                /\ Encodes(i, item.bits)
                                /\ i.op \in {"LW", "SW"} => Operand(i) \in DOMAIN dataMap
<1> DEFINE code(k) == getRegisterCode(i.args[k])
           valid(n) == \A k \in 1..n : code(k) # -1
           sym == IF Symbolic(i) THEN Operand(i) ELSE NoText
           number == NumberIn(i)
           Good(item) == /\ item.label = NoText /\ item.line = line /\ item.sym = sym
                         /\ Encodes(i, item.bits)
                         /\ i.op \in {"LW", "SW"} => Operand(i) \in DOMAIN dataMap
           Fine(c) == c = <<>> \/ \E item : c = <<item>> /\ Good(item)
<1>1. \A w, t : /\ Item(w, t).label = NoText /\ Item(w, t).line = line
               /\ Item(w, t).sym = t /\ Item(w, t).bits = w
  BY DEF Item
<1>2. ASSUME NEW op, NEW rs, NEW rt, NEW item, item = ITypeItem(op, rs, rt, Operand(i))
      PROVE  /\ item.label = NoText /\ item.line = line
             /\ item.sym = IF Operand(i) \in DOMAIN Stoi THEN NoText ELSE Operand(i)
             /\ item.bits = IType(op, rs, rt, number)
  <2>1. CASE Operand(i) \in DOMAIN Stoi
    <3>1. item = Item(IType(op, rs, rt, number), NoText)
      BY <1>2, <2>1 DEF ITypeItem, NumberIn
    <3> HIDE DEF number
    <3> QED BY <1>1, <2>1, <3>1
  <2>2. CASE Operand(i) \notin DOMAIN Stoi
    <3>1. item = Item(IType(op, rs, rt, number), Operand(i))
      BY <1>2, <2>2 DEF ITypeItem, NumberIn
    <3> HIDE DEF number
    <3> QED BY <1>1, <2>2, <3>1
  <2> QED BY <2>1, <2>2
<1>3. /\ i.op \in Branching => Operand(i) = i.args[3]
      /\ i.op \in {"LI", "LA", "LW", "SW"} => Operand(i) = i.args[2]
      /\ i.op \in {"J", "PRINT"} => Operand(i) = i.args[1]
  BY Arities DEF Operand
<1>4. /\ valid(1) => i.args[1] \in DOMAIN registerMap
      /\ ~valid(1) => i.args[1] \notin DOMAIN registerMap
      /\ valid(2) => i.args[1] \in DOMAIN registerMap /\ i.args[2] \in DOMAIN registerMap
      /\ valid(3) => /\ i.args[1] \in DOMAIN registerMap /\ i.args[2] \in DOMAIN registerMap
                     /\ i.args[3] \in DOMAIN registerMap
  BY RegisterValid
<1>5. /\ i.op \in Calculating => sym = NoText
      /\ i.op \in Branching \cup {"J", "LI", "LA", "LW", "SW"} =>
           sym = IF Operand(i) \in DOMAIN Stoi THEN NoText ELSE Operand(i)
      /\ i.op = "PRINT" =>
           /\ ~PrintsWord(i) => sym = NoText
           /\ PrintsWord(i) => sym = IF Operand(i) \in DOMAIN Stoi THEN NoText ELSE Operand(i)
  BY DEF Symbolic, Branching, Calculating
<1>6. i.op = "PRINT" => (valid(1) <=> ~PrintsWord(i))
  BY <1>3, <1>4 DEF PrintsWord
<1>7. ASSUME NEW w
      PROVE  /\ i.op \in Calculating /\ valid(3) =>
                  (w = RType(i.op, code(2), code(3), code(1)) => Encodes(i, w))
             /\ i.op \in Branching /\ valid(2) =>
                  (w = IType(i.op, code(1), code(2), number) => Encodes(i, w))
             /\ i.op \in {"LI", "LA"} /\ valid(1) =>
                  (w = IType(i.op, 0, code(1), number) => Encodes(i, w))
             /\ i.op \in {"LW", "SW"} => (w = IType(i.op, 0, code(1), number) => Encodes(i, w))
             /\ i.op = "J" => (w = IType("J", 0, 0, number) => Encodes(i, w))
             /\ PrintsWord(i) => (w = IType("PRINT", 0, 0, number) => Encodes(i, w))
             /\ i.op = "PRINT" /\ ~PrintsWord(i) =>
                  (w = IType("PRINT", 0, code(1), 0) => Encodes(i, w))
  <2>1. /\ i.op \in Calculating => Named(i) = {i.args[1], i.args[2], i.args[3]}
        /\ i.op \in Branching => Named(i) = {i.args[1], i.args[2]}
        /\ i.op \in {"LI", "LA"} => Named(i) = {i.args[1]}
        /\ i.op \in {"J", "PRINT"} => Named(i) = {}
    BY DEF Named, Calculating, Branching, Immediate
  <2>2. PrintsWord(i) => i.op = "PRINT"
    BY DEF PrintsWord
  <2>3. {"LI", "LA", "LW", "SW"} \subseteq Immediate
    BY DEF Immediate
  <2> HIDE DEF valid
  <2> QED BY <1>4, <2>1, <2>2, <2>3 DEF Encodes
<1>8. i.op \in Calculating /\ valid(3) =>
        Fine(<<Item(RType(i.op, code(2), code(3), code(1)), NoText)>>)
  <2> SUFFICES ASSUME i.op \in Calculating, valid(3)
               PROVE  Good(Item(RType(i.op, code(2), code(3), code(1)), NoText))
    BY Zenon
  <2> PICK item : item = Item(RType(i.op, code(2), code(3), code(1)), NoText)
    OBVIOUS
  <2>1. /\ item.label = NoText /\ item.line = line /\ item.sym = NoText
        /\ item.bits = RType(i.op, code(2), code(3), code(1))
    <3> HIDE DEF code
    <3> QED BY <1>1
  <2>2. item.sym = sym
    BY <1>5, <2>1
  <2>3. Encodes(i, item.bits)
    <3> HIDE DEF valid, code
    <3> QED BY <1>7, <2>1
  <2>4. i.op \notin {"LW", "SW"}
    BY DEF Calculating
  <2> QED BY <2>1, <2>2, <2>3, <2>4
<1>9. i.op \in Branching /\ valid(2) =>
         Fine(<<ITypeItem(i.op, code(1), code(2), i.args[3])>>)
  <2> SUFFICES ASSUME i.op \in Branching, valid(2)
               PROVE  Good(ITypeItem(i.op, code(1), code(2), i.args[3]))
    BY Zenon
  <2> PICK item : item = ITypeItem(i.op, code(1), code(2), i.args[3])
    OBVIOUS
  <2>1. /\ item.label = NoText /\ item.line = line
        /\ item.sym = IF Operand(i) \in DOMAIN Stoi THEN NoText ELSE Operand(i)
        /\ item.bits = IType(i.op, code(1), code(2), number)
    <3>1. item = ITypeItem(i.op, code(1), code(2), Operand(i))
      BY <1>3
    <3> QED BY <1>2, <3>1
  <2>2. item.sym = sym
    BY <1>5, <2>1
  <2>3. Encodes(i, item.bits)
    <3> HIDE DEF valid, number, code
    <3> QED BY <1>7, <2>1
  <2>4. i.op \in {"LW", "SW"} => Operand(i) \in DOMAIN dataMap
    BY <1>3 DEF Branching
  <2> QED BY <2>1, <2>2, <2>3, <2>4
<1>10. i.op = "J" =>
         Fine(<<ITypeItem("J", 0, 0, i.args[1])>>)
  <2> SUFFICES ASSUME i.op = "J"
               PROVE  Good(ITypeItem("J", 0, 0, i.args[1]))
    BY Zenon
  <2> PICK item : item = ITypeItem("J", 0, 0, i.args[1])
    OBVIOUS
  <2>1. /\ item.label = NoText /\ item.line = line
        /\ item.sym = IF Operand(i) \in DOMAIN Stoi THEN NoText ELSE Operand(i)
        /\ item.bits = IType("J", 0, 0, number)
    <3>1. item = ITypeItem("J", 0, 0, Operand(i))
      BY <1>3
    <3> QED BY <1>2, <3>1
  <2>2. item.sym = sym
    BY <1>5, <2>1
  <2>3. Encodes(i, item.bits)
    <3> HIDE DEF valid, number, code
    <3> QED BY <1>7, <2>1
  <2>4. i.op \in {"LW", "SW"} => Operand(i) \in DOMAIN dataMap
    BY <1>3 DEF Branching
  <2> QED BY <2>1, <2>2, <2>3, <2>4
<1>11. i.op \in {"LI", "LA"} /\ valid(1) =>
         Fine(<<ITypeItem(i.op, 0, code(1), i.args[2])>>)
  <2> SUFFICES ASSUME i.op \in {"LI", "LA"}, valid(1)
               PROVE  Good(ITypeItem(i.op, 0, code(1), i.args[2]))
    BY Zenon
  <2> PICK item : item = ITypeItem(i.op, 0, code(1), i.args[2])
    OBVIOUS
  <2>1. /\ item.label = NoText /\ item.line = line
        /\ item.sym = IF Operand(i) \in DOMAIN Stoi THEN NoText ELSE Operand(i)
        /\ item.bits = IType(i.op, 0, code(1), number)
    <3>1. item = ITypeItem(i.op, 0, code(1), Operand(i))
      BY <1>3
    <3> QED BY <1>2, <3>1
  <2>2. item.sym = sym
    BY <1>5, <2>1
  <2>3. Encodes(i, item.bits)
    <3> HIDE DEF valid, number, code
    <3> QED BY <1>7, <2>1
  <2>4. i.op \in {"LW", "SW"} => Operand(i) \in DOMAIN dataMap
    BY <1>3 DEF Branching
  <2> QED BY <2>1, <2>2, <2>3, <2>4
<1>12. i.op \in {"LW", "SW"} /\ i.args[2] \in DOMAIN dataMap =>
         Fine(<<ITypeItem(i.op, 0, code(1), i.args[2])>>)
  <2> SUFFICES ASSUME i.op \in {"LW", "SW"}, i.args[2] \in DOMAIN dataMap
               PROVE  Good(ITypeItem(i.op, 0, code(1), i.args[2]))
    BY Zenon
  <2> PICK item : item = ITypeItem(i.op, 0, code(1), i.args[2])
    OBVIOUS
  <2>1. /\ item.label = NoText /\ item.line = line
        /\ item.sym = IF Operand(i) \in DOMAIN Stoi THEN NoText ELSE Operand(i)
        /\ item.bits = IType(i.op, 0, code(1), number)
    <3>1. item = ITypeItem(i.op, 0, code(1), Operand(i))
      BY <1>3
    <3> QED BY <1>2, <3>1
  <2>2. item.sym = sym
    BY <1>5, <2>1
  <2>3. Encodes(i, item.bits)
    <3> HIDE DEF valid, number, code
    <3> QED BY <1>7, <2>1
  <2>4. i.op \in {"LW", "SW"} => Operand(i) \in DOMAIN dataMap
    BY <1>3 DEF Branching
  <2> QED BY <2>1, <2>2, <2>3, <2>4
<1>13. i.op = "PRINT" /\ ~valid(1) =>
         Fine(<<ITypeItem("PRINT", 0, 0, i.args[1])>>)
  <2> SUFFICES ASSUME i.op = "PRINT", ~valid(1)
               PROVE  Good(ITypeItem("PRINT", 0, 0, i.args[1]))
    BY Zenon
  <2> PICK item : item = ITypeItem("PRINT", 0, 0, i.args[1])
    OBVIOUS
  <2>1. /\ item.label = NoText /\ item.line = line
        /\ item.sym = IF Operand(i) \in DOMAIN Stoi THEN NoText ELSE Operand(i)
        /\ item.bits = IType("PRINT", 0, 0, number)
    <3>1. item = ITypeItem("PRINT", 0, 0, Operand(i))
      BY <1>3
    <3> QED BY <1>2, <3>1
  <2>2. item.sym = sym
    <3> HIDE DEF valid, sym
    <3> QED BY <1>5, <1>6, <2>1
  <2>3. Encodes(i, item.bits)
    <3> HIDE DEF valid, number, code
    <3> QED BY <1>6, <1>7, <2>1
  <2>4. i.op \in {"LW", "SW"} => Operand(i) \in DOMAIN dataMap
    BY <1>3 DEF Branching
  <2> QED BY <2>1, <2>2, <2>3, <2>4
<1>14. i.op = "PRINT" /\ valid(1) => Fine(<<Item(IType("PRINT", 0, code(1), 0), NoText)>>)
  <2> SUFFICES ASSUME i.op = "PRINT", valid(1)
               PROVE  Good(Item(IType("PRINT", 0, code(1), 0), NoText))
    BY Zenon
  <2> PICK item : item = Item(IType("PRINT", 0, code(1), 0), NoText)
    OBVIOUS
  <2>1. /\ item.label = NoText /\ item.line = line /\ item.sym = NoText
        /\ item.bits = IType("PRINT", 0, code(1), 0)
    <3> HIDE DEF code
    <3> QED BY <1>1
  <2>2. ~PrintsWord(i)
    BY <1>6
  <2>3. Encodes(i, item.bits)
    <3> HIDE DEF valid, code
    <3> QED BY <1>7, <2>1, <2>2
  <2>4. item.sym = sym
    <3> HIDE DEF sym
    <3> QED BY <1>5, <2>1, <2>2
  <2> QED BY <2>1, <2>3, <2>4
<1>15. Fine(<<>>)
  BY Zenon
<1>16. Fine(Encoded(i))
  <2> HIDE DEF Fine
  <2>1. i.op = "PRINT" =>
          Fine(<<IF valid(1) THEN Item(IType("PRINT", 0, code(1), 0), NoText)
                             ELSE ITypeItem("PRINT", 0, 0, i.args[1])>>)
    BY <1>13, <1>14, Zenon
  <2> QED BY <1>8, <1>9, <1>10, <1>11, <1>12, <1>15, <2>1, Zenon DEF Encoded
<1>17. \A item : Encoded(i) = <<item>> => item \in Items
  BY EncodedType
<1> QED BY <1>16, <1>17, Zenon

-----------------------------------------------------------------------------
(* Code.                                                                   *)

LEMMA RankBounds ==
  ASSUME NEW item \in Items
  PROVE  /\ item.line \in Nat
         /\ Rank(item) \in Int
         /\ 2 * item.line <= Rank(item) /\ Rank(item) <= 2 * item.line + 1
         /\ item.label = NoText => Rank(item) = 2 * item.line
         /\ item.label # NoText => Rank(item) = 2 * item.line + 1
BY DEF Rank, Items

(* What a line adds to the code.                                           *)
Adds(text, l, tail) ==
  /\ \A k \in DOMAIN tail : tail[k].line = l /\ Stands(text, tail[k])
  /\ \A k, m \in DOMAIN tail : k < m => Rank(tail[k]) < Rank(tail[m])
  /\ l \in LabelsOf(text) => \E k \in DOMAIN tail : Rank(tail[k]) = 2 * l + 1
  /\ l \in EndLines(text) /\ (l > Len(text) \/ \E f \in LabelsOf(text) : f < l)
       => \E k \in DOMAIN tail : Rank(tail[k]) = 2 * l
  /\ \A k \in DOMAIN tail : tail[k].label # NoText /\ k < Len(tail) => tail[k + 1].label = NoText

LEMMA Grows ==
  ASSUME NEW text \in Seq(Lines), NEW l \in Nat \ {0}, NEW code \in Seq(Items),
         Renders(text, l, code), NEW tail \in Seq(Items), Adds(text, l, tail),
         code # <<>> /\ tail # <<>> =>
           code[Len(code)].label = NoText \/ tail[1].label = NoText
  PROVE  Renders(text, l + 1, code \o tail)
<1> DEFINE both == code \o tail
           n == Len(code)
           m == Len(tail)
<1>1. /\ n \in Nat /\ m \in Nat
      /\ DOMAIN code = 1..n /\ DOMAIN tail = 1..m /\ DOMAIN both = 1..(n + m) /\ Len(both) = n + m
      /\ \A k \in 1..n : both[k] = code[k] /\ code[k] \in Items
      /\ \A k \in 1..m : both[n + k] = tail[k] /\ tail[k] \in Items
  OBVIOUS
<1>0. n = 0 <=> code = <<>>
  OBVIOUS
<1>00. m = 0 <=> tail = <<>>
  OBVIOUS
<1> HIDE DEF both, n, m
<1>2. \A k \in DOMAIN both : k \notin 1..n => \E j \in 1..m : k = n + j
  <2> SUFFICES ASSUME NEW k \in DOMAIN both, k \notin 1..n
               PROVE  k - n \in 1..m /\ k = n + (k - n)
    OBVIOUS
  <2> QED BY <1>1
<1>3. \A k \in DOMAIN both : both[k].line \in 1..((l + 1) - 1) /\ Stands(text, both[k])
  <2> SUFFICES ASSUME NEW k \in DOMAIN both
               PROVE  both[k].line \in 1..((l + 1) - 1) /\ Stands(text, both[k])
    OBVIOUS
  <2>1. CASE k \in 1..n
    BY <1>1, <2>1 DEF Renders
  <2>2. ASSUME NEW j \in 1..m, k = n + j
        PROVE  both[k].line \in 1..((l + 1) - 1) /\ Stands(text, both[k])
    <3>1. both[k] = tail[j]
      BY <1>1, <2>2
    <3>2. tail[j].line = l /\ Stands(text, tail[j])
      BY <1>1 DEF Adds
    <3>3. l \in 1..((l + 1) - 1)
      OBVIOUS
    <3> QED BY <3>1, <3>2, <3>3
  <2> QED BY <1>1, <1>2, <2>1, <2>2
<1>4. \A j, k \in DOMAIN both : j < k => Rank(both[j]) < Rank(both[k])
  <2> SUFFICES ASSUME NEW j \in DOMAIN both, NEW k \in DOMAIN both, j < k
               PROVE  Rank(both[j]) < Rank(both[k])
    OBVIOUS
  <2>1. CASE k \in 1..n
    <3>1. j \in 1..n
      BY <1>1, <2>1
    <3> QED BY <1>1, <2>1, <3>1 DEF Renders
  <2>2. CASE j \in 1..n /\ k \notin 1..n
    <3>1. PICK q \in 1..m : k = n + q
      BY <1>1, <1>2, <2>2
    <3>2. code[j].line <= l - 1 /\ code[j] \in Items
      BY <1>1, <2>2 DEF Renders
    <3>3. tail[q].line = l /\ tail[q] \in Items
      BY <1>1, <3>1 DEF Adds
    <3>4. Rank(code[j]) <= 2 * (l - 1) + 1 /\ Rank(code[j]) \in Int
      <4>1. /\ code[j].line \in Nat /\ Rank(code[j]) \in Int
            /\ Rank(code[j]) <= 2 * code[j].line + 1
        BY <3>2, RankBounds
      <4> QED BY <3>2, <4>1
    <3>5. Rank(tail[q]) >= 2 * l /\ Rank(tail[q]) \in Int
      BY <3>3, RankBounds
    <3>6. both[j] = code[j] /\ both[k] = tail[q]
      BY <1>1, <2>2, <3>1
    <3> QED BY <3>4, <3>5, <3>6
  <2>3. CASE j \notin 1..n
    <3>1. PICK p \in 1..m : j = n + p
      BY <1>1, <1>2, <2>3
    <3>0. k \notin 1..n
      <4>1. n \in Int /\ m \in Int /\ j \in 1..(n + m) /\ k \in 1..(n + m)
        BY <1>1
      <4> QED BY <2>3, <4>1
    <3>2. PICK q \in 1..m : k = n + q
      BY <1>2, <3>0
    <3>3. p < q
      BY <1>1, <3>1, <3>2
    <3>4. Rank(tail[p]) < Rank(tail[q])
      BY <1>1, <3>3 DEF Adds
    <3>5. both[j] = tail[p] /\ both[k] = tail[q]
      BY <1>1, <3>1, <3>2
    <3> QED BY <3>4, <3>5
  <2> QED BY <2>1, <2>2, <2>3
<1>5. ASSUME NEW r, \E k \in DOMAIN code : Rank(code[k]) = r
      PROVE  \E k \in DOMAIN both : Rank(both[k]) = r
  BY <1>1, <1>5
<1>6. ASSUME NEW r, \E k \in DOMAIN tail : Rank(tail[k]) = r
      PROVE  \E k \in DOMAIN both : Rank(both[k]) = r
  <2>1. PICK k \in 1..m : Rank(tail[k]) = r
    BY <1>1, <1>6
  <2>2. n + k \in DOMAIN both
    BY <1>1
  <2> QED BY <1>1, <2>1, <2>2
<1>7. ASSUME NEW e \in LabelsOf(text), e < l + 1
      PROVE  \E k \in DOMAIN both : Rank(both[k]) = 2 * e + 1
  <2>1. e \in Int
    BY DEF LabelsOf
  <2>2. e < l \/ e = l
    BY <1>7, <2>1
  <2> QED BY <1>5, <1>6, <2>2 DEF Renders, Adds
<1>8. ASSUME NEW e \in EndLines(text), e < l + 1,
             e > Len(text) \/ \E f \in LabelsOf(text) : f < e
      PROVE  \E k \in DOMAIN both : Rank(both[k]) = 2 * e
  <2>1. e \in Int
    BY DEF LabelsOf, EndLines
  <2>2. e < l \/ e = l
    BY <1>8, <2>1
  <2> QED BY <1>5, <1>6, <1>8, <2>2 DEF Renders, Adds
<1>9. ASSUME NEW k \in DOMAIN both, both[k].label # NoText, k < Len(both)
      PROVE  both[k + 1].label = NoText
  <2>1. CASE k < n
    <3>1. k \in 1..n /\ k + 1 \in 1..n
      BY <1>1, <2>1
    <3> QED BY <1>1, <1>9, <2>1, <3>1 DEF Renders, n
  <2>2. CASE k = n
    <3>1. n \in 1..n /\ 1 \in 1..m
      BY <1>1, <1>9, <2>2
    <3>2. both[n].label = code[n].label /\ both[n + 1].label = tail[1].label
      BY <1>1, <3>1
    <3> QED BY <1>0, <1>00, <1>1, <1>9, <2>2, <3>1, <3>2 DEF n
  <2>3. CASE k > n
    <3>0. k \notin 1..n
      BY <1>1, <2>3
    <3>1. PICK j \in 1..m : k = n + j
      BY <1>2, <1>9, <3>0
    <3>2. j + 1 \in 1..m /\ k + 1 = n + (j + 1) /\ j < m
      BY <1>1, <1>9, <3>1
    <3>3. both[k] = tail[j] /\ both[k + 1] = tail[j + 1]
      BY <1>1, <3>1, <3>2
    <3> QED BY <1>1, <1>9, <3>2, <3>3 DEF Adds, m
  <2> QED BY <1>1, <2>1, <2>2, <2>3
<1> QED BY <1>3, <1>4, <1>7, <1>8, <1>9, Zenon DEF Renders, both

LEMMA TextLines ==
  ASSUME NEW text \in Seq(Lines)
  PROVE  /\ \A l \in LabelsOf(text) : l \in 1..Len(text) /\ text[l].kind = "colon"
         /\ \A l \in EndLines(text) : l \in 1..(Len(text) + 1)
         /\ \A l \in EndLines(text) : l <= Len(text) => l \in LabelsOf(text)
BY DEF LabelsOf, EndLines

LEMMA Pair ==
  ASSUME NEW a \in Items, NEW b \in Items
  PROVE  /\ <<a>> \in Seq(Items) /\ <<b>> \in Seq(Items) /\ <<a, b>> \in Seq(Items)
         /\ <<a>>[1] = a /\ <<a, b>>[1] = a
OBVIOUS

LEMMA PairAppended ==
  ASSUME NEW code \in Seq(Items), NEW a \in Items, NEW b \in Items
  PROVE  (code \o <<a>>) \o <<b>> = code \o <<a, b>>
<1> PICK one, two : one = <<a>> /\ two = <<b>>
  OBVIOUS
<1>1. code \in Seq(Items) /\ one \in Seq(Items) /\ two \in Seq(Items)
  OBVIOUS
<1>2. one \o two = <<a, b>>
  <2>1. Len(one) = 1 /\ Len(two) = 1 /\ one[1] = a /\ two[1] = b
    OBVIOUS
  <2>2. /\ one \o two \in Seq(Items) /\ Len(one \o two) = 2
        /\ (one \o two)[1] = a /\ (one \o two)[2] = b
    BY <1>1, <2>1, ConcatProperties
  <2> PICK both, pair : both = one \o two /\ pair = <<a, b>>
    OBVIOUS
  <2>3. pair \in Seq(Items) /\ Len(pair) = 2 /\ pair[1] = a /\ pair[2] = b
    OBVIOUS
  <2>4. both \in Seq(Items) /\ Len(both) = Len(pair)
    BY <2>2, <2>3
  <2>5. ASSUME NEW k \in 1..Len(both) PROVE both[k] = pair[k]
    <3>1. Len(both) = 2 /\ both[1] = a /\ both[2] = b
      BY <2>2
    <3>2. k = 1 \/ k = 2
      BY <3>1
    <3> QED BY <2>3, <3>1, <3>2
  <2> QED BY <2>3, <2>4, <2>5, SeqEqual
<1>3. (code \o one) \o two = code \o (one \o two)
  BY <1>1, ConcatAssociative
<1> QED BY <1>2, <1>3

(* A line that is no label may add nothing.                                *)
LEMMA AddsNothing ==
  ASSUME NEW text \in Seq(Lines), NEW l \in 1..Len(text), l \notin LabelsOf(text)
  PROVE  Adds(text, l, <<>>)
BY TextLines DEF Adds

LEMMA AddsInstruction ==
  ASSUME NEW text \in Seq(Lines), NEW l \in 1..Len(text), text[l].kind = "op",
         NEW item \in Items, item.label = NoText, item.line = l,
         item.sym = IF Symbolic(text[l]) THEN Operand(text[l]) ELSE NoText,
         Encodes(text[l], item.bits)
  PROVE  Adds(text, l, <<item>>)
<1>1. l \notin LabelsOf(text) /\ l \notin EndLines(text)
  BY TextLines
<1>2. Stands(text, item)
  BY DEF Stands
<1> QED BY <1>1, <1>2 DEF Adds

LEMMA AddsLabel ==
  ASSUME NEW text \in Seq(Lines), NEW l \in LabelsOf(text),
         NEW item \in Items, item.label # NoText, item.label = text[l].name, item.line = l
  PROVE  /\ (\A f \in LabelsOf(text) : ~(f < l)) => Adds(text, l, <<item>>)
         /\ \A end \in Items : /\ end.label = NoText /\ end.line = l
                                /\ end.bits = EndBits /\ end.sym = NoText
              => Adds(text, l, <<end, item>>)
<1>1. l \in 1..Len(text) /\ l \in EndLines(text)
  BY TextLines DEF EndLines
<1>2. Stands(text, item) /\ Rank(item) = 2 * l + 1
  BY RankBounds DEF Stands
<1>3. ASSUME \A f \in LabelsOf(text) : ~(f < l)
      PROVE  Adds(text, l, <<item>>)
  BY <1>1, <1>2, <1>3 DEF Adds
<1>4. ASSUME NEW end \in Items, end.label = NoText, end.line = l,
             end.bits = EndBits, end.sym = NoText
      PROVE  Adds(text, l, <<end, item>>)
  <2>1. Stands(text, end) /\ Rank(end) = 2 * l
    BY <1>1, <1>4, RankBounds DEF Stands
  <2>2. DOMAIN <<end, item>> = {1, 2} /\ Len(<<end, item>>) = 2
    OBVIOUS
  <2>3. <<end, item>>[1] = end /\ <<end, item>>[2] = item
    OBVIOUS
  <2> QED BY <1>1, <1>2, <1>4, <2>1, <2>2, <2>3 DEF Adds
<1> QED BY <1>3, <1>4

LEMMA AddsEnd ==
  ASSUME NEW text \in Seq(Lines), NEW l, l = Len(text) + 1,
         NEW end \in Items, end.label = NoText, end.line = l,
         end.bits = EndBits, end.sym = NoText
  PROVE  Adds(text, l, <<end>>)
<1>1. l \notin LabelsOf(text) /\ l \in EndLines(text)
  BY TextLines DEF EndLines
<1>2. Stands(text, end) /\ Rank(end) = 2 * l
  BY <1>1, RankBounds DEF Stands
<1> QED BY <1>1, <1>2 DEF Adds

(* What a line adds finds its variable if it is of no lw or sw.            *)
LEMMA FindsGrows ==
  ASSUME NEW text, NEW code \in Seq(Items), NEW data, Finds(text, code, data),
         NEW tail \in Seq(Items),
         \A k \in DOMAIN tail :
           tail[k].label = NoText /\ tail[k].line \in DOMAIN text
             /\ text[tail[k].line].kind = "op" /\ text[tail[k].line].op \in {"LW", "SW"}
             => Operand(text[tail[k].line]) \in DOMAIN data
  PROVE  Finds(text, code \o tail, data)
<1> SUFFICES ASSUME NEW k \in DOMAIN (code \o tail)
             PROVE  LET item == (code \o tail)[k]
                        i == text[item.line] IN
                    item.label = NoText /\ item.line \in DOMAIN text
                      /\ i.kind = "op" /\ i.op \in {"LW", "SW"}
                      => Operand(i) \in DOMAIN data
  BY DEF Finds
<1>1. \/ k \in DOMAIN code /\ (code \o tail)[k] = code[k]
      \/ \E j \in DOMAIN tail : (code \o tail)[k] = tail[j]
  <2>1. /\ Len(code) \in Nat /\ Len(tail) \in Nat
        /\ DOMAIN code = 1..Len(code) /\ DOMAIN tail = 1..Len(tail)
        /\ k \in 1..(Len(code) + Len(tail))
    OBVIOUS
  <2>2. CASE k <= Len(code)
    <3>1. k \in DOMAIN code
      BY <2>1, <2>2
    <3> QED BY <3>1
  <2>3. CASE ~(k <= Len(code))
    <3>1. k - Len(code) \in DOMAIN tail
      BY <2>1, <2>3
    <3>2. (code \o tail)[k] = tail[k - Len(code)]
      BY <2>1, <2>3
    <3> QED BY <3>1, <3>2
  <2> QED BY <2>2, <2>3
<1> QED BY <1>1, Zenon DEF Finds

LEMMA FindsMore ==
  ASSUME NEW text, NEW code, NEW data, Finds(text, code, data), NEW more,
         DOMAIN data \subseteq DOMAIN more
  PROVE  Finds(text, code, more)
BY DEF Finds

LEMMA FindsNothing == ASSUME NEW text, NEW data PROVE Finds(text, <<>>, data)
BY DEF Finds

-----------------------------------------------------------------------------
(* Data.                                                                   *)

Files == [name : STRING, text : Seq(Lines)]

LEMMA DeclarationLines ==
  ASSUME NEW files \in Seq(Files), NEW j \in DOMAIN files, NEW n,
         NEW k \in DeclarationsOf(files[j].text, n)
  PROVE  /\ files[j].text \in Seq(Lines)
         /\ j \in Nat /\ j >= 1
         /\ k \in Nat /\ k >= 1
         /\ k <= Len(files[j].text)
<1>1. files[j] \in Files
  OBVIOUS
<1>2. files[j].text \in Seq(Lines)
  BY <1>1 DEF Files
<1>3. k \in DOMAIN files[j].text
  BY DEF DeclarationsOf
<1> QED BY <1>2, <1>3

LEMMA RemembersNothing ==
  ASSUME NEW files \in Seq(Files) PROVE Remembers(files, 1, 1, <<>>)
<1>1. \A j \in DOMAIN files : \A n : \A k \in DeclarationsOf(files[j].text, n) :
        ~Earlier(j, k, 1, 1)
  <2> SUFFICES ASSUME NEW j \in DOMAIN files, NEW n, NEW k \in DeclarationsOf(files[j].text, n)
               PROVE  ~Earlier(j, k, 1, 1)
    OBVIOUS
  <2>1. j \in Nat /\ j >= 1 /\ k \in Nat /\ k >= 1
    BY DeclarationLines
  <2> QED BY <2>1 DEF Earlier
<1>2. DOMAIN <<>> = {}
  OBVIOUS
<1> QED BY <1>1, <1>2, Zenon DEF Remembers

(* What comes no later declares nothing more.                              *)
LEMMA RemembersOn ==
  ASSUME NEW files, NEW i, NEW l, NEW i2, NEW l2, NEW data,
         Remembers(files, i, l, data),
         \A j \in DOMAIN files : \A n : \A k \in DeclarationsOf(files[j].text, n) :
           Earlier(j, k, i2, l2) <=> Earlier(j, k, i, l)
  PROVE  Remembers(files, i2, l2, data)
<1>1. ASSUME NEW j \in DOMAIN files, NEW n \in Texts, NEW k \in DeclarationsOf(files[j].text, n),
             Earlier(j, k, i2, l2)
      PROVE  n \in DOMAIN data
  BY <1>1, Zenon DEF Remembers
<1>2. ASSUME NEW n \in DOMAIN data
      PROVE  \E j \in DOMAIN files : \E k \in DeclarationsOf(files[j].text, n) :
               /\ Earlier(j, k, i2, l2)
               /\ data[n] = Parsed(files[j].text[k].values)
               /\ \A j2 \in DOMAIN files : \A k2 \in DeclarationsOf(files[j2].text, n) :
                    Earlier(j2, k2, i2, l2) => ~Earlier(j, k, j2, k2)
  <2>1. PICK j \in DOMAIN files : \E k \in DeclarationsOf(files[j].text, n) :
          /\ Earlier(j, k, i, l)
          /\ data[n] = Parsed(files[j].text[k].values)
          /\ \A j2 \in DOMAIN files : \A k2 \in DeclarationsOf(files[j2].text, n) :
               Earlier(j2, k2, i, l) => ~Earlier(j, k, j2, k2)
    BY Zenon DEF Remembers
  <2>2. PICK k \in DeclarationsOf(files[j].text, n) :
          /\ Earlier(j, k, i, l)
          /\ data[n] = Parsed(files[j].text[k].values)
          /\ \A j2 \in DOMAIN files : \A k2 \in DeclarationsOf(files[j2].text, n) :
               Earlier(j2, k2, i, l) => ~Earlier(j, k, j2, k2)
    BY <2>1, Zenon
  <2> QED BY <2>2, Zenon
<1> QED BY <1>1, <1>2, Zenon DEF Remembers

LEMMA RemembersSkip ==
  ASSUME NEW files \in Seq(Files), NEW i \in DOMAIN files, NEW l \in Nat, NEW data,
         Remembers(files, i, l, data),
         \A n : l \notin DeclarationsOf(files[i].text, n)
  PROVE  Remembers(files, i, l + 1, data)
<1>1. ASSUME NEW j \in DOMAIN files, NEW n, NEW k \in DeclarationsOf(files[j].text, n)
      PROVE  Earlier(j, k, i, l + 1) <=> Earlier(j, k, i, l)
  <2>1. k \in Nat /\ (j = i => k # l)
    BY DeclarationLines
  <2> QED BY <2>1 DEF Earlier
<1> QED BY <1>1, RemembersOn

LEMMA RemembersNextFile ==
  ASSUME NEW files \in Seq(Files), NEW i \in DOMAIN files, NEW data,
         NEW l, l = Len(files[i].text) + 1,
         Remembers(files, i, l, data)
  PROVE  Remembers(files, i + 1, 1, data)
<1>1. ASSUME NEW j \in DOMAIN files, NEW n, NEW k \in DeclarationsOf(files[j].text, n)
      PROVE  Earlier(j, k, i + 1, 1) <=> Earlier(j, k, i, l)
  <2>0. i \in Nat
    OBVIOUS
  <2>1. j \in Nat /\ k \in Nat /\ k >= 1
    BY DeclarationLines
  <2>2. ASSUME j = i PROVE k < l
    <3>1. k \in Nat /\ k <= Len(files[j].text) /\ files[j].text \in Seq(Lines)
      BY DeclarationLines
    <3>2. Len(files[i].text) \in Nat
      BY <2>2, <3>1
    <3> QED BY <2>2, <3>1, <3>2
  <2> QED BY <2>0, <2>1, <2>2 DEF Earlier
<1> QED BY <1>1, RemembersOn

(* A declaration takes the place of all before it.                         *)
LEMMA RemembersDeclaration ==
  ASSUME NEW files \in Seq(Files), NEW i \in DOMAIN files, NEW n \in Texts,
         NEW l \in DeclarationsOf(files[i].text, n), NEW data,
         Remembers(files, i, l, data)
  PROVE  Remembers(files, i, l + 1, Put(data, n, Parsed(files[i].text[l].values)))
<1> DEFINE put == Put(data, n, Parsed(files[i].text[l].values))
<1>1. /\ DOMAIN put = DOMAIN data \cup {n}
      /\ put[n] = Parsed(files[i].text[l].values)
      /\ \A x \in DOMAIN data : x # n => put[x] = data[x]
  BY Zenon DEF Put
<1> HIDE DEF put
<1>2. \A j \in DOMAIN files : \A x : \A k \in DeclarationsOf(files[j].text, x) :
        /\ Earlier(j, k, i, l + 1) => (Earlier(j, k, i, l) \/ (j = i /\ k = l))
        /\ Earlier(j, k, i, l) => Earlier(j, k, i, l + 1)
        /\ Earlier(j, k, i, l + 1) => ~Earlier(i, l, j, k)
  <2> SUFFICES ASSUME NEW j \in DOMAIN files, NEW x, NEW k \in DeclarationsOf(files[j].text, x)
               PROVE  /\ Earlier(j, k, i, l + 1) => (Earlier(j, k, i, l) \/ (j = i /\ k = l))
                      /\ Earlier(j, k, i, l) => Earlier(j, k, i, l + 1)
                      /\ Earlier(j, k, i, l + 1) => ~Earlier(i, l, j, k)
    OBVIOUS
  <2>1. j \in Nat /\ i \in Nat /\ k \in Nat /\ l \in Nat
    BY DeclarationLines
  <2> QED BY <2>1 DEF Earlier
<1>3. \A x : l \in DeclarationsOf(files[i].text, x) => x = n
  BY DEF DeclarationsOf
<1>4. Earlier(i, l, i, l + 1)
  BY DeclarationLines DEF Earlier
<1>5. ASSUME NEW j \in DOMAIN files, NEW x \in Texts,
             NEW k \in DeclarationsOf(files[j].text, x), Earlier(j, k, i, l + 1)
      PROVE  x \in DOMAIN put
  <2>1. CASE Earlier(j, k, i, l)
    BY <1>1, <2>1, Zenon DEF Remembers
  <2>2. CASE j = i /\ k = l
    BY <1>1, <1>3, <2>2, Zenon
  <2>3. Earlier(j, k, i, l) \/ (j = i /\ k = l)
    BY <1>2, <1>5
  <2> QED BY <2>1, <2>2, <2>3, Zenon
<1>6. ASSUME NEW x \in DOMAIN put
      PROVE  \E j \in DOMAIN files : \E k \in DeclarationsOf(files[j].text, x) :
               /\ Earlier(j, k, i, l + 1)
               /\ put[x] = Parsed(files[j].text[k].values)
               /\ \A j2 \in DOMAIN files : \A k2 \in DeclarationsOf(files[j2].text, x) :
                    Earlier(j2, k2, i, l + 1) => ~Earlier(j, k, j2, k2)
  <2>1. CASE x = n
    BY <1>1, <1>2, <1>4, <2>1, Zenon
  <2>2. CASE x # n
    <3>1. x \in DOMAIN data /\ put[x] = data[x]
      BY <1>1, <2>2, Zenon
    <3>2. PICK j \in DOMAIN files : \E k \in DeclarationsOf(files[j].text, x) :
            /\ Earlier(j, k, i, l)
            /\ data[x] = Parsed(files[j].text[k].values)
            /\ \A j2 \in DOMAIN files : \A k2 \in DeclarationsOf(files[j2].text, x) :
                 Earlier(j2, k2, i, l) => ~Earlier(j, k, j2, k2)
      BY <3>1, Zenon DEF Remembers
    <3>3. PICK k \in DeclarationsOf(files[j].text, x) :
            /\ Earlier(j, k, i, l)
            /\ data[x] = Parsed(files[j].text[k].values)
            /\ \A j2 \in DOMAIN files : \A k2 \in DeclarationsOf(files[j2].text, x) :
                 Earlier(j2, k2, i, l) => ~Earlier(j, k, j2, k2)
      BY <3>2, Zenon
    <3>4. ASSUME NEW j2 \in DOMAIN files, NEW k2 \in DeclarationsOf(files[j2].text, x),
                 Earlier(j2, k2, i, l + 1)
          PROVE  ~Earlier(j, k, j2, k2)
      <4>1. ~(j2 = i /\ k2 = l)
        BY <1>3, <2>2, Zenon
      <4>2. Earlier(j2, k2, i, l)
        <5>1. Earlier(j2, k2, i, l + 1) => (Earlier(j2, k2, i, l) \/ (j2 = i /\ k2 = l))
          BY <1>2
        <5> QED BY <3>4, <4>1, <5>1, Zenon
      <4> QED BY <3>3, <4>2, Zenon
    <3> QED BY <1>2, <3>1, <3>3, <3>4, Zenon
  <2> QED BY <2>1, <2>2
<1> QED BY <1>5, <1>6, Zenon DEF Remembers, put

-----------------------------------------------------------------------------
(* Steps.                                                                  *)

(* What AssembledSoFar says of the file being read.                        *)
FileSoFar ==
  /\ line <= Len(Text) + 1
  /\ textSection <=> InText(Text, line)
  /\ insideLabel <=> \E e \in LabelsOf(Text) : e < line
  /\ Renders(Text, line, output)
  /\ Finds(Text, output, dataMap)

(* And of the .bin files.                                                  *)
BinsSoFar ==
  \A n \in DOMAIN bins : \E i \in 1..(file - 1) :
    /\ args[i].name = n
    /\ \A j \in (i + 1)..(file - 1) : args[j].name # n
    /\ Assembled(args, i, bins[n])

LEMMA AssembledParts ==
  AssembledSoFar <=> /\ Remembers(args, file, line, dataMap)
                     /\ file <= Len(args) => FileSoFar
                     /\ BinsSoFar
BY Zenon DEF AssembledSoFar, FileSoFar, BinsSoFar

LEMMA AssembledByParts ==
  ASSUME Remembers(args, file, line, dataMap)', (file <= Len(args) => FileSoFar)', BinsSoFar'
  PROVE  AssembledSoFar'
BY Zenon DEF AssembledSoFar, FileSoFar, BinsSoFar

LEMMA Reading ==
  ASSUME AssemblerTypeOK, file <= Len(args)
  PROVE  /\ args \in Seq(Files) /\ file \in DOMAIN args /\ file \in Nat
         /\ Text \in Seq(Lines) /\ Text = args[file].text
         /\ line \in Nat \ {0}
         /\ line <= Len(Text) => line \in 1..Len(Text) /\ Text[line] \in Lines
         /\ output \in Seq(Items)
BY LineRead DEF AssemblerTypeOK, Files, Text

(* A line that is no label keeps what is known, with what it adds.         *)
LEMMA ReadOn ==
  ASSUME NEW text \in Seq(Lines), NEW l \in 1..Len(text), l \notin LabelsOf(text),
         NEW code \in Seq(Items), Renders(text, l, code), NEW tail \in Seq(Items),
         Adds(text, l, tail), tail = <<>> \/ tail[1].label = NoText
  PROVE  /\ (\E e \in LabelsOf(text) : e < l + 1) <=> (\E e \in LabelsOf(text) : e < l)
         /\ Renders(text, l + 1, code \o tail)
<1>1. \A e \in LabelsOf(text) : e < l + 1 <=> e < l
  <2> SUFFICES ASSUME NEW e \in LabelsOf(text) PROVE e < l + 1 <=> e < l
    OBVIOUS
  <2>1. e \in Nat /\ e # l
    BY TextLines
  <2> QED BY <2>1
<1>2. Renders(text, l + 1, code \o tail)
  BY Grows
<1> QED BY <1>1, <1>2

LEMMA SectionAssembled ==
  ASSUME AssemblerTypeOK, AssembledSoFar, AsmSection PROVE AssembledSoFar'
<1>1. file <= Len(args) /\ line <= Len(Text) /\ Text[line].kind = "section" /\ line' = line + 1
  BY DEF AsmSection, Reads
<1> HIDE DEF Text
<1>2. /\ FileSoFar /\ line \in 1..Len(Text)
      /\ Text \in Seq(Lines) /\ output \in Seq(Items)
  BY <1>1, AssembledParts, Reading
<1>3. line \notin LabelsOf(Text) /\ \A n : line \notin DeclarationsOf(Text, n)
  BY <1>1 DEF LabelsOf, DeclarationsOf
<1>4. Text' = Text /\ UNCHANGED <<args, file, insideLabel, output, dataMap, bins>>
  BY DEF AsmSection, Text
<1>5. textSection' <=> InText(Text, line + 1)
  BY <1>1, <1>2, InTextNext DEF AsmSection
<1>6. FileSoFar'
  <2>1. output \o <<>> = output /\ <<>> \in Seq(Items)
    BY <1>2, ConcatEmptySeq
  <2>2. Renders(Text, line + 1, output)
        /\ ((\E e \in LabelsOf(Text) : e < line + 1) <=> (\E e \in LabelsOf(Text) : e < line))
    BY <1>2, <1>3, <2>1, AddsNothing, ReadOn DEF FileSoFar
  <2>3. line + 1 <= Len(Text) + 1
    BY <1>2
  <2>4. Finds(Text, output, dataMap)
    BY <1>2 DEF FileSoFar
  <2> QED BY <1>1, <1>2, <1>4, <1>5, <2>2, <2>3, <2>4 DEF FileSoFar
<1>7. Remembers(args, file, line, dataMap)'
  BY <1>1, <1>3, <1>4, AssembledParts, Reading, RemembersSkip
<1>8. BinsSoFar'
  BY <1>4, AssembledParts DEF BinsSoFar
<1> QED BY <1>6, <1>7, <1>8, AssembledByParts

LEMMA InstructionAssembled ==
  ASSUME AssemblerTypeOK, AssembledSoFar, AsmInstruction PROVE AssembledSoFar'
<1>1. file <= Len(args) /\ line <= Len(Text) /\ Text[line].kind = "op" /\ line' = line + 1
  BY DEF AsmInstruction, Reads
<1>0. output' = IF textSection THEN output \o Encoded(Text[line]) ELSE output
  BY DEF AsmInstruction
<1>4. Text' = Text /\ UNCHANGED <<args, file, textSection, insideLabel, dataMap, bins>>
  BY DEF AsmInstruction, Text
<1> HIDE DEF Text
<1>2. /\ FileSoFar /\ line \in 1..Len(Text) /\ Text[line] \in Lines /\ line \in Nat
      /\ Text \in Seq(Lines) /\ output \in Seq(Items)
  BY <1>1, AssembledParts, Reading
<1>3. line \notin LabelsOf(Text) /\ \A n : line \notin DeclarationsOf(Text, n)
  BY <1>1 DEF LabelsOf, DeclarationsOf
<1>5. InText(Text, line + 1) <=> InText(Text, line)
  BY <1>1, <1>2, InTextNext
<1>6. ASSUME NEW tail \in Seq(Items), output' = output \o tail,
             tail = <<>> \/ tail[1].label = NoText, Adds(Text, line, tail),
             \A k \in DOMAIN tail :
               tail[k].line = line /\ (Text[line].op \in {"LW", "SW"} =>
                                         Operand(Text[line]) \in DOMAIN dataMap)
      PROVE  FileSoFar'
  <2>1. Renders(Text, line + 1, output')
        /\ ((\E e \in LabelsOf(Text) : e < line + 1) <=> (\E e \in LabelsOf(Text) : e < line))
    BY <1>2, <1>3, <1>6, ReadOn DEF FileSoFar
  <2>2. line + 1 <= Len(Text) + 1
    BY <1>2
  <2>3. Finds(Text, output \o tail, dataMap)
    <3>1. Finds(Text, output, dataMap)
      BY <1>2 DEF FileSoFar
    <3> QED BY <1>2, <1>6, <3>1, FindsGrows
  <2> QED BY <1>1, <1>2, <1>4, <1>5, <1>6, <2>1, <2>2, <2>3 DEF FileSoFar
<1>7. FileSoFar'
  <2>1. Adds(Text, line, <<>>) /\ output \o <<>> = output /\ <<>> \in Seq(Items)
    BY <1>2, <1>3, AddsNothing, ConcatEmptySeq
  <2>2. CASE ~textSection \/ Encoded(Text[line]) = <<>>
    <3>1. output' = output
      BY <1>0, <2>1, <2>2
    <3>2. output' = output \o <<>>
      BY <2>1, <3>1
    <3>3. DOMAIN <<>> = {}
      OBVIOUS
    <3> QED BY <1>6, <2>1, <3>2, <3>3
  <2>3. CASE textSection /\ Encoded(Text[line]) # <<>>
    <3>1. PICK item \in Items : /\ Encoded(Text[line]) = <<item>>
                                /\ item.label = NoText
                                /\ item.line = line
                                /\ item.sym = IF Symbolic(Text[line]) THEN Operand(Text[line])
                                                                      ELSE NoText
                                /\ Encodes(Text[line], item.bits)
                                /\ Text[line].op \in {"LW", "SW"} =>
                                     Operand(Text[line]) \in DOMAIN dataMap
      BY <1>1, <1>2, <2>3, EncodedItem
    <3>2. Adds(Text, line, <<item>>)
      BY <1>1, <1>2, <3>1, AddsInstruction
    <3>3. <<item>> \in Seq(Items) /\ <<item>>[1].label = NoText /\ output' = output \o <<item>>
      BY <1>0, <2>3, <3>1
    <3>4. \A k \in DOMAIN <<item>> : <<item>>[k].line = line
      BY <3>1
    <3> QED BY <1>6, <3>1, <3>2, <3>3, <3>4
  <2> QED BY <2>2, <2>3
<1>8. Remembers(args, file, line, dataMap)'
  BY <1>1, <1>3, <1>4, AssembledParts, Reading, RemembersSkip
<1>9. BinsSoFar'
  BY <1>4, AssembledParts DEF BinsSoFar
<1> QED BY <1>7, <1>8, <1>9, AssembledByParts

LEMMA VariableAssembled ==
  ASSUME AssemblerTypeOK, AssembledSoFar, AsmVariable PROVE AssembledSoFar'
<1>1. file <= Len(args) /\ line <= Len(Text) /\ Text[line].kind = "colon" /\ line' = line + 1
      /\ ~textSection
  BY DEF AsmVariable, Reads
<1>0. dataMap' = IF Defines(Text[line])
                 THEN Put(dataMap, Text[line].name, Parsed(Text[line].values))
                 ELSE dataMap
  BY DEF AsmVariable
<1>4. Text' = Text /\ UNCHANGED <<args, file, textSection, insideLabel, output, bins>>
  BY DEF AsmVariable, Text
<1> HIDE DEF Text
<1>2. /\ FileSoFar /\ line \in 1..Len(Text) /\ Text[line] \in Lines /\ line \in Nat
      /\ Text \in Seq(Lines) /\ output \in Seq(Items)
  BY <1>1, AssembledParts, Reading
<1>3. line \notin LabelsOf(Text) /\ ~InText(Text, line)
  BY <1>1, <1>2 DEF LabelsOf, FileSoFar
<1>5. InText(Text, line + 1) <=> InText(Text, line)
  BY <1>1, <1>2, InTextNext
<1>6. FileSoFar'
  <2>1. output \o <<>> = output /\ <<>> \in Seq(Items)
    BY <1>2, ConcatEmptySeq
  <2>2. Renders(Text, line + 1, output)
        /\ ((\E e \in LabelsOf(Text) : e < line + 1) <=> (\E e \in LabelsOf(Text) : e < line))
    BY <1>2, <1>3, <2>1, AddsNothing, ReadOn DEF FileSoFar
  <2>3. line + 1 <= Len(Text) + 1
    BY <1>2
  <2>4. Finds(Text, output, dataMap')
    <3>1. Finds(Text, output, dataMap) /\ DOMAIN dataMap \subseteq DOMAIN dataMap'
      BY <1>0, <1>2 DEF FileSoFar, Put
    <3> QED BY <3>1, FindsMore
  <2> QED BY <1>1, <1>2, <1>4, <1>5, <2>2, <2>3, <2>4 DEF FileSoFar
<1>7. Remembers(args, file, line + 1, dataMap')
  <2>0. Remembers(args, file, line, dataMap)
        /\ args \in Seq(Files) /\ file \in DOMAIN args /\ Text = args[file].text
    BY <1>1, AssembledParts, Reading
  <2>1. CASE Defines(Text[line])
    <3>1. Text[line].name \in Texts
      BY <1>1, <1>2, ColonRead DEF Names
    <3>2. line \in DeclarationsOf(Text, Text[line].name)
      BY <1>1, <1>2, <1>3, <2>1 DEF DeclarationsOf
    <3> QED BY <1>0, <2>0, <2>1, <3>1, <3>2, RemembersDeclaration
  <2>2. CASE ~Defines(Text[line])
    <3>1. \A n : line \notin DeclarationsOf(Text, n)
      BY <2>2 DEF DeclarationsOf
    <3> QED BY <1>0, <1>2, <2>0, <2>2, <3>1, RemembersSkip
  <2> QED BY <2>1, <2>2
<1>8. Remembers(args, file, line, dataMap)'
  BY <1>1, <1>4, <1>7
<1>9. BinsSoFar'
  BY <1>4, AssembledParts DEF BinsSoFar
<1> QED BY <1>6, <1>8, <1>9, AssembledByParts

LEMMA LabelAssembled ==
  ASSUME AssemblerTypeOK, AssembledSoFar, AsmLabel PROVE AssembledSoFar'
<1> DEFINE item == Label(Text[line].name)
           end == Item(EndBits, NoText)
<1>1. /\ file <= Len(args) /\ line <= Len(Text) /\ Text[line].kind = "colon" /\ line' = line + 1
      /\ textSection
      /\ output' = output \o (IF insideLabel THEN <<end>> ELSE <<>>) \o <<item>>
      /\ insideLabel' = TRUE
  BY DEF AsmLabel, ReadsLabel, Reads
<1>4. Text' = Text /\ UNCHANGED <<args, file, textSection, dataMap, bins>>
  BY DEF AsmLabel, ReadsLabel, Text
<1>2. /\ FileSoFar /\ line \in 1..Len(Text) /\ Text[line] \in Lines /\ line \in Nat
      /\ Text \in Seq(Lines) /\ output \in Seq(Items)
  BY <1>1, AssembledParts, Reading
<1>9. item \in Items /\ item.label = Text[line].name /\ item.line = line /\ item.label # NoText
  <2>1. Text[line].name \in Names
    BY <1>1, <1>2, ColonRead
  <2> QED BY <1>2, <2>1, LabelType DEF Label, Names
<1>10. /\ end \in Items /\ end.label = NoText /\ end.line = line
       /\ end.bits = EndBits /\ end.sym = NoText
  BY <1>2, EndType DEF Item
<1> HIDE DEF Text, item, end
<1>3. line \in LabelsOf(Text) /\ \A n : line \notin DeclarationsOf(Text, n)
  BY <1>1, <1>2 DEF LabelsOf, DeclarationsOf, FileSoFar
<1>5. InText(Text, line + 1) <=> InText(Text, line)
  BY <1>1, <1>2, InTextNext
<1>6. Renders(Text, line + 1, output')
  <2>1. CASE insideLabel
    <3>1. <<end, item>> \in Seq(Items) /\ <<end, item>>[1] = end
      BY <1>9, <1>10, Pair
    <3>2. output' = output \o <<end, item>>
      <4>1. output' = (output \o <<end>>) \o <<item>>
        BY <1>1, <2>1
      <4> QED BY <1>2, <1>9, <1>10, <4>1, PairAppended, Zenon
    <3>3. Adds(Text, line, <<end, item>>)
      BY <1>2, <1>3, <1>9, <1>10, AddsLabel
    <3>4. <<end, item>>[1].label = NoText /\ Renders(Text, line, output)
      BY <1>2, <1>10, <3>1 DEF FileSoFar
    <3>5. Renders(Text, line + 1, output \o <<end, item>>)
      <4>1. line \in Nat \ {0}
        BY <1>2
      <4> QED BY <1>2, <3>1, <3>3, <3>4, <4>1, Grows, Zenon
    <3> QED BY <3>2, <3>5, Zenon
  <2>2. CASE ~insideLabel
    <3>1. output' = output \o <<item>>
      <4>1. output \o <<>> = output
        BY <1>2, ConcatEmptySeq
      <4> QED BY <1>1, <2>2, <4>1
    <3>2. Adds(Text, line, <<item>>)
      BY <1>2, <1>3, <1>9, <2>2, AddsLabel DEF FileSoFar
    <3>3. output # <<>> => output[Len(output)].label = NoText
      <4> SUFFICES ASSUME output # <<>>, output[Len(output)].label # NoText PROVE FALSE
        OBVIOUS
      <4>1. Len(output) \in DOMAIN output
        BY <1>2
      <4>2. output[Len(output)].line \in 1..(line - 1)
            /\ output[Len(output)].line \in LabelsOf(Text)
        BY <1>2, <4>1 DEF FileSoFar, Renders, Stands
      <4> QED BY <1>2, <2>2, <4>2 DEF FileSoFar
    <3>4. <<item>> \in Seq(Items) /\ Renders(Text, line, output)
      BY <1>2, <1>9, Pair DEF FileSoFar
    <3>5. Renders(Text, line + 1, output \o <<item>>)
      <4>1. line \in Nat \ {0}
        BY <1>2
      <4> QED BY <1>2, <3>2, <3>3, <3>4, <4>1, Grows, Zenon
    <3> QED BY <3>1, <3>5, Zenon
  <2> QED BY <2>1, <2>2
<1>12. Finds(Text, output', dataMap)
  <2>1. PICK tail \in Seq(Items) : /\ output' = output \o tail
                                   /\ \A k \in DOMAIN tail : tail[k].line = line
    <3>1. CASE insideLabel
      <4>1. output' = (output \o <<end>>) \o <<item>>
        BY <1>1, <3>1
      <4>2. output' = output \o <<end, item>>
        BY <1>2, <1>9, <1>10, <4>1, PairAppended, Zenon
      <4>3. <<end, item>> \in Seq(Items) /\ \A k \in DOMAIN <<end, item>> : <<end, item>>[k].line = line
        BY <1>9, <1>10
      <4> QED BY <4>2, <4>3, Zenon
    <3>2. CASE ~insideLabel
      <4>1. output \o <<>> = output
        BY <1>2, ConcatEmptySeq
      <4>2. output' = output \o <<item>>
        BY <1>1, <3>2, <4>1
      <4>3. <<item>> \in Seq(Items) /\ \A k \in DOMAIN <<item>> : <<item>>[k].line = line
        BY <1>9
      <4> QED BY <4>2, <4>3, Zenon
    <3> QED BY <3>1, <3>2
  <2>2. Text[line].kind # "op" /\ Finds(Text, output, dataMap)
    BY <1>1, <1>2 DEF FileSoFar
  <2> QED BY <1>2, <2>1, <2>2, FindsGrows
<1>7. FileSoFar'
  <2>1. \E e \in LabelsOf(Text) : e < line + 1
    BY <1>2, <1>3
  <2>2. line + 1 <= Len(Text) + 1
    BY <1>2
  <2> QED BY <1>1, <1>2, <1>4, <1>5, <1>6, <1>12, <2>1, <2>2 DEF FileSoFar
<1>8. Remembers(args, file, line, dataMap)'
  BY <1>1, <1>3, <1>4, AssembledParts, Reading, RemembersSkip
<1>11. BinsSoFar'
  BY <1>4, AssembledParts DEF BinsSoFar
<1> QED BY <1>7, <1>8, <1>11, AssembledByParts

LEMMA RendersNothing ==
  ASSUME NEW text \in Seq(Lines) PROVE Renders(text, 1, <<>>)
<1>1. \A e \in LabelsOf(text) \cup EndLines(text) : ~(e < 1)
  BY TextLines DEF EndLines
<1>2. DOMAIN <<>> = {}
  OBVIOUS
<1> QED BY <1>1, <1>2, Zenon DEF Renders

LEMMA FileBegins ==
  ASSUME args' \in Seq(Files), file' \in DOMAIN args', line' = 1, textSection' = FALSE,
         insideLabel' = FALSE, output' = <<>>
  PROVE  FileSoFar'
<1>1. Text' \in Seq(Lines)
  <2>1. args'[file'] \in Files
    OBVIOUS
  <2> QED BY <2>1 DEF Text, Files
<1> HIDE DEF Text
<1>2. Renders(Text', 1, <<>>) /\ ~InText(Text', 1)
  BY <1>1, RendersNothing, InTextFirst
<1>3. \A e \in LabelsOf(Text') : ~(e < 1)
  BY <1>1, TextLines
<1>4. 1 <= Len(Text') + 1
  BY <1>1
<1>5. Finds(Text', <<>>, dataMap')
  BY FindsNothing
<1> QED BY <1>2, <1>3, <1>4, <1>5 DEF FileSoFar

LEMMA WriteAssembled ==
  ASSUME AssemblerTypeOK, AssembledSoFar, AsmWrite PROVE AssembledSoFar'
<1> DEFINE end == Item(EndBits, NoText)
           bin == [code |-> Append(output, end), data |-> dataMap]
<1>1. /\ file <= Len(args) /\ line > Len(Text)
      /\ bins' = Put(bins, args[file].name, bin)
      /\ dataMap' = dataMap /\ file' = file + 1 /\ line' = 1
      /\ textSection' = FALSE /\ insideLabel' = FALSE /\ output' = <<>> /\ args' = args
  BY DEF AsmWrite, Written
<1>2. /\ FileSoFar /\ line = Len(Text) + 1 /\ line \in Nat \ {0}
      /\ args \in Seq(Files) /\ file \in DOMAIN args /\ file \in Nat
      /\ Text \in Seq(Lines) /\ Text = args[file].text /\ output \in Seq(Items)
  <2>1. FileSoFar
    BY <1>1, AssembledParts
  <2>2. line <= Len(Text) + 1
    BY <2>1 DEF FileSoFar
  <2>3. /\ line \in Nat \ {0}
        /\ args \in Seq(Files) /\ file \in DOMAIN args /\ file \in Nat
        /\ Text \in Seq(Lines) /\ Text = args[file].text /\ output \in Seq(Items)
    BY <1>1, Reading
  <2>4. line = Len(Text) + 1
    <3>1. Len(Text) \in Nat
      BY <2>3
    <3>2. line > Len(Text) /\ line \in Nat
      BY <1>1, <2>3
    <3> QED BY <2>2, <3>1, <3>2
  <2> QED BY <2>1, <2>3, <2>4
<1>3. /\ end \in Items /\ end.label = NoText /\ end.line = line
      /\ end.bits = EndBits /\ end.sym = NoText
  BY <1>2, EndType DEF Item
<1>4. bin.code = output \o <<end>> /\ bin.data = dataMap
  BY <1>2, <1>3, AppendIsConcat
<1> HIDE DEF Text, bin
<1>5. Renders(Text, line + 1, bin.code)
  <2>1. Adds(Text, line, <<end>>)
    BY <1>2, <1>3, AddsEnd
  <2>2. <<end>> \in Seq(Items) /\ <<end>>[1] = end
    BY <1>3
  <2> HIDE DEF end
  <2> QED BY <1>2, <1>3, <1>4, <2>1, <2>2, Grows DEF FileSoFar
<1>6. Remembers(args, file + 1, 1, bin.data)
  BY <1>1, <1>2, <1>4, AssembledParts, RemembersNextFile
<1>11. Finds(Text, bin.code, bin.data)
  <2>1. <<end>> \in Seq(Items) /\ \A k \in DOMAIN <<end>> : <<end>>[k].line \notin DOMAIN Text
    BY <1>2, <1>3
  <2>2. Finds(Text, output, dataMap)
    BY <1>2 DEF FileSoFar
  <2> HIDE DEF end
  <2>3. Finds(Text, output \o <<end>>, dataMap)
    BY <1>2, <2>1, <2>2, FindsGrows
  <2> QED BY <1>4, <2>3
<1>7. Assembled(args, file, bin)
  <2>1. line + 1 = Len(args[file].text) + 2
    BY <1>2
  <2> QED BY <1>2, <1>5, <1>6, <1>11, <2>1 DEF Assembled
<1>8. BinsSoFar'
  <2>1. DOMAIN bins' = DOMAIN bins \cup {args[file].name}
        /\ bins'[args[file].name] = bin
        /\ \A n \in DOMAIN bins : n # args[file].name => bins'[n] = bins[n]
    BY <1>1, Zenon DEF Put
  <2> SUFFICES ASSUME NEW n \in DOMAIN bins'
               PROVE  \E i \in 1..file : /\ args[i].name = n
                                         /\ \A j \in (i + 1)..file : args[j].name # n
                                         /\ Assembled(args, i, bins'[n])
    <3>1. (file + 1) - 1 = file
      BY <1>2
    <3> QED BY <1>1, <3>1 DEF BinsSoFar
  <2>2. CASE n = args[file].name
    <3>1. file \in 1..file /\ (file + 1)..file = {}
      BY <1>2
    <3> QED BY <1>7, <2>1, <2>2, <3>1
  <2>3. CASE n # args[file].name
    <3>1. n \in DOMAIN bins /\ bins'[n] = bins[n]
      BY <2>1, <2>3
    <3>2. PICK i \in 1..(file - 1) : /\ args[i].name = n
                                     /\ \A j \in (i + 1)..(file - 1) : args[j].name # n
                                     /\ Assembled(args, i, bins[n])
      BY <3>1, AssembledParts DEF BinsSoFar
    <3>3. \A j \in (i + 1)..file : j = file \/ j \in (i + 1)..(file - 1)
      BY <1>2
    <3>4. i \in 1..file
      BY <1>2
    <3> QED BY <2>3, <3>1, <3>2, <3>3, <3>4
  <2> QED BY <2>2, <2>3
<1>9. Remembers(args, file, line, dataMap)'
  BY <1>1, <1>4, <1>6
<1>10. (file <= Len(args) => FileSoFar)'
  <2> SUFFICES ASSUME file + 1 <= Len(args) PROVE FileSoFar'
    BY <1>1
  <2>1. file + 1 \in DOMAIN args
    BY <1>2
  <2> QED BY <1>1, <1>2, <2>1, FileBegins
<1> QED BY <1>8, <1>9, <1>10, AssembledByParts

LEMMA InitAssembled == Init => AssembledSoFar
<1> SUFFICES ASSUME Init PROVE AssembledSoFar
  OBVIOUS
<1>1. /\ args \in Seq(Files) /\ file = 1 /\ line = 1 /\ textSection = FALSE
      /\ insideLabel = FALSE /\ output = <<>> /\ dataMap = <<>> /\ bins = <<>>
  BY CommandLinesAssumption DEF Init, AssemblerInit, Files
<1>2. Remembers(args, file, line, dataMap)
  BY <1>1, RemembersNothing
<1>3. file <= Len(args) => FileSoFar
  <2> SUFFICES ASSUME file <= Len(args) PROVE FileSoFar
    OBVIOUS
  <2>1. Text \in Seq(Lines)
    <3>1. args[file] \in Files
      BY <1>1
    <3> QED BY <3>1 DEF Text, Files
  <2> HIDE DEF Text
  <2>2. Renders(Text, 1, <<>>) /\ ~InText(Text, 1)
    BY <2>1, RendersNothing, InTextFirst
  <2>3. \A e \in LabelsOf(Text) : ~(e < 1)
    BY <2>1, TextLines
  <2>4. 1 <= Len(Text) + 1
    BY <2>1
  <2>5. Finds(Text, <<>>, dataMap)
    BY FindsNothing
  <2> QED BY <1>1, <2>2, <2>3, <2>4, <2>5 DEF FileSoFar
<1>4. BinsSoFar
  BY <1>1 DEF BinsSoFar
<1> QED BY <1>2, <1>3, <1>4, AssembledParts

LEMMA NextAssembled == TypeOK /\ AssembledSoFar /\ [Next]_vars => AssembledSoFar'
<1> SUFFICES ASSUME TypeOK, AssembledSoFar, [Next]_vars PROVE AssembledSoFar'
  OBVIOUS
<1>1. CASE AssemblerStep
  BY <1>1, SectionAssembled, InstructionAssembled, VariableAssembled, LabelAssembled,
     WriteAssembled DEF AssemblerStep, TypeOK
<1>2. CASE UNCHANGED assemblerVars
  <2>1. /\ Text' = Text
        /\ UNCHANGED <<args, file, line, textSection, insideLabel, output, dataMap, bins>>
    BY <1>2 DEF assemblerVars, Text
  <2> HIDE DEF Text
  <2>2. Remembers(args, file, line, dataMap)'
    BY <2>1, AssembledParts
  <2>3. (file <= Len(args) => FileSoFar)'
    BY <2>1, AssembledParts DEF FileSoFar
  <2>4. BinsSoFar'
    BY <2>1, AssembledParts DEF BinsSoFar
  <2> QED BY <2>2, <2>3, <2>4, AssembledByParts
<1> QED BY <1>1, <1>2 DEF Next, Started, vars

(* Line by line, the assembler has made of the files what they say: the    *)
(* code in their order with its ENDs, every .bin file with the variables   *)
(* of its file and of those before it (assembler.cpp:150-193, 294-319,     *)
(* 340-377).                                                               *)
THEOREM AssembledAsWritten == Spec => []AssembledSoFar
BY InitType, NextType, InitAssembled, NextAssembled, PTL DEF Spec

=============================================================================
