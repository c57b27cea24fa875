----------------------------- MODULE Assembler -----------------------------
(***************************************************************************)
(* src/assembler/assembler.cpp: the files of the command line become .bin  *)
(* files, one after the other, line by line.                               *)
(*                                                                         *)
(* A line of a file is one of                                              *)
(*   Section(t)          .text if t, .data if not                          *)
(*   Colon(n, texts)     n: texts, a label or the values of a variable     *)
(*   Op(op, args)        an instruction and its operands                   *)
(* and every text in it is an atom.  A value list of one text has no comma.*)
(***************************************************************************)
EXTENDS Encoding, FiniteSetsExt

CONSTANTS
  CommandLines,  \* the command lines: sequences of files, [name, text]
  Texts,         \* what stands for an operand, a name or a value in a file
  Stoi,          \* the texts stoi reads a number in, and the number
  LongNames      \* the texts of more than 16 characters

(* What stoi returns: an int.                                              *)
Numbers == {n \in Int : 0 - 2147483647 - 1 <= n /\ n <= 2147483647}

(* The name of a register begins with $ and is no number.                  *)
ASSUME StoiAssumption ==
  /\ DOMAIN Stoi \subseteq Texts
  /\ DOMAIN Stoi \cap DOMAIN registerMap = {}
  /\ \A t \in DOMAIN Stoi : Stoi[t] \in Numbers

VARIABLES
  args,         \* the command line
  file,         \* the file being assembled
  line,         \* the line to read next
  textSection,  \* after a .text
  insideLabel,  \* after a label
  output,       \* what the file has become so far
  dataMap,      \* variables to values: global, never cleared
  bins          \* the .bin files, by name

assemblerVars == <<args, file, line, textSection, insideLabel, output, dataMap, bins>>

Section(t)       == [kind |-> "section", text |-> t]
Colon(n, values) == [kind |-> "colon", name |-> n, values |-> values]
Op(op, operands) == [kind |-> "op", op |-> op, args |-> operands]

NoText == ""

(* operator[] of a hash map.                                               *)
Put(f, x, v) == [y \in DOMAIN f \cup {x} |-> IF y = x THEN v ELSE f[y]]

(* An item of the output: a label, or a word with the symbol that is to    *)
(* replace its low half.  line, of the model only, is where it comes from. *)
Label(n) == [label |-> n, bits |-> EndBits, sym |-> NoText, line |-> line]
Item(bits, sym) == [label |-> NoText, bits |-> bits, sym |-> sym, line |-> line]

(* An immediate instruction: a number in place, any other text a symbol.   *)
ITypeItem(op, rs, rt, text) ==
  IF text \in DOMAIN Stoi
  THEN Item(IType(op, rs, rt, Low(Stoi[text])), NoText)
  ELSE Item(IType(op, rs, rt, 0), text)

Calculating == {"ADD", "SUB", "DIV", "MULT"}
Branching   == {"BEQ", "BNE", "BGT", "BLT", "BLTI", "BGTI"}

(* The operands an instruction reads, and the lines of a file: every       *)
(* instruction has its operands, every colon a value or NoText behind it.  *)
Arity(op) ==
  CASE op \in Calculating \cup Branching -> 3
    [] op \in Immediate -> 2
    [] op \in {"J", "PRINT"} -> 1
    [] OTHER -> 0

Names == Texts \ {NoText}

Lines ==
  [kind : {"section"}, text : BOOLEAN]
    \cup [kind : {"colon"}, name : Names, values : Seq(Texts) \ {<<>>}]
    \cup {l \in [kind : {"op"}, op : DOMAIN instructionMap, args : Seq(Names)] :
            Len(l.args) >= Arity(l.op)}

ASSUME CommandLinesAssumption ==
  /\ NoText \in Texts
  /\ CommandLines \subseteq Seq([name : STRING, text : Seq(Lines)])

(* The items of an instruction, none if it is dropped: lw and sw do not    *)
(* look at the register but at the variable, and `and` has no case.        *)
Encoded(i) ==
  LET code(k) == getRegisterCode(i.args[k])
      valid(n) == \A k \in 1..n : code(k) # -1 IN
  CASE i.op \in Calculating /\ valid(3) ->
         <<Item(RType(i.op, code(2), code(3), code(1)), NoText)>>
    [] i.op \in Branching /\ valid(2) -> <<ITypeItem(i.op, code(1), code(2), i.args[3])>>
    [] i.op = "J" -> <<ITypeItem("J", 0, 0, i.args[1])>>
    [] i.op \in {"LI", "LA"} /\ valid(1) -> <<ITypeItem(i.op, 0, code(1), i.args[2])>>
    [] i.op \in {"LW", "SW"} /\ i.args[2] \in DOMAIN dataMap ->
         <<ITypeItem(i.op, 0, code(1), i.args[2])>>
    [] i.op = "PRINT" ->
         <<IF valid(1) THEN Item(IType("PRINT", 0, code(1), 0), NoText)
                       ELSE ITypeItem("PRINT", 0, 0, i.args[1])>>
    [] OTHER -> <<>>

(* The values of a list, up to the first that is no number.                *)
Parsed(values) ==
  LET n == Min({k \in 0..Len(values) : k = Len(values) \/ values[k + 1] \notin DOMAIN Stoi}) IN
  [i \in 1..n |-> Stoi[values[i]]]

(* A single value has to be a number; a list may come out empty.           *)
Defines(l) == Len(l.values) > 1 \/ l.values[1] \in DOMAIN Stoi

-----------------------------------------------------------------------------
(* Actions: one for each kind of line, and one for the end of the file.    *)

Text == args[file].text

Reads(kind) ==
  /\ file <= Len(args)
  /\ line <= Len(Text)
  /\ Text[line].kind = kind
  /\ line' = line + 1

AsmSection ==
  /\ Reads("section")
  /\ textSection' = Text[line].text
  /\ UNCHANGED <<args, file, insideLabel, output, dataMap, bins>>

ReadsLabel(before) ==
  /\ Reads("colon")
  /\ textSection
  /\ output' = output \o before \o <<Label(Text[line].name)>>
  /\ insideLabel' = TRUE
  /\ UNCHANGED <<args, file, textSection, dataMap, bins>>

(* A slip: no END before a label.                                          *)
AsmLabelOpen == ReadsLabel(<<>>)

(* A label but the first ends what is before it.  A name that is too long  *)
(* is warned of.                                                           *)
AsmLabel == ReadsLabel(IF insideLabel THEN <<Item(EndBits, NoText)>> ELSE <<>>)

AsmInstruction ==
  /\ Reads("op")
  /\ output' = IF textSection THEN output \o Encoded(Text[line]) ELSE output
  /\ UNCHANGED <<args, file, textSection, insideLabel, dataMap, bins>>

AsmVariable ==
  /\ Reads("colon")
  /\ ~textSection
  /\ dataMap' = IF Defines(Text[line])
                THEN Put(dataMap, Text[line].name, Parsed(Text[line].values))
                ELSE dataMap
  /\ UNCHANGED <<args, file, textSection, insideLabel, output, bins>>

(* The end of the file, and the start of the next.                         *)
Written(data) ==
  /\ file <= Len(args)
  /\ line > Len(Text)
  /\ bins' = Put(bins, args[file].name,
                 [code |-> Append(output, Item(EndBits, NoText)), data |-> dataMap])
  /\ dataMap' = data
  /\ file' = file + 1
  /\ line' = 1
  /\ textSection' = FALSE
  /\ insideLabel' = FALSE
  /\ output' = <<>>
  /\ UNCHANGED args

(* A slip: each file has variables of its own.                             *)
AsmWriteClears == Written(<<>>)

(* writeOutputFile: an END, and all of dataMap.                            *)
AsmWrite == Written(dataMap)

AssemblerInit ==
  /\ args \in CommandLines
  /\ file = 1
  /\ line = 1
  /\ textSection = FALSE
  /\ insideLabel = FALSE
  /\ output = <<>>
  /\ dataMap = <<>>
  /\ bins = <<>>

AssemblerStep ==
  AsmSection \/ AsmLabel \/ AsmInstruction \/ AsmVariable \/ AsmWrite

=============================================================================
