------------------------------- MODULE Loader -------------------------------
(***************************************************************************)
(* src/loader/loader.cpp: the .bin files, in the order of the command      *)
(* line, are placed one behind the other in the one memory.  loadProgram   *)
(* reads the code, then the variables, and then stores the code with its   *)
(* symbols replaced.                                                       *)
(***************************************************************************)
EXTENDS Assembler

CONSTANT MemorySize  \* words of the memory (2048 * 2048 in the code)

ASSUME MemorySizeAssumption == MemorySize \in Nat

VARIABLES
  initProgram,       \* base addresses: of the programs loaded, and the next
  position,          \* next item of the code
  labelAddresses, variableAddresses,
  instructions,      \* read and not yet stored
  address,           \* for the next word read
  memAddress,        \* for the next instruction stored
  ram,
  origin,            \* the line a word of code comes from, 0 for none (model only)
  written,           \* the addresses written so far (of the model only)
  aborted            \* exit(1), or an exception nobody catches

placing == <<position, labelAddresses, variableAddresses, instructions, address>>
image == <<ram, origin, written>>
loaderVars == <<initProgram, placing, memAddress, image, aborted>>

Addresses == 0..(MemorySize - 1)

(* The program being loaded and its .bin file.                             *)
Program == Len(initProgram)
Bin == bins[args[Program].name]

Loading == file > Len(args) /\ Program <= Len(args) /\ ~aborted

ReadingCode == Loading /\ position <= Len(Bin.code)

(* 16 - name.length() is unsigned.                                         *)
padNameThrows(n) == n \in LongNames

Abort == aborted' = TRUE /\ UNCHANGED <<initProgram, placing, memAddress, image>>

(* An instruction gets the next address.                                   *)
Push(item) ==
  /\ instructions' = Append(instructions, item)
  /\ address' = address + 1
  /\ UNCHANGED <<initProgram, variableAddresses, memAddress, image, aborted>>

LoadInstruction ==
  /\ ReadingCode
  /\ Bin.code[position].label = NoText
  /\ position' = position + 1
  /\ Push(Bin.code[position])
  /\ UNCHANGED labelAddresses

AtLabel == ReadingCode /\ Bin.code[position].label # NoText

(* The line after a label is read at once.                                 *)
DefineLabel(a) ==
  /\ labelAddresses' = Put(labelAddresses, Bin.code[position].label, a)
  /\ position' = position + 2
  /\ Push(Bin.code[position + 1])

(* Slips: a label is the address after its line; padName takes any length. *)
LoadLabelLate == AtLabel /\ DefineLabel(address + 1)
LoadLabelAnyLength == AtLabel /\ DefineLabel(address)

(* A label is the address of the line after it.  padName throws if the     *)
(* name is too long.                                                       *)
LoadLabel ==
  /\ AtLabel
  /\ IF padNameThrows(Bin.code[position].label) THEN Abort ELSE DefineLabel(address)

(* The variables come in the order of a hash map: any.                     *)
Unread == DOMAIN Bin.data \ DOMAIN variableAddresses

ReadingData == Loading /\ position > Len(Bin.code) /\ Unread # {}

(* A name that is too long, or an empty list: the conversion throws.  Data *)
(* that does not fit: exit(1).                                             *)
Stops(v) ==
  \/ padNameThrows(v)
  \/ Bin.data[v] = <<>>
  \/ address + Len(Bin.data[v]) > MemorySize

LoadVariable ==
  /\ ReadingData
  /\ \E v \in Unread :
       IF Stops(v) THEN Abort
       ELSE LET values == Bin.data[v]
                place == address..(address + Len(values) - 1) IN
            /\ variableAddresses' = Put(variableAddresses, v, address)
            /\ address' = address + Len(values)
            /\ ram' = [a \in Addresses |->
                         IF a \in place THEN IntBits(values[a - address + 1]) ELSE ram[a]]
            /\ written' = written \cup place
            /\ UNCHANGED <<initProgram, position, labelAddresses, instructions,
                           memAddress, origin, aborted>>

(* A symbol is replaced by the low 16 bits of its address.  With a symbol  *)
(* that is neither label nor variable, stoul reads the 16 digits before it *)
(* only.                                                                   *)
Resolved(item) ==
  LET at(a) == [item.bits EXCEPT !.low = Low(a)] IN
  IF item.sym = NoText THEN item.bits
  ELSE CASE item.sym \in DOMAIN labelAddresses -> at(labelAddresses[item.sym])
         [] item.sym \in DOMAIN variableAddresses \ DOMAIN labelAddresses ->
              at(variableAddresses[item.sym])
         [] OTHER -> IntBits(HighOf(item.bits))

Storing == Loading /\ position > Len(Bin.code) /\ Unread = {}

(* WriteMem: beyond the memory nothing is stored.                          *)
LoadStore ==
  /\ Storing
  /\ instructions # <<>>
  /\ instructions' = Tail(instructions)
  /\ memAddress' = memAddress + 1
  /\ IF memAddress \in Addresses
     THEN /\ ram' = [ram EXCEPT ![memAddress] = Resolved(Head(instructions))]
          /\ origin' = [origin EXCEPT ![memAddress] = Head(instructions).line]
          /\ written' = written \cup {memAddress}
     ELSE UNCHANGED image
  /\ UNCHANGED <<initProgram, position, labelAddresses, variableAddresses, address, aborted>>

NextProgram(base) ==
  /\ Storing
  /\ instructions = <<>>
  /\ initProgram' = Append(initProgram, base)
  /\ address' = base
  /\ memAddress' = base
  /\ position' = 1
  /\ labelAddresses' = <<>>
  /\ variableAddresses' = <<>>
  /\ UNCHANGED <<instructions, image, aborted>>

(* A slip: the next program begins behind the code.                        *)
LoadReturnCodeEnd == NextProgram(memAddress + 1)

(* loadProgram returns where main has the next program begin.              *)
LoadReturn == NextProgram(address + 1)

EmptyRam == [a \in Addresses |-> IntBits(0)]

LoaderInit ==
  /\ initProgram = <<0>>
  /\ position = 1
  /\ labelAddresses = <<>>
  /\ variableAddresses = <<>>
  /\ instructions = <<>>
  /\ address = 0
  /\ memAddress = 0
  /\ ram = EmptyRam
  /\ origin = [a \in Addresses |-> 0]
  /\ written = {}
  /\ aborted = FALSE

LoaderStep ==
  LoadInstruction \/ LoadLabel \/ LoadVariable \/ LoadStore \/ LoadReturn

=============================================================================
