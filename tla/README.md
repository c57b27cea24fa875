# A verification project for the multicore von Neumann simulator

The repository simulates a small MIPS-like computer with several cores and the
bases of an operating system: programs are assembled, loaded into one memory
and executed, preemptively, by two core threads; a scheduler thread decides
when everything is done, and a resource manager thread serves the print
requests. These TLA+ modules model what can go wrong between those threads,
inside the pipeline, and on the way from the files of the command line to the
memory the threads start with. Paths below are those of the repository (`src/main.cpp`,
`src/cpu/CONTROL_UNIT.cpp` = `CU`).

## 1. The system

| Component | State | Operations | Talks to |
|---|---|---|---|
| `coreManage` (main.cpp:33-64), one thread per core | `currentProcess` | find a Ready PCB and claim it; call `Core`; put it back | PCB states, `queueLock`, `Core` |
| `scheduler` (main.cpp:66-92) | `allDone` | scan the PCBs, look at `ioRequests`, raise `shutdown` | PCB states, `queueLock`, `ioRequests` |
| `resourceManager` (main.cpp:95-119) | `req` | take a request, raise `printLock`, erase it, print, wake the process, lower `printLock` | `ioRequests`, `printLock`, PCB states; never locks |
| PCB, `scheduleInfo` (PCB.h) | state, register bank, quantum; the shared variables | - | everyone |
| `Core`, `Control_Unit` (CU) | slots of the pipeline, `counter`, `counterForEnd`, `endProgram`, `endExecution` | five stages, from the last to the first, once per clock | register bank, memory, `ioRequests`, `printLock`, PCB state |
| ALU, register bank, main memory | words | calculate; read and write by name or address | `Control_Unit` |
| Assembler (assembler.cpp) | section, `insideLabel`, the output of a file; the global `dataMap` | read a line: section, label, instruction, variable; write the `.bin` | `.bin` files |
| Loader (loader.cpp) | `labelAddresses`, `variableAddresses`, the instructions read; `address`, `memAddress` | read the code, define labels, place variables, substitute symbols and store | `.bin` files, memory |
| `main` (main.cpp:121-187) | `initProgram`, the PCBs | assemble every file, load every program, start and join the threads | all of the above |
| Secondary memory | - | no caller | - |

Hard behaviour, and what makes each part correct:

* *Threads.* Only `queueLock` synchronises, and only cores and scheduler take
  it. `resourceManager` and `Core` change states, `ioRequests` and `printLock`
  without it. Correct means: one core per process, shutdown only when all is
  done, no output lost or duplicated or out of order, no process left Blocked,
  everyone leaves when told to.
* *Pipeline.* Instructions overlap; the quantum, a print or the END cut a call
  short with instructions in every stage, and a jump restarts the pipeline
  meanwhile. Correct means: what a program computes and prints does not depend
  on where it was preempted, and a call ends.
* *Assembler and loader.* Addresses of several programs in one memory, given
  before the symbols are known and by two counters; symbols replaced as text; a
  table of variables shared by all programs; encoder and decoder with tables and
  bit fields of their own. Correct means: the control unit reads every word as
  the line it comes from, a label is the address of what follows it, a variable
  has its values in the data of its own program, no word is written twice, and
  the simulator stops before it starts only for a reason in the files.

`PROJECT.json` lists these as components, and under `hazards` each place where
something hard to test can go wrong.

## 2. Modules

| Module | What it is |
|---|---|
| `Kernel` | the threads of main.cpp and what `Core` does to the state they share |
| `Simulator` | the abstract specification of the whole: programs end, prints are shown at most once, the stop comes when all have ended, with at most one print after it |
| `KernelProofs` | theorems about `Kernel` for every number of cores, processes and prints: types, ownership, shutdown |
| `KernelOutputProofs` | theorems about the requests and the output, and that `Kernel` implements `Simulator` |
| `MCKernel` | `Kernel` with the symmetry of the cores, for TLC |
| `ALU` | the arithmetic, on words of `Width` bits |
| `Encoding` | instructions as words: the tables and bit fields of the assembler, and those of the control unit; extends `ALU` |
| `ControlUnit` | the stages of the pipeline as operators on one machine; extends `Encoding` |
| `Isa` | the reference: README.MD's instruction set, one instruction after the other; extends `ControlUnit` |
| `Pipeline` | one process executed by successive calls of `Core`, turn by turn, beside its `Isa` execution |
| `PipelineProofs` | theorems about `Pipeline` for every lawful program: types, the countdown, no crash |
| `PipelinePreciseProofs` | theorems about `Pipeline` for every lawful and regular program: the flushed pipeline is the `Isa`, preemption is transparent, prints in order, progress |
| `MCPipeline` | the programs TLC runs |
| `Assembler` | the files of the command line become `.bin` files, line by line; extends `Encoding` |
| `Loader` | the `.bin` files become the contents of the memory; extends `Assembler` |
| `Startup` | `main` up to the threads: all files assembled, then all loaded; what the memory must then hold |
| `StartupProofs` | theorems about `Startup` for any files, memory and width of a word: types, the loader's two counters, what is read back of a word |
| `AssemblerProofs` | the invariant of the assembler: the output and the data map say what the lines read say |
| `LoaderProofs` | the invariant of the loader: where every instruction, label and variable is |
| `ProgramProofs` | theorems about what the threads find in the memory, from these two: instructions, labels, variables, order, abnormal ends |
| `MCStartup` | the files and command lines TLC runs |

`Kernel` and `Pipeline` split the system at the call of `Core`: `Kernel` lets a
core inside `Core` raise a print, return early or reach the END at any time;
`Pipeline` computes what a call does and lets the environment choose what
`printLock` is and when the process is dispatched again. `Startup` comes before
both: its result, what the control unit reads in the code of a loaded program,
is the kind of program `Pipeline` starts with. `Assembler` and `ControlUnit`
share `Encoding`, where `IType` and `RType` write a word and `Read` and `Decoded`
read it.

### Kernel

A thread is a control location (`cpc[c]`, `spc`, `rpc`) and its locals (`pcb[c]`,
`out[c]`, `seen`, `req`); an action is what a thread does between two accesses
to shared memory. So the condition of main.cpp:45, which reads the state twice,
is two actions (`CoreScan`, `CoreRecheck`), and `push_back` is two (`PushBegin`,
`PushEnd`) because another access may overlap it.

| Code | Actions |
|---|---|
| main.cpp:36-51 | `CoreLoop`, `CoreLock`, `CoreScan`, `CoreRecheck`, `CoreClaim` |
| main.cpp:54, CU inside the call | `PushBegin`, `PushEnd`, `RaceNulls`, `RaceAborts`, `TestPrintLock`, `Block`, `Yield`, `Finish` |
| main.cpp:56-60 | `CoreRelock`, `CoreCheck`, `CoreReady` |
| main.cpp:69-89 | `SchedLoop`, `SchedLock`, `SchedScan`, `SchedQueue`, `SchedDecide` |
| main.cpp:99-115 | `RMLoop`, `RMPoll`, `RMTake`, `RMRaise`, `RMErase`, `RMPrint`, `RMWake`, `RMLower` |

The data races are choices over what the build can produce. A `push_back` that
overlaps another `push_back` or an `erase` (its request is then in `raced`) may
lose its element, leave a null beside it, leave a null in the place of any pending
request (`RaceNulls`; that request is then in `raced` too), or corrupt the heap; an
`erase` so overlapped may lose its effect or leave a null at the end; a null that is
printed, or a request taken from storage that is being reallocated, crashes.
Two cores inside `Core` on one PCB share its registers (the process is then
`tainted`) and may do anything a core may do. Plain `bool`s and states are
read and written as they are, atomically. Reads the compiler might hoist out of
the loops are taken to be done each time.

Four variables are of the model only: `ended` (whose END has been reached),
`disturbed` (who was made Ready while a core still had it), `tainted`, `raced`.

### Pipeline

`m` holds what a call of `Core` works on: registers, `pc`, `ir`, data, slots,
the control variables. `Turn` is one iteration of the loop of CU:24-56: write
back, memory, execute, decode, fetch, each on what the stage before left. The
slots keep their old fields when they are used again after a jump, as the
vector does. `Decoded` writes only the fields the code writes. An instruction
is what `Read` gives of its word: the fields, the immediate after
`ConvertToDecimalValue`.

`isa` advances by `IsaStep` when the pipeline executes an instruction; it is
what README.MD says the program should do. `Flushed` is the machine once the
memory and write-back stages have done what is on its way to them, without
fetching, decoding or executing any more: it should always be in the state of `isa`.

### Assembler and loader

| Code | Actions |
|---|---|
| assembler.cpp:166-176 | `AsmSection` |
| assembler.cpp:181-197 | `AsmLabel` |
| assembler.cpp:199-288 | `AsmInstruction` |
| assembler.cpp:289-330 | `AsmVariable` |
| assembler.cpp:338-377 | `AsmWrite` |
| loader.cpp:78-88 | `LoadLabel` |
| loader.cpp:90-93 | `LoadInstruction` |
| loader.cpp:40-76 | `LoadVariable` |
| loader.cpp:97-126 | `LoadStore` |
| loader.cpp:128, main.cpp:140-142 | `LoadReturn` |

The state has the names of the code: `dataMap`, `insideLabel`, `labelAddresses`,
`address`, `memAddress`. A text of a file is an atom, and what the code asks of
it is a constant: `Stoi` says in which texts `stoi` reads a number and which
(`7th` is 7), `LongNames` which names are longer than 16 characters. A word is a
record of its bit fields; `Low` and the remainder by 32 are what `bitset` does to
larger numbers and to the -1 of an unknown register. The variables come out of
the hash map in any order. `AsDecimal` and `OnesOf` are the two conversions of
`ConvertToDecimalValue` (binary digits read as a decimal number that wraps, then
the ones of its decimal digits), digit by digit. `exit(1)` and the exceptions
that nothing catches set `aborted`.

Three variables are of the model only: `line` in each item and `origin` for each
word say which line of the file it comes from, and `written` which words of the
memory have been written.

## 3. Runs

Kernel runs have two cores, as the code (`NUM_CORES` 2). `MaxSlices` bounds
how often `Core` returns early per process, `MaxPrints` the prints per process.

| Run | Bounds | Shows |
|---|---|---|
| `kernel_safety` | 2 processes, 1 print and 1 slice each | `TypeOK`, `SoleOwner`, `ShutdownSound`, `NothingLost`, `RevivedByAnswerOnly`, `ImplementsSimulator`, and the inductive invariant `KernelInv` |
| `kernel_output` | 1 process, 3 prints, 1 slice | `OutputInOrder`, and the inductive invariant `RequestInv` |
| `kernel_plain` | 2 processes, 2 slices, no prints | `EndsUnlessItHangs` |
| `kernel_stops` | 1 process, 2 prints, 1 slice | `ShutdownStops` |
| `kernel_ends` | 1 process, 2 prints, 1 slice | `EndsOrStrands` |
| `pipeline_regular` | all regular programs of 4 instructions (menu of 11), quanta 1, 3, 6, 4 calls | `TypeOK`, `Precise`, `PrintsInOrder`, `DrainBounded`, `Progress`, `NoCrash`, and the inductive invariants `CallInv`, `InStep` |
| `startup` | all bodies of 4 lines (menu of 7); all command lines of up to 3 of 7 files; one file 8 times; the example of README.MD:272-285; 30 words of memory | `TypeOK`, `RoomKept`, `WrittenOnce`, `InstructionsAsWritten`, `LabelsAsDefined`, `VariablesAsDeclared`, `LinesInOrder`, `ImmediatesExact`, `AbortsExactly`, and the inductive invariants `AssembledSoFar`, `LoadedSoFar` |
| `lost_wakeup` | 1 process, 1 print | violation of `BlockedIsPending` |
| `two_cores_one_process` | 1 process, 1 print | violation of `OneCorePerProcess` |
| `store_lost`, `beq_crash`, `tight_loop` | one program each | violations of `AsDocumented`, `NoCrash`, `QuantumEndsCall` |

The violations refute sentences of README.MD and of SO__Multicore.pdf (pages 2 and 3; the
text is compressed in the file and has to be extracted to be read).

Why the bounds are enough. Two processes are what the scheduler's scan needs to
be overtaken, one process is what two cores need to collide on. Three prints
give a request in hand, one pending and one being pushed, so every overlap of
`ioRequests` happens, with both outcomes. Quantum 1 ends every call after its
first instruction, 3 in the middle of a program, 6 after most of it; the code's
10 differs from 6 only by longer programs. Four instructions and an END fill the five
stages. Words have two bits so that additions wrap and a division by zero leaves any
of four words; `LastSlot` is larger than the slots any of these calls uses, and
TLC would report a use beyond it. After `MaxCalls` the process is left Ready,
which bounds the programs that loop for ever.

In `startup` the bodies put labels, jumps to labels before and behind, loads,
prints and arithmetic in every order. The seven files share names of files, labels
and variables in all the ways the code can confuse: a variable of an earlier file,
the same one again, a label with the name of a variable or of a number, a label
defined twice, a list that stops at a bad value or is empty, a number of more than
16 bits as data and as an immediate that `bitset<16>` cuts, an unknown register,
an undefined symbol, names that are too long, a file without `.text` before its
code. Of three files in any order, the same one twice included, most fit the 30
words and some have data beyond them (`exit(1)`); the file without data, eight
times, has its last END beyond them, where `WriteMem` drops it. Words have 14
bits: a word then holds five decimal digits and `Limit`, the first immediate that
is misread, is 32, within the memory; with 32 bits it is ten digits and 1024.

`SoleOwner` and `RevivedByAnswerOnly` speak of the processes not in `disturbed`:
`two_cores_one_process` shows that for the others they are false. In the same
way `NothingLost` leaves out the raced requests and the tainted processes.
The properties of `Startup` speak of the files in `Unshadowed`, whose `.bin` no
later file of the same name has replaced: of two such files the first program
runs the code of the second. Nor do they speak of a program with code beyond the
memory, which `WriteMem` drops after printing a line (`Loaded`). `InstructionsAsWritten` speaks of instructions whose
symbol is known (a label or a declaration; a `lw` or `sw` is assembled only with one)
and whose number is below `Limit`, and `ImmediatesExact` says that exactly those are
read as written: a jump to address 1024 of the real memory goes to 640. It also
leaves out the print of a word at address 0, which the control unit takes for a print
of a register. `VariablesAsDeclared` and `LabelsAsDefined` speak of addresses cut to 16 bits (`Low`), as
`bitset<16>` cuts them.

`EndsUnlessItHangs` and `EndsOrStrands` name the ways a run can fail to end, and no more
is claimed than that these are all, in the bounds of their runs. Without prints there are
two: `Starves` (the scheduler, a core with a process to return, or all the cores that
look for one, wait for ever for a lock that is free again and again: main.cpp:40, 56, 70)
and `CoreStays` (a call of `Core` never returns, as in `tight_loop`). With prints a
run may also crash (`aborted`), strand a Blocked process (`lost_wakeup`), or hand a process
to and fro (`HandedToAndFro`): once two cores have one process, each can make it Ready
after the other has finished it (main.cpp:57-58 test the state and set it in two steps),
and take it again, for ever. TLC finds a run that does not end when any of these is left
out of the property.

`Precise`, `PrintsInOrder`, `Progress` and `InStep` are stated for the programs of
`Regular`. `Regular` asks that what an instruction names is there (`Documented`) and
excludes some patterns. The patterns it excludes are
those the pipeline executes otherwise than README.MD says; `MCPipeline` has a
program for each, and `PipelineStoreLost.cfg` with another value of `Programs`
shows it:

| Program | What happens |
|---|---|
| `StoreLost` | sw, then a taken jump: the store is lost |
| `StoreLate` | sw of a register the next instruction computes: the new value is stored |
| `MultProgram` | mult is decoded as `MULT`, executed as `MUL` (CU:109, 145): never |
| `BneProgram` | bne has no name in `Identificacao_instrucao` (CU:211-264): ignored |
| `BeqProgram` | beq is executed but not decoded: the simulator crashes |
| `ZeroProgram` | `$zero` can be written (REGISTER_BANK.h:86) |
| `StaleProgram` | a print of a variable in a reused slot prints a register |
| `TightLoop` | a jump to itself is never preempted |

So the precision results do not cover every program: `testes/example.asm`, for one, both
jumps and prints a variable (`print Z`), and is outside `Regular`.

Four facts about the files came up while stating the properties of `startup`.
The example of README.MD:272-285 has no `.text` line, so that nothing of it is
assembled but an END. `lw` and `sw` test `rs`, which is 0, instead of the register
they have read (assembler.cpp:247-260): with an unknown one they become
instructions on `$fp`. An instruction other than these with an undefined symbol is
reported and stored all the same, as the 16 digits before it. And a print names a
register and a word in the same format: the control unit takes an operand of 0 for
a register (CU:130-138), so a print of the word at address 0 prints `$zero`; the proof
of `InstructionsAsWritten` failed on it, and `MCStartup` has a file that prints its first word.

Fairness. All of it is weak fairness of threads. `ThreadsScheduled` says that pthreads
are scheduled and `usleep` ends: a thread that can go on for ever does, but for a core
inside `Core`, which may stay there. `ThreadsRun` adds that `Core` returns. Neither promises
anything about `queueLock`: `std::mutex` does not say who gets it, and the scheduler and
the idle cores take it over and over, so a thread that waits for it may wait for ever. So
`EndsUnlessItHangs` and `EndsOrStrands` (under `ScheduledSpec`) have both as outcomes,
while `ShutdownStops` (under `LiveSpec`) holds whatever the lock does: once shutdown
is raised nobody comes back for it. The pipeline's `FairSpec` is weak fairness of the turn and of the return of the one thread.

## 4. Proofs

`KernelProofs` and `KernelOutputProofs` prove, for any set of cores and any
`NumProcs`, `MaxSlices`, `MaxPrints` allowed by `KernelAssumption`:

| Theorem | Property |
|---|---|
| `KernelProofs!Types` | `TypeOK` |
| `KernelProofs!Invariance` | `KernelInv` |
| `KernelProofs!OwnerTheorem` | `SoleOwner` |
| `KernelProofs!ShutdownTheorem` | `ShutdownSound` |
| `KernelProofs!RevivalTheorem` | `RevivedByAnswerOnly` |
| `KernelOutputProofs!Requested` | `RequestInv` |
| `KernelOutputProofs!Ordered` | `OutputInOrder` |
| `KernelOutputProofs!Delivered` | `NothingLost` |
| `KernelOutputProofs!Implementation` | `ImplementsSimulator` |

`TypeOK` is inductive by itself; its last part, that the vector has an element
from the test of `RMPoll` to the erase, holds because a raced `push_back` never
shortens the vector. `SoleOwner` is not inductive: a core about to claim must
know that the process it saw Ready still is. `Ownership` says so, and needs
`LockHeld` (no other core is between its test and its claim). `ShutdownSound`
needs `SeenEnded`: what the scheduler has gone past has reached its END, even if
its state has been changed since. `KernelInv` is the three together, inductive
with `TypeOK`. The cores, the scheduler and the resource manager each have a
lemma per part, with a case per action.

The output is about `Flow`: what is printed, in the hand of the resource manager
and pending, in one sequence. Its order is not inductive either. `RequestInv`
adds: a process whose registers were never shared is inside `Core` once
(`Alone`), so that what a core is about to push comes after everything of its
process (`PushesFresh`); every request owed is in `Flow` or being pushed, and no
longer pending once the scheduler has seen the vector empty (`Accounted`); and
until the erase the front of the vector is the null the move left (`FrontTaken`),
so that erasing it loses nothing. `Sorted(Flow, tainted)` then survives what a raced
`push_back` or `erase` does, because these drop or blank elements and never swap
them. The refinement maps the requests printed, the processes ended and shutdown
to the variables of `Simulator`, and `Closed` to its last one: once shutdown is raised
and the request in hand is printed, the resource manager prints nothing more. Every
step is one of its steps or a stutter, given `KernelInv` and `RequestInv`.

`PipelineProofs` proves, for any registers, memory, width of a word and quanta,
and any programs that are `Lawful` (registers and targets of jumps exist, no jump
leads to a jump, no `beq`; TLC checks that the programs of `pipeline_regular` are):

| Theorem | Property |
|---|---|
| `PipelineProofs!Typed` | `TypeOK` |
| `PipelineProofs!Calls` | `CallInv` |
| `PipelineProofs!Drained` | `DrainBounded` |
| `PipelineProofs!Survives` | `NoCrash` |

The drain is bounded because a jump that restarts the countdown, which it can do
only with three or more turns left, leaves the pipeline `Refilled`: empty, with the
target in the ir. The target is not a jump and is the only instruction decoded
before the stages stop, so it cannot happen again. `Drains` is this count, and
also keeps every stage within the slots; `Decodable` says that what is in the ir and in the
slots, old fields included, names registers and targets. A lemma per stage says
what it keeps, and `TurnSettles` puts the stages together. `tight_loop` and `beq_crash`
show that what `Lawful` asks is needed.

`PipelinePreciseProofs` proves, for the same constants and any programs that are
`Lawful` and `Regular` (TLC checks that those of `pipeline_regular` are both):

| Theorem | Property |
|---|---|
| `PipelinePreciseProofs!TurnByTurn` | `InStep` |
| `PipelinePreciseProofs!PreciselyPreempted` | `Precise` |
| `PipelinePreciseProofs!PrintedInOrder` | `PrintsInOrder` |
| `PipelinePreciseProofs!GetsOn` | `Progress` |

`Precise` speaks of the ends of the calls only; between them an instruction that the
`Isa` has done at once is spread over three stages. `CaughtUp` relates the two in
every turn: `Flushed(m)` has the registers, the data and the output of `isa`. A turn
preserves it because the stages run from the last to the first, so that what the
memory and write-back stages do in a turn is what flushing had done already, and
what the execute stage adds is the next `IsaStep` but for the part still to be
flushed (`Done`). This needs four more things. The slot to be executed must be
the decoding of the instruction at `isa.pc`, with no register name left over from
another (`SlotsDecoded`). The `pc` and the `ir` must be one or two instructions ahead of
`isa.pc`, depending on how full the pipeline is and whether it drains (`Place`,
`Holding`). A store in flight must be the instruction behind `isa.pc`
(`StoreInFlight`), because then `Regular` says that what executes next neither
computes its register nor jumps: this is where `StoreLate` and `StoreLost` would
break the proof. And the control variables must say so at the end of a call
(`Settings`). A jump that is taken is a case of its own: it empties the
pipeline in front of the target, and everything it drops has not been executed
yet (`Redirected`). `InStep` is these together, inductive with `TypeOK` and `CallInv`.
`Precise` follows because nothing is in flight when a call ends (`Idle`), and
`PrintsInOrder` because at most one print is (`AfterMemoryState`).

`StartupProofs`, `AssemblerProofs`, `LoaderProofs` and `ProgramProofs` prove, for any
files, any memory and any width of a word:

| Theorem | Property |
|---|---|
| `StartupProofs!Types` | `TypeOK` |
| `StartupProofs!Room` | `RoomKept` |
| `StartupProofs!NoOverwrite` | `WrittenOnce` |
| `StartupProofs!ReadsBack`, `ReadsBackDestination` | what `IType` and `RType` encode, `Read` reads back: operation, registers, operand |
| `AssemblerProofs!AssembledAsWritten` | `AssembledSoFar` |
| `LoaderProofs!LoadedAsRead` | `LoadedSoFar` |
| `ProgramProofs!InOrder` | `LinesInOrder` |
| `ProgramProofs!LabelsMeant` | `LabelsAsDefined` |
| `ProgramProofs!VariablesMeant` | `VariablesAsDeclared` |
| `ProgramProofs!StopsExactly` | `AbortsExactly` |
| `ProgramProofs!ImmediatesRead` | `ImmediatesExact`, in `Legible` words |
| `ProgramProofs!InstructionsMeant` | `InstructionsAsWritten`, in `Legible` words |

`WrittenOnce` needs `RoomKept`: between `memAddress` and `address` there is room
for every instruction read and not yet stored, exactly that until the data begins, and
nothing in it has been written. It includes the case where code lies beyond the
memory and `WriteMem` drops it.

The properties from `LinesInOrder` on are stated on the text of the files and the
memory alone; none is inductive, since between the two there are the `.bin` files, the tables
and the counters. Two invariants bridge the gap, one for each half.

* `AssembledSoFar`. The output `Renders` the lines read: each of its items `Stands`
  for a line (a label, an END that is due, an instruction that `Encodes` it), the
  items are in the order of `Rank` (the END of a label comes right before it), and no label
  and no END that is due is missing. `dataMap` `Remembers` the last declaration of
  every variable, in this file or in one before, and nothing else; a `lw` or `sw` in the
  output `Finds` its variable there. `textSection` and `insideLabel` are what the
  lines read make them. A `.bin` file is all this of the last file of its name.
* `LoadedSoFar`. Of the program being loaded (`InProgress`), the k-th item belongs
  at its base plus the number of instructions before it (`Before`): the counters
  agree with that (`Counts`), an instruction waits at that place in the queue (`Queued`)
  or is in the memory (`Stored`), a label has it in its table (`LabelsKnown`: the last
  label of a name), a variable has its values behind the code and within `address`
  (`VariablesKnown`). A program that is loaded stays `Placed`: the words are `Linked`
  with the address of the label, or else of the data, and what is loaded later lies
  behind it.

The theorems of `ProgramProofs` then read one through the other: the k-th item of
the `.bin` file is at `Before`, and by its `line` this is the order of the text
(`LinesPlaced`); the first word behind a label is the instruction after it
(`LabelsPlaced`); what `Remembers` has is what `ValuesOf` reads off the files (`DataOf`).
`StopsExactly` has an invariant of its own, `StoppedAt`: what the loader had read
when it stopped.

`ImmediatesRead` and `InstructionsMeant` are about `ConvertToDecimalValue`, which
writes the binary digits as a decimal number that wraps at the width of a word. That
it is exact below `Limit` and below it only is shown by a least exception: the functions
`AsDecimal`, `OnesOf` and `DigitsOf` are recursive on a smaller number (`Recursion`), and a
smallest number where a claim about them fails would have a smaller one. The claim
needs that the decimal numbers 1, 11, 111, ... of as many digits as a word can have are
themselves words: `Legible`. `LegibleWords` shows it for the 32 bits of the code and the
14 of the run; it is a real hypothesis, since in words of 10 bits, whose largest number has
four digits, 1111 is no word.

The assumptions are `CommandLinesAssumption` (files are sequences of lines with
all their operands), `StoiAssumption` (the numbers of the files are ints, as `stoi` gives them; the name
of a register, which begins with `$`, is not one) and `MemorySizeAssumption`.

Only model-checked: liveness (`EndsUnlessItHangs`, `ShutdownStops`, `EndsOrStrands`),
which the prover does not reach. Every invariant and action property of the passing
runs is also a theorem.

## 5. Not modelled

* Secondary memory, `InsertData`, `EraseData`, `EmptyLine`: nothing calls them.
* The special registers no instruction reads, and the overflow flag of the ALU,
  which nothing reads.
* Output formatting and the dump of the register bank.
* Failures of `pthread_create` and of opening a file.
* Blanks, commas and comments of an assembly file, and an instruction with too
  few operands: texts are atoms, lines are complete.
* The text of a symbol inside another: the loader replaces a name wherever it stands in
  a line, the model replaces whole operands.
* A raced access to `ioRequests` that leaves one element twice: both would be destroyed,
  which is taken to be one of the crashes. `OutputInOrder` speaks of the other outcomes.
* What happens to the memory when the threads run: a program stores only to
  addresses of its own data in `Pipeline`, and `Kernel` has no memory.

## 6. Plan

Done, in this order: `Kernel`, `Simulator`, `KernelProofs`; `ALU`, `ControlUnit`,
`Isa`, `Pipeline`; `Encoding`, `Assembler`, `Loader`, `Startup`, `StartupProofs`;
`KernelOutputProofs`; `PipelineProofs`; `PipelinePreciseProofs`; `AssemblerProofs`,
`LoaderProofs`, `ProgramProofs`.

Left:

1. `Pipeline` started from a memory that `Startup` has loaded, so that two programs
   of one memory run side by side.
2. That the programs `Startup` loads from lawful files are `Lawful`, which would join
   the theorems of the two.
