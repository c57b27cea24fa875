------------------------------- MODULE Kernel -------------------------------
(***************************************************************************)
(* The threads of the simulator: the coreManage threads, the scheduler     *)
(* thread and the resourceManager thread of src/main.cpp, and what Core    *)
(* (src/cpu/CONTROL_UNIT.cpp) does to the state they share.                *)
(*                                                                         *)
(* A thread is its control location and its locals; an action is what the  *)
(* thread does between two accesses to shared memory.  Only queueLock      *)
(* synchronises: the states of the PCBs, ioRequests, printLock and         *)
(* shutdown are also read and written without it, so every such access is  *)
(* an action of its own.                                                   *)
(*                                                                         *)
(* What a call of Core computes is abstracted (module Pipeline has it): a  *)
(* core inside Core may raise a print request, reach the END of its        *)
(* program, or return because the quantum is over or the process blocked.  *)
(*                                                                         *)
(* Data races.  Two cores inside Core on one PCB share a register bank     *)
(* without a lock; from then on the process is "tainted" and any of the    *)
(* three may happen at any time.  ioRequests is a std::vector without a    *)
(* lock: a push_back that overlaps another access is "raced" and lands in  *)
(* any of the ways RacyPush lists, may null other requests meanwhile       *)
(* (RaceNulls), or the program aborts.                                     *)
(***************************************************************************)
EXTENDS Integers, Sequences, FiniteSets

CONSTANTS
  Cores,      \* the coreManage threads (NUM_CORES of them)
  NumProcs,   \* the programs on the command line, in the order of processes
  MaxSlices,  \* bound: Core calls of a process that return before its END
  MaxPrints   \* bound: print requests a process raises

ASSUME KernelAssumption ==
  /\ NumProcs \in Nat \ {0}
  /\ MaxSlices \in Nat
  /\ MaxPrints \in Nat
  /\ "free" \notin Cores
  /\ "scheduler" \notin Cores

Procs == 1..NumProcs

(* PCB::state *)
States == {"Ready", "Blocked", "Executing", "Finished"}

(* An ioRequest: the process it names and which of its prints it is (msg). *)
Requests == [proc : Procs, num : 1..MaxPrints]

(* A null unique_ptr in ioRequests: moved from, or never constructed.      *)
Hole == [proc |-> 0, num |-> 0]

VARIABLES
  state,       \* state[p]: PCB::state
  ioRequests,  \* the vector of pending requests
  queueLock,   \* the thread that holds the mutex, or "free"
  shutdown, printLock,
  cpc, pcb,    \* a core: location; the PCB it looks at or runs
  out,         \* a core: the request it pushes
  spc, seen,   \* the scheduler: location; the PCB it looks at
  rpc, req,    \* the resource manager: location; the request in its hand
  ended,       \* the processes whose END some core has reached
  disturbed,   \* the processes made Ready while a core still had them
  tainted,     \* the processes whose register bank two cores have shared
  raced,       \* the requests a data race on ioRequests may have lost
  slices, raised,  \* per process: early returns of Core, requests raised
  printed,     \* what the resource manager wrote, in order
  aborted      \* undefined behaviour has ended the program

vars == <<state, ioRequests, queueLock, shutdown, printLock, cpc, pcb, out,
          spc, seen, rpc, req, ended, disturbed, tainted, raced, slices, raised,
          printed, aborted>>

(* What the steps of each part of the program leave alone.                 *)
schedVars == <<spc, seen>>
rmVars == <<rpc, req, disturbed, printed>>
coreRest == <<ioRequests, shutdown, printLock, out, slices, raised, ended, raced,
              schedVars, rmVars, aborted>>
callRest == <<queueLock, shutdown, printLock, pcb, tainted, schedVars, rmVars>>
schedRest == <<state, ioRequests, printLock, cpc, pcb, out, slices, raised, ended,
               tainted, raced, rmVars, aborted>>
rmRest == <<queueLock, shutdown, cpc, pcb, out, slices, raised, ended, tainted,
            schedVars>>

Init ==
  /\ state = [p \in Procs |-> "Ready"]
  /\ ioRequests = <<>>
  /\ queueLock = "free"
  /\ shutdown = FALSE /\ printLock = FALSE
  /\ cpc = [c \in Cores |-> "loop"]
  /\ pcb = [c \in Cores |-> 1]
  /\ out = [c \in Cores |-> Hole]
  /\ spc = "loop" /\ seen = 1
  /\ rpc = "loop" /\ req = Hole
  /\ ended = {} /\ disturbed = {} /\ tainted = {} /\ raced = {}
  /\ slices = [p \in Procs |-> 0]
  /\ raised = [p \in Procs |-> 0]
  /\ printed = <<>> /\ aborted = FALSE

-----------------------------------------------------------------------------
(* Where a core is.                                                        *)

InCore == {"run", "push", "test", "block"}          \* inside Core
Owning == InCore \cup {"relock", "check", "ready"}  \* has a currentProcess

Runs(c, p) == cpc[c] \in Owning /\ pcb[c] = p

Goto(c, loc) == cpc' = [cpc EXCEPT ![c] = loc]

(* A slip: no lock_guard.                                                  *)
AcquireNothing(t) == queueLock' = t

Acquire(t) == queueLock = "free" /\ queueLock' = t
Release == queueLock' = "free"

(* The requests inside a push_back.                                        *)
Pushing == {out[c] : c \in {d \in Cores : cpc[d] = "push"}}

(* What a raced push_back of r, and a raced erase of the front, leave in   *)
(* the vector q when they leave it usable.                                 *)
RacyPush(q, r) == {q, Append(q, r), q \o <<Hole, r>>, q \o <<r, Hole>>}
RacyErase(q) == {q, Tail(q), Append(Tail(q), Hole)}

-----------------------------------------------------------------------------
(* coreManage                                                              *)

(* A slip: the loop does not look at shutdown.                             *)
CoreLoopForever(c) ==
  /\ cpc[c] = "loop"
  /\ Goto(c, "lock")
  /\ pcb' = [pcb EXCEPT ![c] = 1]
  /\ UNCHANGED <<state, queueLock, tainted, coreRest>>

CoreLoop(c) ==
  /\ cpc[c] = "loop"
  /\ Goto(c, IF shutdown THEN "done" ELSE "lock")
  /\ pcb' = [pcb EXCEPT ![c] = 1]
  /\ UNCHANGED <<state, queueLock, tainted, coreRest>>

CoreLock(c) ==
  /\ cpc[c] = "lock"
  /\ Acquire(c)
  /\ Goto(c, "scan")
  /\ UNCHANGED <<state, pcb, tainted, coreRest>>

(* The PCB in hand is not taken: go to the next, or leave the block.       *)
NextPcb(c) ==
  IF pcb[c] < NumProcs
  THEN /\ pcb' = [pcb EXCEPT ![c] = @ + 1]
       /\ Goto(c, "scan")
       /\ UNCHANGED queueLock
  ELSE /\ Goto(c, "loop")
       /\ Release
       /\ UNCHANGED pcb

(* The first read of state in the condition: is it Ready?                  *)
CoreScan(c) ==
  /\ cpc[c] = "scan"
  /\ \/ /\ state[pcb[c]] = "Ready"
        /\ Goto(c, "recheck")
        /\ UNCHANGED <<queueLock, pcb>>
     \/ /\ state[pcb[c]] # "Ready"
        /\ NextPcb(c)
  /\ UNCHANGED <<state, tainted, coreRest>>

(* The second read: is it other than Blocked?                              *)
CoreRecheck(c) ==
  /\ cpc[c] = "recheck"
  /\ \/ /\ state[pcb[c]] # "Blocked"
        /\ Goto(c, "claim")
        /\ UNCHANGED <<queueLock, pcb>>
     \/ /\ state[pcb[c]] = "Blocked"
        /\ NextPcb(c)
  /\ UNCHANGED <<state, tainted, coreRest>>

(* Claim the process, leave the block and call Core.  A process whose END  *)
(* is already in its ir executes nothing, so it cannot be tainted then.    *)
CoreClaim(c) ==
  LET p == pcb[c] IN
  /\ cpc[c] = "claim"
  /\ state' = [state EXCEPT ![p] = "Executing"]
  /\ tainted' = IF p \notin ended /\ \E d \in Cores : cpc[d] \in InCore /\ pcb[d] = p
                THEN tainted \cup {p} ELSE tainted
  /\ Release
  /\ Goto(c, "run")
  /\ UNCHANGED <<pcb, coreRest>>

(* Core returned: lock again, and make the process Ready if it is still    *)
(* Executing.                                                              *)
CoreRelock(c) ==
  /\ cpc[c] = "relock"
  /\ Acquire(c)
  /\ Goto(c, "check")
  /\ UNCHANGED <<state, pcb, tainted, coreRest>>

(* A slip: the process becomes Ready whatever its state.                   *)
CoreCheckBlind(c) ==
  /\ cpc[c] = "check"
  /\ Goto(c, "ready")
  /\ UNCHANGED <<state, queueLock, pcb, tainted, coreRest>>

(* A slip: the process stays Executing.                                    *)
CoreCheckForgets(c) ==
  /\ cpc[c] = "check"
  /\ Goto(c, "loop")
  /\ Release
  /\ UNCHANGED <<state, pcb, tainted, coreRest>>

CoreCheck(c) ==
  /\ cpc[c] = "check"
  /\ \/ /\ state[pcb[c]] = "Executing"
        /\ Goto(c, "ready")
        /\ UNCHANGED queueLock
     \/ /\ state[pcb[c]] # "Executing"
        /\ Goto(c, "loop")
        /\ Release
  /\ UNCHANGED <<state, pcb, tainted, coreRest>>

CoreReady(c) ==
  /\ cpc[c] = "ready"
  /\ state' = [state EXCEPT ![pcb[c]] = "Ready"]
  /\ Release
  /\ Goto(c, "loop")
  /\ UNCHANGED <<pcb, tainted, coreRest>>

-----------------------------------------------------------------------------
(* Core, as the other threads see it.                                      *)

(* There is still code of p to execute, or its register bank is garbage.   *)
Unfinished(p) == p \notin ended \/ p \in tainted

(* A print instruction builds its request and enters push_back.            *)
PushBegin(c) ==
  LET p == pcb[c]
      r == [proc |-> p, num |-> raised[p] + 1] IN
  /\ cpc[c] = "run"
  /\ Unfinished(p)
  /\ raised[p] < MaxPrints
  /\ raised' = [raised EXCEPT ![p] = @ + 1]
  /\ out' = [out EXCEPT ![c] = r]
  /\ raced' = IF Pushing = {} THEN raced ELSE raced \cup Pushing \cup {r}
  /\ Goto(c, "push")
  /\ UNCHANGED <<state, ioRequests, ended, slices, aborted, callRest>>

(* A slip: the request goes to the front of the vector.                    *)
PushEndFront(c) ==
  /\ cpc[c] = "push"
  /\ ioRequests' \in IF out[c] \in raced THEN RacyPush(ioRequests, out[c])
                                       ELSE {<<out[c]>> \o ioRequests}
  /\ out' = [out EXCEPT ![c] = Hole]
  /\ Goto(c, "test")
  /\ UNCHANGED <<state, ended, raced, slices, raised, aborted, callRest>>

(* It leaves push_back: the request is in the vector.                      *)
PushEnd(c) ==
  /\ cpc[c] = "push"
  /\ ioRequests' \in IF out[c] \in raced THEN RacyPush(ioRequests, out[c])
                                       ELSE {Append(ioRequests, out[c])}
  /\ out' = [out EXCEPT ![c] = Hole]
  /\ Goto(c, "test")
  /\ UNCHANGED <<state, ended, raced, slices, raised, aborted, callRest>>

(* A raced push_back may also corrupt the heap.                            *)
RaceAborts(c) ==
  /\ cpc[c] = "push"
  /\ out[c] \in raced
  /\ aborted' = TRUE
  /\ UNCHANGED <<state, ioRequests, cpc, out, ended, raced, slices, raised, callRest>>

(* A raced push_back that reallocates may find the others half moved: a    *)
(* pending request is lost, and the vector has a null in its place.        *)
RaceNulls(c) ==
  /\ cpc[c] = "push"
  /\ out[c] \in raced
  /\ \E i \in 1..Len(ioRequests) :
       /\ ioRequests[i] # Hole
       /\ ioRequests' = [ioRequests EXCEPT ![i] = Hole]
       /\ raced' = raced \cup {ioRequests[i]}
  /\ UNCHANGED <<state, cpc, out, ended, slices, raised, aborted, callRest>>

(* if(context.printLock) ...                                               *)
TestPrintLock(c) ==
  /\ cpc[c] = "test"
  /\ Goto(c, IF printLock THEN "block" ELSE "run")
  /\ UNCHANGED <<state, ioRequests, out, ended, raced, slices, raised, aborted, callRest>>

(* ... state = Blocked; the pipeline drains, and may print again.          *)
Block(c) ==
  /\ cpc[c] = "block"
  /\ state' = [state EXCEPT ![pcb[c]] = "Blocked"]
  /\ Goto(c, "run")
  /\ UNCHANGED <<ioRequests, out, ended, raced, slices, raised, aborted, callRest>>

(* Core returns before the END of the program.                             *)
Yield(c) ==
  LET p == pcb[c] IN
  /\ cpc[c] = "run"
  /\ Unfinished(p)
  /\ slices[p] < MaxSlices
  /\ slices' = [slices EXCEPT ![p] = @ + 1]
  /\ Goto(c, "relock")
  /\ UNCHANGED <<state, ioRequests, out, ended, raced, raised, aborted, callRest>>

(* Core has fetched the END and drained the pipeline.                      *)
Finish(c) ==
  LET p == pcb[c] IN
  /\ cpc[c] = "run"
  /\ state' = [state EXCEPT ![p] = "Finished"]
  /\ ended' = ended \cup {p}
  /\ Goto(c, "relock")
  /\ UNCHANGED <<ioRequests, out, raced, slices, raised, aborted, callRest>>

-----------------------------------------------------------------------------
(* scheduler                                                               *)

SchedLoop ==
  /\ spc = "loop"
  /\ spc' = IF shutdown THEN "done" ELSE "lock"
  /\ UNCHANGED <<queueLock, shutdown, seen, schedRest>>

SchedLock ==
  /\ spc = "lock"
  /\ Acquire("scheduler")
  /\ spc' = "scan"
  /\ seen' = 1
  /\ UNCHANGED <<shutdown, schedRest>>

(* A slip: a Blocked process counts as done.                               *)
SchedScanSkipsBlocked ==
  /\ spc = "scan"
  /\ \/ /\ state[seen] \notin {"Finished", "Blocked"}
        /\ spc' = "loop"
        /\ Release
        /\ UNCHANGED seen
     \/ /\ state[seen] \in {"Finished", "Blocked"}
        /\ seen < NumProcs
        /\ seen' = seen + 1
        /\ UNCHANGED <<spc, queueLock>>
     \/ /\ state[seen] \in {"Finished", "Blocked"}
        /\ seen = NumProcs
        /\ spc' = "queue"
        /\ UNCHANGED <<seen, queueLock>>
  /\ UNCHANGED <<shutdown, schedRest>>

(* One PCB of the loop that looks for a process that is not Finished; the  *)
(* first one settles allDone, and what follows then changes nothing.       *)
SchedScan ==
  /\ spc = "scan"
  /\ \/ /\ state[seen] # "Finished"
        /\ spc' = "loop"
        /\ Release
        /\ UNCHANGED seen
     \/ /\ state[seen] = "Finished"
        /\ seen < NumProcs
        /\ seen' = seen + 1
        /\ UNCHANGED <<spc, queueLock>>
     \/ /\ state[seen] = "Finished"
        /\ seen = NumProcs
        /\ spc' = "queue"
        /\ UNCHANGED <<seen, queueLock>>
  /\ UNCHANGED <<shutdown, schedRest>>

(* A slip: the pending requests are not looked at.                         *)
SchedQueueBlind ==
  /\ spc = "queue"
  /\ spc' = "decide"
  /\ UNCHANGED <<queueLock, shutdown, seen, schedRest>>

SchedQueue ==
  /\ spc = "queue"
  /\ \/ /\ ioRequests = <<>>
        /\ spc' = "decide"
        /\ UNCHANGED queueLock
     \/ /\ ioRequests # <<>>
        /\ spc' = "loop"
        /\ Release
  /\ UNCHANGED <<shutdown, seen, schedRest>>

SchedDecide ==
  /\ spc = "decide"
  /\ shutdown' = TRUE
  /\ spc' = "loop"
  /\ Release
  /\ UNCHANGED <<seen, schedRest>>

-----------------------------------------------------------------------------
(* resourceManager                                                         *)

RMLoop ==
  /\ rpc = "loop"
  /\ rpc' = IF shutdown THEN "done" ELSE "poll"
  /\ UNCHANGED <<state, ioRequests, printLock, req, disturbed, raced, printed, aborted, rmRest>>

(* A slip: the vector is taken to have an element.                         *)
RMPollBlind ==
  /\ rpc = "poll"
  /\ rpc' = "take"
  /\ UNCHANGED <<state, ioRequests, printLock, req, disturbed, raced, printed, aborted, rmRest>>

RMPoll ==
  /\ rpc = "poll"
  /\ rpc' = IF ioRequests = <<>> THEN "loop" ELSE "take"
  /\ UNCHANGED <<state, ioRequests, printLock, req, disturbed, raced, printed, aborted, rmRest>>

(* req = move(front): the first element stays in the vector as a null.     *)
(* A push_back that reallocates meanwhile leaves a dangling request: the   *)
(* program then crashes, now or when it uses it.                           *)
RMTake ==
  /\ rpc = "take"
  /\ req' = Head(ioRequests)
  /\ ioRequests' = [ioRequests EXCEPT ![1] = Hole]
  /\ aborted' \in IF Pushing = {} THEN {FALSE} ELSE BOOLEAN
  /\ rpc' = "raise"
  /\ UNCHANGED <<state, printLock, disturbed, raced, printed, rmRest>>

RMRaise ==
  /\ rpc = "raise"
  /\ printLock' = TRUE
  /\ rpc' = "erase"
  /\ UNCHANGED <<state, ioRequests, req, disturbed, raced, printed, aborted, rmRest>>

RMErase ==
  /\ rpc = "erase"
  /\ ioRequests' \in IF Pushing = {} THEN {Tail(ioRequests)} ELSE RacyErase(ioRequests)
  /\ raced' = raced \cup Pushing
  /\ rpc' = "print"
  /\ UNCHANGED <<state, printLock, req, disturbed, printed, aborted, rmRest>>

(* After the usleep.  A null req is dereferenced: the program crashes.     *)
RMPrint ==
  /\ rpc = "print"
  /\ \/ /\ req = Hole
        /\ aborted' = TRUE
        /\ UNCHANGED <<rpc, printed>>
     \/ /\ req # Hole
        /\ printed' = Append(printed, req)
        /\ rpc' = "wake"
        /\ UNCHANGED aborted
  /\ UNCHANGED <<state, ioRequests, printLock, req, disturbed, raced, rmRest>>

RMWake ==
  LET p == req.proc IN
  /\ rpc = "wake"
  /\ state' = [state EXCEPT ![p] = "Ready"]
  /\ disturbed' = IF \E c \in Cores : Runs(c, p) THEN disturbed \cup {p}
                                                 ELSE disturbed
  /\ rpc' = "lower"
  /\ UNCHANGED <<ioRequests, printLock, req, raced, printed, aborted, rmRest>>

RMLower ==
  /\ rpc = "lower"
  /\ printLock' = FALSE
  /\ req' = Hole
  /\ rpc' = "loop"
  /\ UNCHANGED <<state, ioRequests, disturbed, raced, printed, aborted, rmRest>>

-----------------------------------------------------------------------------
(* The processor.                                                          *)

CoreStep(c) ==
  \/ CoreLoop(c) \/ CoreLock(c) \/ CoreScan(c) \/ CoreRecheck(c) \/ CoreClaim(c)
  \/ PushBegin(c) \/ PushEnd(c) \/ RaceAborts(c) \/ RaceNulls(c)
  \/ TestPrintLock(c) \/ Block(c)
  \/ Yield(c) \/ Finish(c)
  \/ CoreRelock(c) \/ CoreCheck(c) \/ CoreReady(c)

SchedStep == SchedLoop \/ SchedLock \/ SchedScan \/ SchedQueue \/ SchedDecide

RMStep ==
  RMLoop \/ RMPoll \/ RMTake \/ RMRaise \/ RMErase \/ RMPrint \/ RMWake \/ RMLower

(* main has joined every thread.                                           *)
AllExited == (\A c \in Cores : cpc[c] = "done") /\ spc = "done" /\ rpc = "done"

Stopped ==
  /\ AllExited \/ aborted
  /\ UNCHANGED vars

Next ==
  \/ ~aborted /\ \E c \in Cores : CoreStep(c)
  \/ ~aborted /\ SchedStep
  \/ ~aborted /\ RMStep
  \/ Stopped

Spec == Init /\ [][Next]_vars

(* Every thread runs: it is scheduled, Core returns, usleep ends.          *)
ThreadsRun ==
  /\ \A c \in Cores : WF_vars(~aborted /\ CoreStep(c))
  /\ WF_vars(~aborted /\ SchedStep)
  /\ WF_vars(~aborted /\ RMStep)

(* Every thread is scheduled, but a call of Core may last for ever: the    *)
(* loop of a tight program is never cut (CONTROL_UNIT.cpp:392).            *)
ThreadsScheduled ==
  /\ \A c \in Cores : WF_vars(~aborted /\ cpc[c] # "run" /\ CoreStep(c))
  /\ WF_vars(~aborted /\ SchedStep)
  /\ WF_vars(~aborted /\ RMStep)

(* Neither says that a thread gets queueLock: std::mutex does not promise  *)
(* it to a thread that others, looping, overtake each time it is free.     *)
LiveSpec == Spec /\ ThreadsRun
ScheduledSpec == Spec /\ ThreadsScheduled

-----------------------------------------------------------------------------
(* Properties.                                                             *)

(* The type of every variable.  RMTake and RMErase are only defined on a   *)
(* vector that still has the element RMPoll saw, which is the point of it. *)
TypeOK ==
  /\ state \in [Procs -> States]
  /\ ioRequests \in Seq(Requests \cup {Hole})
  /\ queueLock \in Cores \cup {"scheduler", "free"}
  /\ shutdown \in BOOLEAN /\ printLock \in BOOLEAN /\ aborted \in BOOLEAN
  /\ cpc \in [Cores -> Owning \cup {"loop", "lock", "scan", "recheck", "claim", "done"}]
  /\ pcb \in [Cores -> Procs]
  /\ out \in [Cores -> Requests \cup {Hole}]
  /\ spc \in {"loop", "lock", "scan", "queue", "decide", "done"}
  /\ seen \in Procs
  /\ rpc \in {"loop", "poll", "take", "raise", "erase", "print", "wake", "lower", "done"}
  /\ req \in Requests \cup {Hole}
  /\ ended \subseteq Procs /\ disturbed \subseteq Procs /\ tainted \subseteq Procs
  /\ raced \subseteq Requests
  /\ slices \in [Procs -> 0..MaxSlices]
  /\ raised \in [Procs -> 0..MaxPrints]
  /\ printed \in Seq(Requests)
  /\ rpc \in {"take", "raise", "erase"} => ioRequests # <<>>
  /\ rpc = "wake" => req # Hole
  /\ \A c \in Cores : cpc[c] = "push" => out[c] # Hole

(* The code between an acquisition of queueLock and its release.           *)
CoreHolds == {"scan", "recheck", "claim", "check", "ready"}
SchedHolds == {"scan", "queue", "decide"}

LockHeld ==
  /\ \A c \in Cores : cpc[c] \in CoreHolds => queueLock = c
  /\ spc \in SchedHolds => queueLock = "scheduler"

(* What SoleOwner rests on: a core that looks at a Ready process and holds *)
(* the lock still finds it Ready when it claims it, and only the core that *)
(* has a process changes its state.                                        *)
Ownership ==
  \A p \in Procs \ disturbed : \A c \in Cores :
    /\ Runs(c, p) => /\ state[p] # "Ready"
                     /\ \A d \in Cores : Runs(d, p) => d = c
    /\ cpc[c] \in {"recheck", "claim"} /\ pcb[c] = p => state[p] = "Ready"
    /\ cpc[c] \in InCore /\ pcb[c] = p => state[p] \in {"Executing", "Blocked"}
    /\ cpc[c] = "ready" /\ pcb[c] = p => state[p] = "Executing"

(* What ShutdownSound rests on: what the scheduler has seen Finished has   *)
(* ended, although its state may have changed since.                       *)
SeenEnded ==
  /\ \A p \in Procs : state[p] = "Finished" => p \in ended
  /\ spc = "scan" => \A p \in 1..(seen - 1) : p \in ended
  /\ spc \in {"queue", "decide"} \/ shutdown => \A p \in Procs : p \in ended

(* Together with TypeOK, the inductive invariant of the proofs.            *)
KernelInv == LockHeld /\ Ownership /\ SeenEnded

(* What the resource manager holds and has still to print.                 *)
InHand == IF rpc \in {"raise", "erase", "print"} THEN <<req>> ELSE <<>>

(* The requests that left push_back, oldest first.                         *)
Flow == printed \o InHand \o ioRequests

Elements(s) == {s[i] : i \in 1..Len(s)}

(* Request a may come before b: they are different, and in program order   *)
(* if their process is not one of those that shared their registers.       *)
Before(a, b, shared) ==
  a # Hole => /\ a # b
              /\ a.proc = b.proc /\ a.proc \notin shared => a.num < b.num

Sorted(s, shared) == \A i, j \in 1..Len(s) : i < j => Before(s[i], s[j], shared)

(* A process whose registers were never shared is inside Core once, and    *)
(* nothing of it is executed after its END.                                *)
Alone ==
  \A p \in Procs \ tainted : \A c \in Cores :
    cpc[c] \in InCore /\ pcb[c] = p =>
      IF p \in ended THEN cpc[c] = "run"
      ELSE \A d \in Cores : cpc[d] \in InCore /\ pcb[d] = p => d = c

(* The request a core pushes is of its process, no other core pushes it,   *)
(* and it comes after all that were pushed.                                *)
PushesFresh ==
  \A c \in Cores : cpc[c] = "push" =>
    /\ out[c].proc = pcb[c]
    /\ out[c].num <= raised[pcb[c]]
    /\ \A d \in Cores : cpc[d] = "push" /\ out[d] = out[c] => d = c
    /\ \A a \in Elements(Flow) : Before(a, out[c], tainted)

(* Every request was raised, and is where it should be: being pushed,      *)
(* pending, in hand or printed; no longer pending once the scheduler has   *)
(* seen that none is.                                                      *)
Owed(r) == r.num <= raised[r.proc] /\ r.proc \notin tainted /\ r \notin raced

Accounted ==
  /\ \A a \in Elements(Flow) \ {Hole} : a.num <= raised[a.proc]
  /\ \A r \in Requests : Owed(r) => r \in Elements(Flow) \cup Pushing
  /\ spc = "decide" \/ shutdown =>
       \A r \in Requests : Owed(r) => r \in Elements(printed \o InHand)

(* Until it is erased, the front of the vector is the null that the move   *)
(* left.                                                                   *)
FrontTaken == rpc \in {"raise", "erase"} => Head(ioRequests) = Hole

(* What the properties of the output rest on: with TypeOK and KernelInv,   *)
(* the inductive invariant of their proofs.                                *)
RequestInv ==
  Alone /\ PushesFresh /\ Accounted /\ FrontTaken /\ Sorted(Flow, tainted)

(* A process is executed by one core at a time, and is not offered to the  *)
(* others meanwhile (coreManage, main.cpp:39-59), as long as the resource  *)
(* manager has not made it Ready under the core that has it.               *)
SoleOwner ==
  \A p \in Procs \ disturbed : \A c \in Cores :
    Runs(c, p) => /\ state[p] # "Ready"
                  /\ \A d \in Cores : Runs(d, p) => d = c

(* shutdown is raised (main.cpp:69-88) only when every program has reached *)
(* its END, although states change without the lock while they are read.   *)
ShutdownSound == shutdown => \A p \in Procs : p \in ended

(* No output is lost: when the scheduler has raised shutdown, every print  *)
(* of a process whose registers were never shared has been printed or is   *)
(* being printed, unless overlapping accesses to ioRequests may have lost  *)
(* it (main.cpp:81, 99-116; CONTROL_UNIT.cpp:180-183, 456-459).            *)
NothingLost ==
  shutdown => \A r \in Requests :
    Owed(r) => r \in Elements(printed \o InHand)

(* Printing is FIFO and exactly once: of the prints that are printed, in   *)
(* hand or pending none is there twice, and those of a process whose       *)
(* registers were never shared are in program order (CONTROL_UNIT.cpp:180, *)
(* 456; main.cpp:103-106).                                                 *)
OutputInOrder == Sorted(Flow, tainted)

(* A Finished process is revived only by the answer to one of its requests *)
(* (main.cpp:113), not by a core that still had it (main.cpp:57-58).       *)
RevivedByAnswerOnly ==
  [][\A p \in Procs \ disturbed :
       state[p] = "Finished" /\ state'[p] # "Finished" => req.proc = p]_vars

(* The scheduler, a core that has to return a process, or all the cores    *)
(* that could take one, wait for queueLock for ever (main.cpp:40, 56, 70), *)
(* although it is free again and again: they are overtaken each time.  A   *)
(* lock that is not released is a deadlock, not starvation.                *)
Starves ==
  /\ []<>(queueLock = "free")
  /\ \/ <>[](spc = "lock")
     \/ \E c \in Cores : <>[](cpc[c] = "relock")
     \/ <>[](\A c \in Cores : cpc[c] = "lock")

(* A call of Core never returns.                                           *)
CoreStays == \E c \in Cores : <>[](cpc[c] \in InCore)

(* Without prints the simulator ends, each program after its END and each  *)
(* thread after its loop, in whatever order the lock is given; what can    *)
(* keep it from it is starvation or a call of Core that stays.  One core   *)
(* that never gets the lock is not enough: the others do its work          *)
(* (main.cpp:39-60, 69-89).                                                *)
EndsUnlessItHangs == <>AllExited \/ Starves \/ CoreStays

(* Raising shutdown ends every thread, even one about to take the lock,    *)
(* inside Core or in its usleep.                                           *)
ShutdownStops == shutdown ~> AllExited \/ aborted

(* A process is stranded: Blocked, and no request of it is left to answer. *)
Stranded(p) ==
  /\ state[p] = "Blocked"
  /\ \A c \in Cores : ~Runs(c, p)
  /\ \A i \in 1..Len(ioRequests) : ioRequests[i].proc # p
  /\ req.proc # p

(* Two cores have the same process again and again: one makes it Ready     *)
(* after the other has finished it, and the other then claims it.          *)
HandedToAndFro ==
  []<>(\E c, d \in Cores : c # d /\ \E p \in Procs : Runs(c, p) /\ Runs(d, p))

(* With prints, a run ends, crashes or strands a process (the lost wake-up: *)
(* CONTROL_UNIT.cpp:461-462 after main.cpp:113), unless a thread starves, a *)
(* call of Core stays, or two cores hand a process to and fro (they share  *)
(* it since main.cpp:113; 57-58 test its state and set it in two steps).   *)
EndsOrStrands ==
  \/ <>[](AllExited \/ aborted \/ \E p \in Procs : Stranded(p))
  \/ Starves \/ CoreStays \/ HandedToAndFro

(* The resource manager prints nothing more: it will look at shutdown      *)
(* (main.cpp:99) before it takes another request.                          *)
Closed == shutdown /\ rpc \in {"wake", "lower", "loop", "done"}

(* The threads implement the simulator a user is promised: programs only   *)
(* end, each print is shown at most once, and the shutdown comes when all  *)
(* have ended, with at most one print shown after it (main.cpp:69-116).    *)
Promised ==
  INSTANCE Simulator WITH Programs <- Procs, Prints <- Requests, closed <- Closed
ImplementsSimulator == Promised!Spec

-----------------------------------------------------------------------------
(* What the documents say.                                                 *)

(* "quando a requisicao e atendida o thread e desbloqueado"                *)
(* (SO__Multicore.pdf, page 3): a process is not left Blocked without a    *)
(* request that is still to be answered.                                   *)
BlockedIsPending == ~ \E p \in Procs : ~aborted /\ Stranded(p)

(* "respeitando conceitos de exclusao mutua" (SO__Multicore.pdf, page 3):  *)
(* a process is executed by one core at a time.                            *)
OneCorePerProcess ==
  \A c, d \in Cores : \A p \in Procs : Runs(c, p) /\ Runs(d, p) => c = d

=============================================================================
