---------------------------- MODULE KernelProofs ----------------------------
(***************************************************************************)
(* Proofs about module Kernel, for any number of cores, processes, slices  *)
(* and prints: the types, who owns a process, when shutdown is raised.     *)
(***************************************************************************)
EXTENDS Kernel, TLAPS

USE DEF coreRest, callRest, schedRest, rmRest, schedVars, rmVars

-----------------------------------------------------------------------------
(* The vector.                                                             *)

(* A vector of requests and nulls.                                         *)
Vectors == Seq(Requests \cup {Hole})

(* push_back, raced or not, leaves a vector that has an element if it had  *)
(* one before.                                                             *)
LEMMA PushTypes ==
  ASSUME NEW q \in Vectors, NEW r \in Requests \cup {Hole},
         NEW s \in RacyPush(q, r) \cup {Append(q, r)}
  PROVE  s \in Vectors /\ (q # <<>> => s # <<>>)
<1>1. <<Hole, r>> \in Vectors /\ <<r, Hole>> \in Vectors
  BY DEF Vectors
<1>2. CASE s = q
  BY <1>2
<1>3. CASE s = Append(q, r)
  BY <1>3 DEF Vectors
<1>4. CASE s = q \o <<Hole, r>>
  BY <1>1, <1>4 DEF Vectors
<1>5. CASE s = q \o <<r, Hole>>
  BY <1>1, <1>5 DEF Vectors
<1>6. QED
  BY <1>2, <1>3, <1>4, <1>5 DEF RacyPush

(* erase of the front, raced or not, leaves a vector.                      *)
LEMMA EraseTypes ==
  ASSUME NEW q \in Vectors, q # <<>>, NEW s \in RacyErase(q) \cup {Tail(q)}
  PROVE  s \in Vectors
<1>1. Tail(q) \in Vectors
  BY DEF Vectors
<1>2. Append(Tail(q), Hole) \in Vectors
  BY <1>1 DEF Vectors
<1>3. QED
  BY <1>1, <1>2 DEF RacyErase

(* move of the front takes a request or a null and leaves a vector with as *)
(* many elements.                                                          *)
LEMMA TakeTypes ==
  ASSUME NEW q \in Vectors, q # <<>>
  PROVE  /\ Head(q) \in Requests \cup {Hole}
         /\ [q EXCEPT ![1] = Hole] \in Vectors
         /\ [q EXCEPT ![1] = Hole] # <<>>
  BY DEF Vectors

(* A null in the place of a request leaves a vector as long as before.     *)
LEMMA NullTypes ==
  ASSUME NEW q \in Vectors, NEW i \in 1..Len(q)
  PROVE  /\ [q EXCEPT ![i] = Hole] \in Vectors
         /\ Len([q EXCEPT ![i] = Hole]) = Len(q)
         /\ q[i] \in Requests \cup {Hole}
  BY DEF Vectors

-----------------------------------------------------------------------------
(* The state Init describes has the right types.                           *)
LEMMA InitTypes == Init => TypeOK
<1> SUFFICES ASSUME Init PROVE TypeOK
  OBVIOUS
<1>1. 1 \in Procs /\ 0 \in 0..MaxSlices /\ 0 \in 0..MaxPrints
  BY KernelAssumption DEF Procs
<1>2. /\ state \in [Procs -> States]
      /\ pcb \in [Cores -> Procs]
      /\ slices \in [Procs -> 0..MaxSlices]
      /\ raised \in [Procs -> 0..MaxPrints]
  BY <1>1 DEF Init, States
<1>3. /\ cpc \in [Cores -> Owning \cup {"loop", "lock", "scan", "recheck", "claim", "done"}]
      /\ out \in [Cores -> Requests \cup {Hole}]
      /\ \A c \in Cores : cpc[c] # "push"
  BY DEF Init
<1>4. ioRequests \in Seq(Requests \cup {Hole}) /\ printed \in Seq(Requests)
  BY DEF Init
<1>5. QED
  BY <1>1, <1>2, <1>3, <1>4 DEF Init, TypeOK

(* The types of what the search for a Ready process changes.               *)
NextPcbTypes(c) ==
  /\ pcb' \in [Cores -> Procs]
  /\ cpc' \in [Cores -> Owning \cup {"loop", "lock", "scan", "recheck", "claim", "done"}]
  /\ queueLock' \in Cores \cup {"scheduler", "free"}
  /\ \A d \in Cores : cpc'[d] = "push" => cpc[d] = "push"

(* Going on to the next PCB, or leaving the loop, keeps those types.       *)
LEMMA NextPcbKeeps ==
  ASSUME TypeOK, NEW c \in Cores, NextPcb(c)
  PROVE  NextPcbTypes(c)
<1>1. CASE pcb[c] < NumProcs
  <2>1. pcb[c] + 1 \in Procs
    BY <1>1, KernelAssumption DEF TypeOK, Procs
  <2>2. QED
    BY <1>1, <2>1 DEF TypeOK, NextPcb, NextPcbTypes, Goto
<1>2. CASE ~(pcb[c] < NumProcs)
  BY <1>2 DEF TypeOK, NextPcb, NextPcbTypes, Goto, Release
<1>3. QED
  BY <1>1, <1>2

(* Every step of a core keeps the types.                                   *)
LEMMA CoreTypes ==
  ASSUME TypeOK, NEW c \in Cores, CoreStep(c)
  PROVE  TypeOK'
<1>1. CASE CoreLoop(c)
  <2>1. pcb' \in [Cores -> Procs]
    BY <1>1, KernelAssumption DEF TypeOK, CoreLoop, Procs
  <2>2. QED
    BY <1>1, <2>1 DEF TypeOK, CoreLoop, Goto, Owning, InCore
<1>2. CASE CoreLock(c)
  BY <1>2 DEF TypeOK, CoreLock, Acquire, Goto, Owning, InCore
<1>3. CASE CoreScan(c)
  <2>1. NextPcb(c) => NextPcbTypes(c)
    BY NextPcbKeeps
  <2>2. NextPcbTypes(c)
    BY <1>3, <2>1 DEF TypeOK, CoreScan, NextPcbTypes, Goto, Owning, InCore
  <2>3. QED
    BY <1>3, <2>2 DEF TypeOK, CoreScan, NextPcbTypes
<1>4. CASE CoreRecheck(c)
  <2>1. NextPcb(c) => NextPcbTypes(c)
    BY NextPcbKeeps
  <2>2. NextPcbTypes(c)
    BY <1>4, <2>1 DEF TypeOK, CoreRecheck, NextPcbTypes, Goto, Owning, InCore
  <2>3. QED
    BY <1>4, <2>2 DEF TypeOK, CoreRecheck, NextPcbTypes
<1>5. CASE CoreClaim(c)
  BY <1>5 DEF TypeOK, CoreClaim, Release, Goto, States, Owning, InCore
<1>6. CASE PushBegin(c)
  <2> DEFINE p == pcb[c]
             r == [proc |-> p, num |-> raised[p] + 1]
  <2>1. p \in Procs /\ raised[p] \in 0..MaxPrints /\ raised[p] + 1 \in 1..MaxPrints
    BY <1>6, KernelAssumption DEF TypeOK, PushBegin
  <2>2. r \in Requests
    BY <2>1 DEF Requests
  <2>3. Pushing \subseteq Requests
    BY DEF TypeOK, Pushing
  <2>4. /\ raised' \in [Procs -> 0..MaxPrints]
        /\ out' \in [Cores -> Requests \cup {Hole}]
        /\ raced' \subseteq Requests
    BY <1>6, <2>1, <2>2, <2>3, KernelAssumption DEF TypeOK, PushBegin
  <2>5. \A d \in Cores : cpc'[d] = "push" => out'[d] # Hole
    BY <1>6, <2>1 DEF TypeOK, PushBegin, Goto, Hole, Procs
  <2>6. QED
    BY <1>6, <2>4, <2>5 DEF TypeOK, PushBegin, Goto, Owning, InCore
<1>7. CASE PushEnd(c)
  <2>1. ioRequests \in Vectors /\ out[c] \in Requests \cup {Hole}
    BY DEF TypeOK, Vectors
  <2>2. ioRequests' \in RacyPush(ioRequests, out[c]) \cup {Append(ioRequests, out[c])}
    BY <1>7 DEF PushEnd
  <2>3. ioRequests' \in Vectors /\ (ioRequests # <<>> => ioRequests' # <<>>)
    BY <2>1, <2>2, PushTypes
  <2>4. QED
    BY <1>7, <2>3 DEF TypeOK, Vectors, PushEnd, Goto, Owning, InCore
<1>8. CASE RaceAborts(c)
  BY <1>8 DEF TypeOK, RaceAborts
<1>9. CASE TestPrintLock(c)
  BY <1>9 DEF TypeOK, TestPrintLock, Goto, Owning, InCore
<1>10. CASE Block(c)
  BY <1>10 DEF TypeOK, Block, Goto, States, Owning, InCore
<1>11. CASE Yield(c)
  <2>1. slices' \in [Procs -> 0..MaxSlices]
    BY <1>11, KernelAssumption DEF TypeOK, Yield
  <2>2. QED
    BY <1>11, <2>1 DEF TypeOK, Yield, Goto, Owning, InCore
<1>12. CASE Finish(c)
  BY <1>12 DEF TypeOK, Finish, Goto, States, Owning, InCore
<1>13. CASE CoreRelock(c)
  BY <1>13 DEF TypeOK, CoreRelock, Acquire, Goto, Owning, InCore
<1>14. CASE CoreCheck(c)
  <2>1. /\ cpc' \in [Cores -> Owning \cup {"loop", "lock", "scan", "recheck", "claim", "done"}]
        /\ queueLock' \in Cores \cup {"scheduler", "free"}
        /\ \A d \in Cores : cpc'[d] = "push" => cpc[d] = "push"
    BY <1>14 DEF TypeOK, CoreCheck, Release, Goto, Owning, InCore
  <2>2. QED
    BY <1>14, <2>1 DEF TypeOK, CoreCheck
<1>15. CASE CoreReady(c)
  BY <1>15 DEF TypeOK, CoreReady, Release, Goto, States, Owning, InCore
<1>16. CASE RaceNulls(c)
  <2>1. PICK i \in 1..Len(ioRequests) :
          /\ ioRequests[i] # Hole
          /\ ioRequests' = [ioRequests EXCEPT ![i] = Hole]
          /\ raced' = raced \cup {ioRequests[i]}
    BY <1>16 DEF RaceNulls
  <2>2. ioRequests \in Vectors
    BY DEF TypeOK, Vectors
  <2>3. /\ ioRequests' \in Vectors
        /\ Len(ioRequests') = Len(ioRequests)
        /\ ioRequests[i] \in Requests
    BY <2>1, <2>2, NullTypes
  <2>4. ioRequests' # <<>>
    BY <2>2, <2>3 DEF Vectors
  <2> QED BY <1>16, <2>1, <2>3, <2>4 DEF TypeOK, Vectors, RaceNulls
<1>17. QED
  BY <1>1, <1>2, <1>3, <1>4, <1>5, <1>6, <1>7, <1>8, <1>9, <1>10, <1>11,
     <1>12, <1>13, <1>14, <1>15, <1>16 DEF CoreStep

(* Every step of the scheduler keeps the types.                            *)
LEMMA SchedTypes == ASSUME TypeOK, SchedStep PROVE TypeOK'
<1>1. CASE SchedLoop
  BY <1>1 DEF TypeOK, SchedLoop
<1>2. CASE SchedLock
  <2>1. seen' \in Procs
    BY <1>2, KernelAssumption DEF SchedLock, Procs
  <2>2. QED
    BY <1>2, <2>1 DEF TypeOK, SchedLock, Acquire
<1>3. CASE SchedScan
  <2>1. /\ seen' \in Procs
        /\ spc' \in {"scan", "loop", "queue"}
        /\ queueLock' \in Cores \cup {"scheduler", "free"}
    <3>1. /\ spc' \in {"scan", "loop", "queue"}
          /\ queueLock' \in {queueLock, "free"}
          /\ seen' = seen \/ (seen < NumProcs /\ seen' = seen + 1)
      BY <1>3 DEF SchedScan, Release
    <3>2. seen' \in Procs
      BY <3>1, KernelAssumption DEF TypeOK, Procs
    <3>3. QED
      BY <3>1, <3>2 DEF TypeOK
  <2>2. QED
    BY <1>3, <2>1 DEF TypeOK, SchedScan
<1>4. CASE SchedQueue
  BY <1>4 DEF TypeOK, SchedQueue, Release
<1>5. CASE SchedDecide
  BY <1>5 DEF TypeOK, SchedDecide, Release
<1>6. QED
  BY <1>1, <1>2, <1>3, <1>4, <1>5 DEF SchedStep

(* Every step of the resource manager keeps the types.                     *)
LEMMA RMTypes == ASSUME TypeOK, RMStep PROVE TypeOK'
<1>1. CASE RMLoop
  BY <1>1 DEF TypeOK, RMLoop
<1>2. CASE RMPoll
  BY <1>2 DEF TypeOK, RMPoll
<1>3. CASE RMTake
  <2>1. ioRequests \in Vectors /\ ioRequests # <<>>
    BY <1>3 DEF TypeOK, Vectors, RMTake
  <2>2. /\ req' \in Requests \cup {Hole}
        /\ ioRequests' \in Vectors
        /\ ioRequests' # <<>>
    BY <1>3, <2>1, TakeTypes DEF RMTake
  <2>3. aborted' \in BOOLEAN
    BY <1>3 DEF RMTake
  <2>4. QED
    BY <1>3, <2>2, <2>3 DEF TypeOK, Vectors, RMTake
<1>4. CASE RMRaise
  BY <1>4 DEF TypeOK, RMRaise
<1>5. CASE RMErase
  <2>1. ioRequests \in Vectors /\ ioRequests # <<>>
    BY <1>5 DEF TypeOK, Vectors, RMErase
  <2>2. ioRequests' \in Vectors
    BY <1>5, <2>1, EraseTypes DEF RMErase
  <2>3. Pushing \subseteq Requests
    BY DEF TypeOK, Pushing
  <2>4. QED
    BY <1>5, <2>2, <2>3 DEF TypeOK, Vectors, RMErase
<1>6. CASE RMPrint
  <2>1. printed' \in Seq(Requests)
    <3>1. req \in Requests \cup {Hole} /\ printed \in Seq(Requests)
      BY DEF TypeOK
    <3>2. CASE req = Hole
      BY <1>6, <3>1, <3>2 DEF RMPrint
    <3>3. CASE req # Hole
      BY <1>6, <3>1, <3>3 DEF RMPrint
    <3>4. QED
      BY <3>2, <3>3
  <2>2. rpc' \in {"print", "wake"} /\ aborted' \in BOOLEAN /\ (rpc' = "wake" => req # Hole)
    BY <1>6 DEF TypeOK, RMPrint
  <2>3. QED
    BY <1>6, <2>1, <2>2 DEF TypeOK, RMPrint
<1>7. CASE RMWake
  <2>1. req.proc \in Procs
    BY <1>7 DEF TypeOK, RMWake, Requests
  <2>2. QED
    BY <1>7, <2>1 DEF TypeOK, RMWake, States
<1>8. CASE RMLower
  BY <1>8 DEF TypeOK, RMLower
<1>9. QED
  BY <1>1, <1>2, <1>3, <1>4, <1>5, <1>6, <1>7, <1>8 DEF RMStep

(* Every step of the program keeps the types.                              *)
LEMMA NextTypes == TypeOK /\ [Next]_vars => TypeOK'
<1> SUFFICES ASSUME TypeOK, [Next]_vars PROVE TypeOK'
  OBVIOUS
<1>1. CASE \E c \in Cores : CoreStep(c)
  BY <1>1, CoreTypes
<1>2. CASE SchedStep
  BY <1>2, SchedTypes
<1>3. CASE RMStep
  BY <1>3, RMTypes
<1>4. CASE UNCHANGED vars
  BY <1>4 DEF TypeOK, vars
<1>5. QED
  BY <1>1, <1>2, <1>3, <1>4 DEF Next, Stopped

(* TypeOK holds in every state, however many cores and processes there are:*)
(* in particular the resource manager, which tests ioRequests without the  *)
(* lock, still finds an element in it when it takes and erases one         *)
(* (main.cpp:101-106).                                                     *)
THEOREM Types == Spec => []TypeOK
<1>1. QED
  BY InitTypes, NextTypes, PTL DEF Spec

-----------------------------------------------------------------------------
(* queueLock is a mutex: whoever is in the code it protects holds it.      *)

(* A core enters the protected code only by the lock, and leaves it when   *)
(* it releases it (main.cpp:40-51, 56-60).                                 *)
LEMMA CoreLockHeld ==
  ASSUME TypeOK, LockHeld, NEW c \in Cores, CoreStep(c)
  PROVE  LockHeld'
<1> USE KernelAssumption DEF TypeOK, LockHeld, CoreHolds, SchedHolds
<1>1. CASE CoreLoop(c)
  BY <1>1 DEF CoreLoop, Goto
<1>2. CASE CoreLock(c)
  BY <1>2 DEF CoreLock, Acquire, Goto
<1>3. CASE CoreScan(c)
  BY <1>3 DEF CoreScan, NextPcb, Release, Goto
<1>4. CASE CoreRecheck(c)
  BY <1>4 DEF CoreRecheck, NextPcb, Release, Goto
<1>5. CASE CoreClaim(c)
  BY <1>5 DEF CoreClaim, Release, Goto
<1>6. CASE PushBegin(c)
  BY <1>6 DEF PushBegin, Goto
<1>7. CASE PushEnd(c)
  BY <1>7 DEF PushEnd, Goto
<1>8. CASE RaceAborts(c) \/ RaceNulls(c)
  BY <1>8 DEF RaceAborts, RaceNulls
<1>9. CASE TestPrintLock(c)
  BY <1>9 DEF TestPrintLock, Goto
<1>10. CASE Block(c)
  BY <1>10 DEF Block, Goto
<1>11. CASE Yield(c)
  BY <1>11 DEF Yield, Goto
<1>12. CASE Finish(c)
  BY <1>12 DEF Finish, Goto
<1>13. CASE CoreRelock(c)
  BY <1>13 DEF CoreRelock, Acquire, Goto
<1>14. CASE CoreCheck(c)
  BY <1>14 DEF CoreCheck, Release, Goto
<1>15. CASE CoreReady(c)
  BY <1>15 DEF CoreReady, Release, Goto
<1>16. QED
  BY <1>1, <1>2, <1>3, <1>4, <1>5, <1>6, <1>7, <1>8, <1>9, <1>10, <1>11,
     <1>12, <1>13, <1>14, <1>15 DEF CoreStep

(* So does the scheduler (main.cpp:70-89); the resource manager never locks. *)
LEMMA NextLockHeld == TypeOK /\ LockHeld /\ [Next]_vars => LockHeld'
<1> SUFFICES ASSUME TypeOK, LockHeld, [Next]_vars PROVE LockHeld'
  OBVIOUS
<1> USE KernelAssumption DEF TypeOK, LockHeld, CoreHolds, SchedHolds
<1>1. CASE \E c \in Cores : CoreStep(c)
  BY <1>1, CoreLockHeld
<1>2. CASE SchedStep
  <2>1. CASE SchedLoop
    BY <2>1 DEF SchedLoop
  <2>2. CASE SchedLock
    BY <2>2 DEF SchedLock, Acquire
  <2>3. CASE SchedScan
    BY <2>3 DEF SchedScan, Release
  <2>4. CASE SchedQueue
    BY <2>4 DEF SchedQueue, Release
  <2>5. CASE SchedDecide
    BY <2>5 DEF SchedDecide, Release
  <2>6. QED
    BY <1>2, <2>1, <2>2, <2>3, <2>4, <2>5 DEF SchedStep
<1>3. CASE RMStep
  BY <1>3 DEF RMStep, RMLoop, RMPoll, RMTake, RMRaise, RMErase, RMPrint, RMWake,
              RMLower
<1>4. CASE UNCHANGED vars
  BY <1>4 DEF vars
<1>5. QED
  BY <1>1, <1>2, <1>3, <1>4 DEF Next, Stopped

-----------------------------------------------------------------------------
(* Who has a process.                                                      *)

(* The claim of a process is one step for whoever takes the lock: no core  *)
(* step breaks Ownership (main.cpp:43-59).                                 *)
LEMMA CoreOwnership ==
  ASSUME TypeOK, LockHeld, Ownership, NEW c \in Cores, CoreStep(c)
  PROVE  Ownership'
<1> USE DEF TypeOK, Ownership, Runs, Owning, InCore
<1>1. CASE CoreLoop(c)
  BY <1>1 DEF CoreLoop, Goto
<1>2. CASE CoreLock(c)
  BY <1>2 DEF CoreLock, Goto
<1>3. CASE CoreScan(c)
  BY <1>3 DEF CoreScan, NextPcb, Goto
<1>4. CASE CoreRecheck(c)
  <2>1. CASE Goto(c, "claim") /\ UNCHANGED pcb
    BY <1>4, <2>1 DEF CoreRecheck, Goto
  <2>2. CASE NextPcb(c)
    <3>1. /\ cpc' \in {[cpc EXCEPT ![c] = "scan"], [cpc EXCEPT ![c] = "loop"]}
          /\ \A d \in Cores \ {c} : pcb'[d] = pcb[d]
      BY <2>2 DEF NextPcb, Goto
    <3>2. UNCHANGED <<state, disturbed>>
      BY <1>4 DEF CoreRecheck
    <3>3. /\ cpc'[c] \in {"scan", "loop"}
          /\ \A d \in Cores \ {c} : cpc'[d] = cpc[d]
      BY <3>1
    <3>4. \A p, d : cpc'[d] \in {"recheck", "claim", "ready"} \cup Owning /\ pcb'[d] = p /\ d \in Cores
                   => d # c /\ cpc'[d] = cpc[d] /\ pcb[d] = p
      BY <3>1, <3>3
    <3>5. QED
      BY <3>2, <3>4
  <2>3. QED
    BY <1>4, <2>1, <2>2 DEF CoreRecheck
<1>5. CASE CoreClaim(c)
  BY <1>5 DEF CoreClaim, Goto, LockHeld, CoreHolds
<1>6. CASE PushBegin(c)
  BY <1>6 DEF PushBegin, Goto
<1>7. CASE PushEnd(c)
  BY <1>7 DEF PushEnd, Goto
<1>8. CASE RaceAborts(c) \/ RaceNulls(c)
  BY <1>8 DEF RaceAborts, RaceNulls
<1>9. CASE TestPrintLock(c)
  BY <1>9 DEF TestPrintLock, Goto
<1>10. CASE Block(c)
  BY <1>10 DEF Block, Goto
<1>11. CASE Yield(c)
  BY <1>11 DEF Yield, Goto
<1>12. CASE Finish(c)
  BY <1>12 DEF Finish, Goto
<1>13. CASE CoreRelock(c)
  BY <1>13 DEF CoreRelock, Goto
<1>14. CASE CoreCheck(c)
  BY <1>14 DEF CoreCheck, Goto
<1>15. CASE CoreReady(c)
  BY <1>15 DEF CoreReady, Goto
<1>16. QED
  BY <1>1, <1>2, <1>3, <1>4, <1>5, <1>6, <1>7, <1>8, <1>9, <1>10, <1>11,
     <1>12, <1>13, <1>14, <1>15 DEF CoreStep

(* resourceManager breaks it only for a process that it puts in disturbed  *)
(* (main.cpp:113).                                                         *)
LEMMA NextOwnership == TypeOK /\ LockHeld /\ Ownership /\ [Next]_vars => Ownership'
<1> SUFFICES ASSUME TypeOK, LockHeld, Ownership, [Next]_vars PROVE Ownership'
  OBVIOUS
<1>1. CASE \E c \in Cores : CoreStep(c)
  BY <1>1, CoreOwnership
<1>2. CASE SchedStep
  BY <1>2 DEF Ownership, Runs, SchedStep, SchedLoop, SchedLock, SchedScan,
              SchedQueue, SchedDecide
<1>3. CASE RMStep
  <2>1. CASE RMWake
    BY <2>1 DEF RMWake, TypeOK, Ownership, Runs, Owning, InCore
  <2>2. CASE RMLoop \/ RMPoll \/ RMTake \/ RMRaise \/ RMErase \/ RMPrint \/ RMLower
    <3>1. UNCHANGED <<state, cpc, pcb, disturbed>>
      BY <2>2 DEF RMLoop, RMPoll, RMTake, RMRaise, RMErase, RMPrint, RMLower
    <3>2. QED
      BY <3>1 DEF Ownership, Runs
  <2>3. QED
    BY <1>3, <2>1, <2>2 DEF RMStep
<1>4. CASE UNCHANGED vars
  BY <1>4 DEF Ownership, Runs, vars
<1>5. QED
  BY <1>1, <1>2, <1>3, <1>4 DEF Next, Stopped

-----------------------------------------------------------------------------
(* What the scheduler has seen.                                            *)

(* A core makes a process Finished only by reaching its END, and a process *)
(* that has ended stays so (CONTROL_UNIT.cpp:58-60).                       *)
LEMMA CoreSeenEnded ==
  ASSUME TypeOK, SeenEnded, NEW c \in Cores, CoreStep(c)
  PROVE  SeenEnded'
<1>1. CASE CoreClaim(c)
  BY <1>1 DEF CoreClaim, TypeOK, SeenEnded
<1>2. CASE Block(c)
  BY <1>2 DEF Block, TypeOK, SeenEnded
<1>3. CASE Finish(c)
  BY <1>3 DEF Finish, TypeOK, SeenEnded
<1>4. CASE CoreReady(c)
  BY <1>4 DEF CoreReady, TypeOK, SeenEnded
<1>5. CASE UNCHANGED <<state, ended, spc, seen, shutdown>>
  BY <1>5 DEF SeenEnded
<1>6. QED
  BY <1>1, <1>2, <1>3, <1>4, <1>5 DEF CoreStep, CoreLoop, CoreLock, CoreScan,
     CoreRecheck, PushBegin, PushEnd, RaceAborts, RaceNulls, TestPrintLock,
     Yield, CoreRelock, CoreCheck

(* The scan of the scheduler goes past ended processes only, although      *)
(* their states change behind it (main.cpp:74-88).                         *)
LEMMA NextSeenEnded == TypeOK /\ SeenEnded /\ [Next]_vars => SeenEnded'
<1> SUFFICES ASSUME TypeOK, SeenEnded, [Next]_vars PROVE SeenEnded'
  OBVIOUS
<1>1. CASE \E c \in Cores : CoreStep(c)
  BY <1>1, CoreSeenEnded
<1>2. CASE SchedStep
  <2> USE KernelAssumption DEF TypeOK, SeenEnded, Procs
  <2>1. CASE SchedLoop
    BY <2>1 DEF SchedLoop
  <2>2. CASE SchedLock
    BY <2>2 DEF SchedLock
  <2>3. CASE SchedScan
    <3>1. UNCHANGED <<state, ended, shutdown>>
      BY <2>3 DEF SchedScan
    <3>2. CASE state[seen] # "Finished"
      <4>1. spc' = "loop"
        BY <2>3, <3>2 DEF SchedScan
      <4>2. QED
        BY <3>1, <4>1
    <3>3. CASE state[seen] = "Finished" /\ seen < NumProcs
      <4>1. spc' = "scan" /\ seen' = seen + 1 /\ spc = "scan"
        BY <2>3, <3>3 DEF SchedScan
      <4>2. \A p \in 1..(seen' - 1) : p \in 1..(seen - 1) \/ p = seen
        BY <4>1
      <4>3. QED
        BY <3>1, <3>3, <4>1, <4>2
    <3>4. CASE state[seen] = "Finished" /\ seen = NumProcs
      BY <2>3, <3>1, <3>4 DEF SchedScan
    <3>5. QED
      BY <2>3, <3>2, <3>3, <3>4 DEF SchedScan
  <2>4. CASE SchedQueue
    BY <2>4 DEF SchedQueue
  <2>5. CASE SchedDecide
    BY <2>5 DEF SchedDecide
  <2>6. QED
    BY <1>2, <2>1, <2>2, <2>3, <2>4, <2>5 DEF SchedStep
<1>3. CASE RMStep
  <2>1. UNCHANGED <<ended, spc, seen, shutdown>>
    BY <1>3 DEF RMStep, RMLoop, RMPoll, RMTake, RMRaise, RMErase, RMPrint,
                RMWake, RMLower
  <2>2. \A p \in Procs : state'[p] = "Finished" => state[p] = "Finished"
    BY <1>3 DEF RMStep, RMLoop, RMPoll, RMTake, RMRaise, RMErase, RMPrint,
                RMWake, RMLower, TypeOK
  <2>3. QED
    BY <2>1, <2>2 DEF SeenEnded
<1>4. CASE UNCHANGED vars
  BY <1>4 DEF SeenEnded, vars
<1>5. QED
  BY <1>1, <1>2, <1>3, <1>4 DEF Next, Stopped

-----------------------------------------------------------------------------
(* The theorems.                                                           *)

(* The initial state has the invariant.                                    *)
LEMMA InitInv == Init => KernelInv
  BY KernelAssumption DEF Init, KernelInv, LockHeld, CoreHolds, SchedHolds,
     Ownership, SeenEnded, Runs, Owning, InCore

(* Every step keeps it.                                                    *)
LEMMA NextInv == TypeOK /\ KernelInv /\ [Next]_vars => KernelInv'
  BY NextLockHeld, NextOwnership, NextSeenEnded DEF KernelInv

(* The inductive invariant: queueLock is held by whoever is in the code it *)
(* protects, a process that was not made Ready under its core has one core,*)
(* and what the scheduler has seen Finished has ended.                     *)
THEOREM Invariance == Spec => []KernelInv
<1>1. Init => TypeOK /\ KernelInv
  BY InitTypes, InitInv
<1>2. TypeOK /\ KernelInv /\ [Next]_vars => (TypeOK /\ KernelInv)'
  BY NextTypes, NextInv
<1>3. QED
  BY <1>1, <1>2, PTL DEF Spec

(* Any number of cores: one core at a time has a process, and it is not    *)
(* Ready meanwhile, unless resourceManager made it Ready under its core    *)
(* (main.cpp:39-59, 113).                                                  *)
THEOREM OwnerTheorem == Spec => []SoleOwner
<1>1. KernelInv => SoleOwner
  BY DEF KernelInv, Ownership, SoleOwner
<1>2. QED
  BY <1>1, Invariance, PTL

(* shutdown is raised only when every program has reached its END          *)
(* (main.cpp:69-88), whatever the cores do to the states meanwhile.        *)
THEOREM ShutdownTheorem == Spec => []ShutdownSound
<1>1. KernelInv => ShutdownSound
  BY DEF KernelInv, SeenEnded, ShutdownSound
<1>2. QED
  BY <1>1, Invariance, PTL

(* A Finished process leaves that state only by the answer of one of its   *)
(* requests (main.cpp:113), while it is not made Ready under its core.     *)
THEOREM RevivalTheorem == Spec => RevivedByAnswerOnly
<1> DEFINE Revival == \A p \in Procs \ disturbed :
             state[p] = "Finished" /\ state'[p] # "Finished" => req.proc = p
<1>1. TypeOK /\ KernelInv /\ [Next]_vars => [Revival]_vars
  <2> SUFFICES ASSUME TypeOK, KernelInv, Next,
                      NEW p \in Procs \ disturbed,
                      state[p] = "Finished", state'[p] # "Finished"
               PROVE  req.proc = p
    OBVIOUS
  <2>1. CASE \E c \in Cores : CoreStep(c)
    <3> PICK c \in Cores : CoreStep(c)
      BY <2>1
    <3>1. ~CoreClaim(c) /\ ~Block(c) /\ ~CoreReady(c)
      BY DEF TypeOK, KernelInv, Ownership, InCore, CoreClaim, Block, CoreReady
    <3>2. ~Finish(c)
      BY DEF TypeOK, Finish
    <3>3. state' = state
      BY <3>1, <3>2 DEF CoreStep, CoreLoop, CoreLock, CoreScan, CoreRecheck,
         PushBegin, PushEnd, RaceAborts, RaceNulls, TestPrintLock, Yield, CoreRelock,
         CoreCheck
    <3>4. QED
      BY <3>3
  <2>2. CASE SchedStep
    BY <2>2 DEF SchedStep, SchedLoop, SchedLock, SchedScan, SchedQueue, SchedDecide
  <2>3. CASE RMStep
    BY <2>3 DEF RMStep, RMLoop, RMPoll, RMTake, RMRaise, RMErase, RMPrint,
                RMWake, RMLower, TypeOK
  <2>4. CASE Stopped
    BY <2>4 DEF Stopped, vars
  <2>5. QED
    BY <2>1, <2>2, <2>3, <2>4 DEF Next
<1>2. QED
  BY <1>1, Types, Invariance, PTL DEF Spec, RevivedByAnswerOnly

=============================================================================
