------------------------- MODULE KernelOutputProofs -------------------------
(***************************************************************************)
(* Proofs about what module Kernel prints, for any number of cores,        *)
(* processes, slices and prints: in order, nothing twice, nothing lost,    *)
(* and that the threads implement module Simulator.                        *)
(***************************************************************************)
EXTENDS KernelProofs, SequenceTheorems

USE DEF coreRest, callRest, schedRest, rmRest, schedVars, rmVars

-----------------------------------------------------------------------------
(* Sequences of requests.                                                  *)

LEMMA ConcatElements ==
  ASSUME NEW S, NEW s \in Seq(S), NEW t \in Seq(S)
  PROVE  Elements(s \o t) = Elements(s) \cup Elements(t)
<1>1. /\ s \o t \in Seq(S)
      /\ Len(s \o t) = Len(s) + Len(t)
      /\ \A i \in 1..Len(s) : (s \o t)[i] = s[i]
      /\ \A i \in 1..Len(t) : (s \o t)[Len(s) + i] = t[i]
  BY ConcatProperties
<1>2. ASSUME NEW i \in 1..Len(s \o t)
      PROVE  (s \o t)[i] \in Elements(s) \cup Elements(t)
  <2>1. CASE i <= Len(s)
    BY <1>1, <2>1 DEF Elements
  <2>2. CASE i > Len(s)
    <3>1. i - Len(s) \in 1..Len(t) /\ Len(s) + (i - Len(s)) = i
      BY <1>1, <2>2
    <3>2. (s \o t)[i] = t[i - Len(s)]
      BY <1>1, <3>1
    <3> QED BY <3>1, <3>2 DEF Elements
  <2> QED BY <2>1, <2>2
<1>3. ASSUME NEW i \in 1..Len(s) PROVE s[i] \in Elements(s \o t)
  <2>1. i \in 1..Len(s \o t) /\ (s \o t)[i] = s[i]
    BY <1>1
  <2> QED BY <2>1 DEF Elements
<1>4. ASSUME NEW i \in 1..Len(t) PROVE t[i] \in Elements(s \o t)
  <2>1. Len(s) + i \in 1..Len(s \o t) /\ (s \o t)[Len(s) + i] = t[i]
    BY <1>1
  <2> QED BY <2>1 DEF Elements
<1> QED BY <1>2, <1>3, <1>4 DEF Elements

(* A concatenation is sorted when its parts are, and the one may come      *)
(* before the other.                                                       *)
LEMMA ConcatSorted ==
  ASSUME NEW S, NEW s \in Seq(S), NEW t \in Seq(S), NEW T
  PROVE  Sorted(s \o t, T) <=>
           /\ Sorted(s, T)
           /\ Sorted(t, T)
           /\ \A a \in Elements(s), b \in Elements(t) : Before(a, b, T)
<1>1. /\ Len(s \o t) = Len(s) + Len(t)
      /\ Len(s) \in Nat /\ Len(t) \in Nat
      /\ \A i \in 1..Len(s) : (s \o t)[i] = s[i]
      /\ \A i \in 1..Len(t) : (s \o t)[Len(s) + i] = t[i]
  BY ConcatProperties
<1>2. ASSUME Sorted(s \o t, T)
      PROVE  /\ Sorted(s, T)
             /\ Sorted(t, T)
             /\ \A a \in Elements(s), b \in Elements(t) : Before(a, b, T)
  <2>1. ASSUME NEW i \in 1..Len(s), NEW j \in 1..Len(s), i < j
        PROVE  Before(s[i], s[j], T)
    <3>1. i \in 1..Len(s \o t) /\ j \in 1..Len(s \o t)
      BY <1>1
    <3>2. (s \o t)[i] = s[i] /\ (s \o t)[j] = s[j]
      BY <1>1
    <3> QED BY <1>2, <2>1, <3>1, <3>2 DEF Sorted
  <2>2. ASSUME NEW i \in 1..Len(t), NEW j \in 1..Len(t), i < j
        PROVE  Before(t[i], t[j], T)
    <3>1. Len(s) + i \in 1..Len(s \o t) /\ Len(s) + j \in 1..Len(s \o t)
      BY <1>1
    <3>2. (s \o t)[Len(s) + i] = t[i] /\ (s \o t)[Len(s) + j] = t[j]
      BY <1>1
    <3>3. Len(s) + i < Len(s) + j
      BY <1>1, <2>2
    <3> QED BY <1>2, <3>1, <3>2, <3>3 DEF Sorted
  <2>3. ASSUME NEW i \in 1..Len(s), NEW j \in 1..Len(t)
        PROVE  Before(s[i], t[j], T)
    <3>1. i \in 1..Len(s \o t) /\ Len(s) + j \in 1..Len(s \o t) /\ i < Len(s) + j
      BY <1>1
    <3>2. (s \o t)[i] = s[i] /\ (s \o t)[Len(s) + j] = t[j]
      BY <1>1
    <3> QED BY <1>2, <3>1, <3>2 DEF Sorted
  <2> QED BY <2>1, <2>2, <2>3 DEF Sorted, Elements
<1>3. ASSUME Sorted(s, T), Sorted(t, T),
             \A a \in Elements(s), b \in Elements(t) : Before(a, b, T),
             NEW i \in 1..Len(s \o t), NEW j \in 1..Len(s \o t), i < j
      PROVE  Before((s \o t)[i], (s \o t)[j], T)
  <2>1. CASE j <= Len(s)
    <3>1. i \in 1..Len(s) /\ j \in 1..Len(s)
      BY <1>1, <1>3, <2>1
    <3> QED BY <1>1, <1>3, <3>1 DEF Sorted
  <2>2. CASE i > Len(s)
    <3> DEFINE k == i - Len(s)
               l == j - Len(s)
    <3>1. k \in 1..Len(t) /\ l \in 1..Len(t) /\ k < l /\ i = Len(s) + k /\ j = Len(s) + l
      BY <1>1, <1>3, <2>2
    <3>2. (s \o t)[i] = t[k] /\ (s \o t)[j] = t[l]
      BY <1>1, <3>1
    <3> HIDE DEF k, l
    <3> QED BY <1>3, <3>1, <3>2 DEF Sorted
  <2>3. CASE i <= Len(s) /\ j > Len(s)
    <3> DEFINE l == j - Len(s)
    <3>1. i \in 1..Len(s) /\ l \in 1..Len(t) /\ j = Len(s) + l
      BY <1>1, <1>3, <2>3
    <3>2. (s \o t)[i] = s[i] /\ (s \o t)[j] = t[l]
      BY <1>1, <3>1
    <3> HIDE DEF l
    <3> QED BY <1>3, <3>1, <3>2 DEF Elements
  <2> QED BY <1>1, <2>1, <2>2, <2>3
<1> QED BY <1>2, <1>3 DEF Sorted

(* Nothing is asked of a null.                                             *)
LEMMA HoleBefore ==
  ASSUME NEW a \in Requests \cup {Hole}, NEW T
  PROVE  Before(Hole, a, T) /\ Before(a, Hole, T)
BY DEF Before, Hole, Requests, Procs

(* Sharing more registers asks less.                                       *)
LEMMA SharedMore ==
  ASSUME NEW s, NEW T, NEW U, T \subseteq U, Sorted(s, T)
  PROVE  Sorted(s, U)
BY DEF Sorted, Before

LEMMA SingleSorted == ASSUME NEW a, NEW T PROVE Sorted(<<a>>, T) /\ Elements(<<a>>) = {a}
<1>1. Len(<<a>>) = 1 /\ <<a>>[1] = a
  OBVIOUS
<1>2. Sorted(<<a>>, T)
  BY DEF Sorted
<1> QED BY <1>1, <1>2 DEF Elements

LEMMA EmptySorted == ASSUME NEW T PROVE Sorted(<<>>, T) /\ Elements(<<>>) = {}
BY DEF Sorted, Elements

(* A vector is its front and the rest.                                     *)
LEMMA FrontAndRest ==
  ASSUME NEW q \in Vectors, q # <<>>
  PROVE  /\ Head(q) \in Requests \cup {Hole}
         /\ Tail(q) \in Vectors
         /\ q = <<Head(q)>> \o Tail(q)
         /\ [q EXCEPT ![1] = Hole] = <<Hole>> \o Tail(q)
<1>1. Head(q) \in Requests \cup {Hole} /\ Tail(q) \in Vectors
  BY DEF Vectors
<1>2. q = <<Head(q)>> \o Tail(q)
  BY DEF Vectors
<1>3. [q EXCEPT ![1] = Hole] = <<Hole>> \o Tail(q)
  BY DEF Vectors
<1> QED BY <1>1, <1>2, <1>3

LEMMA ElementsTyped ==
  ASSUME NEW q \in Vectors PROVE Elements(q) \subseteq Requests \cup {Hole}
BY DEF Vectors, Elements

LEMMA VectorConcat ==
  ASSUME NEW s \in Vectors, NEW t \in Vectors, NEW T
  PROVE  /\ s \o t \in Vectors
         /\ Elements(s \o t) = Elements(s) \cup Elements(t)
         /\ Sorted(s \o t, T) <=>
              /\ Sorted(s, T)
              /\ Sorted(t, T)
              /\ \A a \in Elements(s), b \in Elements(t) : Before(a, b, T)
<1> DEFINE S == Requests \cup {Hole}
<1>1. s \in Seq(S) /\ t \in Seq(S)
  BY DEF Vectors
<1>2. s \o t \in Seq(S)
  BY <1>1
<1>3. Elements(s \o t) = Elements(s) \cup Elements(t)
  BY <1>1, ConcatElements
<1>4. Sorted(s \o t, T) <=>
        /\ Sorted(s, T)
        /\ Sorted(t, T)
        /\ \A a \in Elements(s), b \in Elements(t) : Before(a, b, T)
  BY <1>1, ConcatSorted
<1> QED BY <1>2, <1>3, <1>4 DEF Vectors

LEMMA RequestVector ==
  ASSUME NEW r \in Requests \cup {Hole}, NEW T
  PROVE  <<r>> \in Vectors /\ Sorted(<<r>>, T) /\ Elements(<<r>>) = {r}
<1>1. <<r>> \in Vectors
  BY DEF Vectors
<1> QED BY <1>1, SingleSorted

LEMMA RequestInFront ==
  ASSUME NEW q \in Vectors, NEW r \in Requests \cup {Hole}, NEW T
  PROVE  /\ <<r>> \o q \in Vectors
         /\ Sorted(<<r>> \o q, T) <=>
              Sorted(q, T) /\ \A b \in Elements(q) : Before(r, b, T)
         /\ Elements(<<r>> \o q) = {r} \cup Elements(q)
<1> DEFINE u == <<r>>
<1>1. u \in Vectors /\ Sorted(u, T) /\ Elements(u) = {r}
  BY RequestVector
<1> HIDE DEF u
<1> QED BY <1>1, VectorConcat DEF u

LEMMA RequestBehind ==
  ASSUME NEW q \in Vectors, NEW r \in Requests \cup {Hole}, NEW T
  PROVE  /\ q \o <<r>> \in Vectors
         /\ Sorted(q \o <<r>>, T) <=>
              Sorted(q, T) /\ \A a \in Elements(q) : Before(a, r, T)
         /\ Elements(q \o <<r>>) = Elements(q) \cup {r}
<1> DEFINE u == <<r>>
<1>1. u \in Vectors /\ Sorted(u, T) /\ Elements(u) = {r}
  BY RequestVector
<1> HIDE DEF u
<1> QED BY <1>1, VectorConcat DEF u

(* Nulls at either end of a vector change nothing.                         *)
LEMMA HoleInFront ==
  ASSUME NEW q \in Vectors, NEW T
  PROVE  /\ <<Hole>> \o q \in Vectors
         /\ Sorted(<<Hole>> \o q, T) <=> Sorted(q, T)
         /\ Elements(<<Hole>> \o q) = {Hole} \cup Elements(q)
<1>1. \A b \in Elements(q) : Before(Hole, b, T)
  BY ElementsTyped, HoleBefore
<1> QED BY <1>1, RequestInFront

LEMMA HoleBehind ==
  ASSUME NEW q \in Vectors, NEW T
  PROVE  /\ q \o <<Hole>> \in Vectors
         /\ Sorted(q \o <<Hole>>, T) <=> Sorted(q, T)
         /\ Elements(q \o <<Hole>>) = Elements(q) \cup {Hole}
<1>1. \A a \in Elements(q) : Before(a, Hole, T)
  BY ElementsTyped, HoleBefore
<1> QED BY <1>1, RequestBehind

(* A null in the place of a request changes nothing but that it is gone.   *)
LEMMA HoleWithin ==
  ASSUME NEW q \in Vectors, NEW i \in 1..Len(q), NEW T, Sorted(q, T)
  PROVE  LET s == [q EXCEPT ![i] = Hole] IN
         /\ s \in Vectors
         /\ Sorted(s, T)
         /\ Elements(q) \subseteq Elements(s) \cup {q[i]}
         /\ Elements(s) \subseteq Elements(q) \cup {Hole}
         /\ Head(q) = Hole => Head(s) = Hole
<1> DEFINE s == [q EXCEPT ![i] = Hole]
<1>1. s \in Vectors /\ Len(s) = Len(q)
  BY NullTypes
<1>2. /\ \A j \in 1..Len(q) : s[j] = IF j = i THEN Hole ELSE q[j]
      /\ \A j \in 1..Len(q) : q[j] \in Requests \cup {Hole}
      /\ Head(q) = q[1] /\ Head(s) = s[1] /\ 1 \in 1..Len(q)
  BY <1>1 DEF Vectors
<1> HIDE DEF s
<1>3. Sorted(s, T)
  <2> SUFFICES ASSUME NEW j \in 1..Len(q), NEW k \in 1..Len(q), j < k
               PROVE  Before(s[j], s[k], T)
    BY <1>1 DEF Sorted
  <2>1. Before(q[j], q[k], T)
    BY DEF Sorted
  <2>2. Before(q[j], Hole, T) /\ Before(Hole, q[k], T) /\ Before(Hole, Hole, T)
    BY <1>2, HoleBefore
  <2> QED BY <1>2, <2>1, <2>2
<1>4. /\ Elements(q) \subseteq Elements(s) \cup {q[i]}
      /\ Elements(s) \subseteq Elements(q) \cup {Hole}
  BY <1>1, <1>2 DEF Elements
<1>5. Head(q) = Hole => Head(s) = Hole
  BY <1>2
<1> QED BY <1>1, <1>3, <1>4, <1>5 DEF s

(* The three parts of Flow.                                                *)
LEMMA FlowTypes ==
  ASSUME TypeOK
  PROVE  /\ printed \in Vectors /\ InHand \in Vectors /\ ioRequests \in Vectors
         /\ printed \o InHand \in Vectors
         /\ Flow \in Vectors
<1>1. printed \in Vectors /\ ioRequests \in Vectors
  BY DEF TypeOK, Vectors
<1>2. InHand \in Vectors
  <2>1. <<req>> \in Vectors /\ <<>> \in Vectors
    BY DEF TypeOK, Vectors
  <2> QED BY <2>1, Zenon DEF InHand
<1> QED BY <1>1, <1>2 DEF Flow, Vectors

LEMMA ThreeParts ==
  ASSUME NEW p \in Vectors, NEW h \in Vectors, NEW q \in Vectors, NEW T
  PROVE  /\ Elements(p \o h \o q) = Elements(p) \cup Elements(h) \cup Elements(q)
         /\ Sorted(p \o h \o q, T) <=>
              /\ Sorted(p, T) /\ Sorted(h, T) /\ Sorted(q, T)
              /\ \A a \in Elements(p), b \in Elements(h) : Before(a, b, T)
              /\ \A a \in Elements(p) \cup Elements(h), b \in Elements(q) : Before(a, b, T)
<1> DEFINE u == p \o h
<1>1. /\ u \in Vectors
      /\ Elements(u) = Elements(p) \cup Elements(h)
      /\ Sorted(u, T) <=>
           /\ Sorted(p, T) /\ Sorted(h, T)
           /\ \A a \in Elements(p), b \in Elements(h) : Before(a, b, T)
  BY VectorConcat
<1> HIDE DEF u
<1>2. Elements(u \o q) = Elements(u) \cup Elements(q)
  BY <1>1, VectorConcat
<1>3. Sorted(u \o q, T) <=>
        /\ Sorted(u, T) /\ Sorted(q, T)
        /\ \A a \in Elements(u), b \in Elements(q) : Before(a, b, T)
  BY <1>1, VectorConcat
<1> QED BY <1>1, <1>2, <1>3 DEF u

-----------------------------------------------------------------------------
(* The resource manager moves requests on, and loses and repeats none.     *)

KeepsFlow ==
  /\ Sorted(Flow', tainted)
  /\ Elements(Flow') \ {Hole} = Elements(Flow) \ {Hole}
  /\ FrontTaken'

LEMMA TakeKeepsFlow ==
  ASSUME TypeOK, Sorted(Flow, tainted), RMTake PROVE KeepsFlow
<1> DEFINE q == ioRequests
           h == Head(q)
           t == Tail(q)
<1>1. q \in Vectors /\ q # <<>> /\ printed \in Vectors
  BY FlowTypes DEF TypeOK, RMTake
<1>2. /\ h \in Requests \cup {Hole}
      /\ t \in Vectors
      /\ q = <<h>> \o t
      /\ ioRequests' = <<Hole>> \o t
  BY <1>1, FrontAndRest DEF RMTake
<1> DEFINE old == InHand
           new == InHand'
           u == ioRequests'
<1>3. old = <<>> /\ new = <<h>> /\ u = <<Hole>> \o t /\ printed' = printed
  BY <1>2 DEF RMTake, InHand
<1>4. /\ old \in Vectors /\ Elements(old) = {} /\ Sorted(old, tainted)
      /\ new \in Vectors /\ Elements(new) = {h} /\ Sorted(new, tainted)
  <2>1. <<>> \in Vectors
    BY DEF Vectors
  <2> HIDE DEF old, new
  <2> QED BY <1>2, <1>3, <2>1, EmptySorted, RequestVector
<1>5. Head(u) = Hole
  BY <1>3
<1>6. Flow = printed \o old \o q /\ Flow' = printed \o new \o u
  BY <1>3 DEF Flow
<1> HIDE DEF q, h, t, old, new, u
<1>7. /\ Elements(q) = {h} \cup Elements(t)
      /\ Sorted(q, tainted) <=>
           Sorted(t, tainted) /\ \A b \in Elements(t) : Before(h, b, tainted)
  BY <1>2, RequestInFront
<1>8. /\ u \in Vectors
      /\ Elements(u) = {Hole} \cup Elements(t)
      /\ Sorted(u, tainted) <=> Sorted(t, tainted)
  BY <1>2, <1>3, HoleInFront
<1>9. /\ Elements(Flow) = Elements(printed) \cup Elements(old) \cup Elements(q)
      /\ Sorted(printed, tainted) /\ Sorted(q, tainted)
      /\ \A a \in Elements(printed) \cup Elements(old), b \in Elements(q) :
           Before(a, b, tainted)
  BY <1>1, <1>4, <1>6, ThreeParts
<1>10. \A a \in Elements(printed) \cup {h} : Before(a, Hole, tainted)
  BY <1>1, <1>2, ElementsTyped, HoleBefore
<1>11. Elements(Flow') = Elements(printed) \cup Elements(new) \cup Elements(u)
  BY <1>1, <1>4, <1>6, <1>8, ThreeParts
<1>12. Sorted(Flow', tainted)
  <2>1. \A a \in Elements(printed), b \in Elements(new) : Before(a, b, tainted)
    BY <1>4, <1>7, <1>9
  <2>2. \A a \in Elements(printed) \cup Elements(new), b \in Elements(u) :
          Before(a, b, tainted)
    BY <1>4, <1>7, <1>8, <1>9, <1>10
  <2> QED BY <1>1, <1>4, <1>6, <1>7, <1>8, <1>9, <2>1, <2>2, ThreeParts
<1>13. Elements(Flow') \ {Hole} = Elements(Flow) \ {Hole}
  BY <1>4, <1>7, <1>8, <1>9, <1>11
<1> QED BY <1>5, <1>12, <1>13 DEF KeepsFlow, FrontTaken, u

LEMMA EraseKeepsFlow ==
  ASSUME TypeOK, FrontTaken, Sorted(Flow, tainted), RMErase PROVE KeepsFlow
<1> DEFINE q == ioRequests
           t == Tail(q)
           u == ioRequests'
<1>1. q \in Vectors /\ q # <<>> /\ printed \in Vectors /\ InHand \in Vectors
  BY FlowTypes DEF TypeOK, RMErase
<1>2. t \in Vectors /\ q = <<Hole>> \o t
  BY <1>1, FrontAndRest DEF RMErase, FrontTaken
<1>3. u \in {q, t, t \o <<Hole>>}
  <2>1. Append(t, Hole) = t \o <<Hole>>
    <3>1. t \in Seq(Requests \cup {Hole}) /\ Hole \in Requests \cup {Hole}
      BY <1>2 DEF Vectors
    <3> HIDE DEF t
    <3> QED BY <3>1, AppendIsConcat
  <2>2. u \in {q, t, Append(t, Hole)}
    BY Zenon DEF RMErase, RacyErase
  <2> QED BY <2>1, <2>2, Zenon
<1>4. InHand' = InHand /\ printed' = printed /\ ~(rpc' \in {"raise", "erase"})
  BY DEF RMErase, InHand
<1>5. Flow = printed \o InHand \o (<<Hole>> \o t) /\ Flow' = printed \o InHand \o u
  BY <1>2, <1>4 DEF Flow
<1> HIDE DEF q, t, u
<1>6. /\ <<Hole>> \o t \in Vectors
      /\ Elements(<<Hole>> \o t) = {Hole} \cup Elements(t)
      /\ Sorted(<<Hole>> \o t, tainted) => Sorted(t, tainted)
  BY <1>2, HoleInFront
<1>7. /\ u \in Vectors
      /\ Elements(u) \cup {Hole} = {Hole} \cup Elements(t)
      /\ Elements(u) \subseteq Elements(<<Hole>> \o t)
      /\ Sorted(t, tainted) => Sorted(u, tainted)
  <2>1. CASE u = q
    BY <1>2, <1>6, <2>1, HoleInFront
  <2>2. CASE u = t
    BY <1>2, <1>6, <2>2
  <2>3. CASE u = t \o <<Hole>>
    BY <1>2, <1>6, <2>3, HoleBehind
  <2> QED BY <1>3, <2>1, <2>2, <2>3
<1>8. Sorted(Flow', tainted)
  <2>1. /\ Sorted(printed, tainted) /\ Sorted(InHand, tainted)
        /\ Sorted(<<Hole>> \o t, tainted)
        /\ \A a \in Elements(printed), b \in Elements(InHand) : Before(a, b, tainted)
        /\ \A a \in Elements(printed) \cup Elements(InHand), b \in Elements(<<Hole>> \o t) :
             Before(a, b, tainted)
    BY <1>1, <1>5, <1>6, ThreeParts
  <2>2. /\ Sorted(u, tainted)
        /\ \A a \in Elements(printed) \cup Elements(InHand), b \in Elements(u) :
             Before(a, b, tainted)
    BY <1>6, <1>7, <2>1
  <2> QED BY <1>1, <1>5, <1>7, <2>1, <2>2, ThreeParts
<1>9. Elements(Flow') \ {Hole} = Elements(Flow) \ {Hole}
  <2>1. Elements(Flow) = Elements(printed) \cup Elements(InHand) \cup Elements(<<Hole>> \o t)
    BY <1>1, <1>5, <1>6, ThreeParts
  <2>2. Elements(Flow') = Elements(printed) \cup Elements(InHand) \cup Elements(u)
    BY <1>1, <1>5, <1>7, ThreeParts
  <2> QED BY <1>6, <1>7, <2>1, <2>2
<1> QED BY <1>4, <1>8, <1>9 DEF KeepsFlow, FrontTaken

LEMMA PrintKeepsFlow ==
  ASSUME TypeOK, FrontTaken, Sorted(Flow, tainted), RMPrint
  PROVE  Flow' = Flow /\ printed' \o InHand' = printed \o InHand
<1>1. CASE req = Hole
  BY <1>1 DEF RMPrint, Flow, InHand
<1>2. CASE req # Hole
  <2>1. InHand = <<req>> /\ InHand' = <<>> /\ printed' = Append(printed, req)
    BY <1>2 DEF RMPrint, InHand
  <2>2. printed' \o <<>> = printed \o <<req>>
    BY <2>1 DEF TypeOK
  <2> QED BY <2>1, <2>2 DEF RMPrint, Flow
<1> QED BY <1>1, <1>2

LEMMA RMKeepsFlow ==
  ASSUME TypeOK, FrontTaken, Sorted(Flow, tainted), RMStep PROVE KeepsFlow
<1>1. CASE RMPrint
  BY <1>1, PrintKeepsFlow DEF KeepsFlow, FrontTaken, RMPrint
<1>2. CASE RMLoop \/ RMPoll \/ RMRaise \/ RMWake \/ RMLower
  <2>1. UNCHANGED <<printed, InHand, ioRequests>>
    BY <1>2 DEF RMLoop, RMPoll, RMRaise, RMWake, RMLower, InHand
  <2>2. FrontTaken'
    BY <1>2, <2>1 DEF RMLoop, RMPoll, RMRaise, RMWake, RMLower, FrontTaken
  <2>3. Flow' = Flow
    BY <2>1 DEF Flow
  <2> QED BY <2>2, <2>3 DEF KeepsFlow
<1> QED BY <1>1, <1>2, TakeKeepsFlow, EraseKeepsFlow DEF RMStep

(* What is printed or in hand remains so.                                  *)
LEMMA RMDelivers ==
  ASSUME TypeOK, FrontTaken, Sorted(Flow, tainted), RMStep
  PROVE  Elements(printed \o InHand) \subseteq Elements(printed' \o InHand')
<1>1. CASE RMTake
  <2> DEFINE new == InHand'
  <2>1. printed \in Vectors /\ ioRequests \in Vectors /\ ioRequests # <<>>
    BY <1>1, FlowTypes DEF TypeOK, RMTake
  <2>2. InHand = <<>> /\ printed' = printed /\ new = <<Head(ioRequests)>>
    BY <1>1 DEF RMTake, InHand
  <2>3. new \in Vectors
    BY <2>1, <2>2, FrontAndRest, RequestVector
  <2>4. printed \o InHand = printed
    BY <2>1, <2>2 DEF Vectors
  <2> HIDE DEF new
  <2>5. Elements(printed \o new) = Elements(printed) \cup Elements(new)
    BY <2>1, <2>3, VectorConcat
  <2> QED BY <2>2, <2>4, <2>5 DEF new
<1>2. CASE RMPrint
  BY <1>2, PrintKeepsFlow
<1>3. CASE RMLoop \/ RMPoll \/ RMRaise \/ RMErase \/ RMWake \/ RMLower
  BY <1>3 DEF RMLoop, RMPoll, RMRaise, RMErase, RMWake, RMLower, InHand
<1> QED BY <1>1, <1>2, <1>3 DEF RMStep

-----------------------------------------------------------------------------
(* push_back.                                                              *)

LEMMA Pushed ==
  ASSUME NEW q \in Vectors, NEW r \in Requests \cup {Hole}, NEW T,
         NEW s \in RacyPush(q, r) \cup {Append(q, r)},
         Sorted(q, T), \A a \in Elements(q) : Before(a, r, T)
  PROVE  /\ s \in Vectors
         /\ Sorted(s, T)
         /\ Elements(q) \subseteq Elements(s)
         /\ Elements(s) \subseteq Elements(q) \cup {r, Hole}
         /\ s = Append(q, r) => r \in Elements(s)
         /\ q # <<>> => Head(s) = Head(q)
<1>1. s \in Vectors
  BY PushTypes
<1>2. q # <<>> => Head(s) = Head(q)
  <2>1. <<Hole, r>> \in Vectors /\ <<r, Hole>> \in Vectors
    BY DEF Vectors
  <2> QED BY <2>1 DEF RacyPush, Vectors
<1> DEFINE one == q \o <<r>>
           null == q \o <<Hole>>
<1>3. /\ one \in Vectors
      /\ Sorted(one, T)
      /\ Elements(one) = Elements(q) \cup {r}
  BY RequestBehind
<1>4. /\ null \in Vectors
      /\ Sorted(null, T)
      /\ Elements(null) = Elements(q) \cup {Hole}
  BY HoleBehind
<1>5. Append(q, r) = one /\ q \o <<Hole, r>> = null \o <<r>> /\ q \o <<r, Hole>> = one \o <<Hole>>
  <2>1. Append(q, r) = one
    BY AppendIsConcat DEF Vectors
  <2>2. <<Hole, r>> = <<Hole>> \o <<r>> /\ <<r, Hole>> = <<r>> \o <<Hole>>
    OBVIOUS
  <2>3. <<Hole>> \in Seq(Requests \cup {Hole}) /\ <<r>> \in Seq(Requests \cup {Hole})
    OBVIOUS
  <2>4. q \in Seq(Requests \cup {Hole})
    BY DEF Vectors
  <2>5. q \o (<<Hole>> \o <<r>>) = null \o <<r>> /\ q \o (<<r>> \o <<Hole>>) = one \o <<Hole>>
    BY <2>3, <2>4, ConcatAssociative
  <2> QED BY <2>1, <2>2, <2>5
<1> HIDE DEF one, null
<1>6. /\ Sorted(one \o <<Hole>>, T)
      /\ Elements(one \o <<Hole>>) = Elements(q) \cup {r, Hole}
  BY <1>3, HoleBehind
<1>7. /\ Sorted(null \o <<r>>, T)
      /\ Elements(null \o <<r>>) = Elements(q) \cup {r, Hole}
  <2>1. Before(Hole, r, T)
    BY HoleBefore
  <2> QED BY <1>4, <2>1, RequestBehind
<1>8. s \in {q, one, null \o <<r>>, one \o <<Hole>>}
  BY <1>5, Zenon DEF RacyPush
<1>9. s = Append(q, r) => r \in Elements(s)
  BY <1>3, <1>5
<1>10. /\ Sorted(s, T)
       /\ Elements(q) \subseteq Elements(s)
       /\ Elements(s) \subseteq Elements(q) \cup {r, Hole}
  <2>1. CASE s = q
    BY <2>1
  <2>2. CASE s = one
    BY <1>3, <2>2
  <2>3. CASE s = null \o <<r>>
    BY <1>7, <2>3
  <2>4. CASE s = one \o <<Hole>>
    BY <1>6, <2>4
  <2> QED BY <1>8, <2>1, <2>2, <2>3, <2>4
<1> QED BY <1>1, <1>2, <1>9, <1>10

(* The pushed request goes to the end of the flow, or is lost in a race.   *)
LEMMA PushEndFlow ==
  ASSUME TypeOK, RequestInv, NEW c \in Cores, PushEnd(c)
  PROVE  /\ Sorted(Flow', tainted)
         /\ Elements(Flow) \subseteq Elements(Flow')
         /\ Elements(Flow') \subseteq Elements(Flow) \cup {out[c], Hole}
         /\ out[c] \notin raced => out[c] \in Elements(Flow')
         /\ FrontTaken'
         /\ UNCHANGED <<printed, InHand>>
<1> DEFINE q == ioRequests
           s == ioRequests'
           r == out[c]
<1>1. printed \in Vectors /\ InHand \in Vectors /\ q \in Vectors /\ r \in Requests \cup {Hole}
  BY FlowTypes DEF TypeOK
<1>2. UNCHANGED <<printed, InHand, rpc>>
  BY DEF PushEnd, InHand
<1>3. s \in RacyPush(q, r) \cup {Append(q, r)} /\ (r \notin raced => s = Append(q, r))
  BY DEF PushEnd
<1>4. \A a \in Elements(Flow) : Before(a, r, tainted)
  BY DEF RequestInv, PushesFresh, PushEnd
<1>5. Flow = printed \o InHand \o q /\ Flow' = printed \o InHand \o s
  BY <1>2 DEF Flow
<1>6. Sorted(Flow, tainted) /\ FrontTaken
  BY DEF RequestInv
<1>7. rpc \in {"raise", "erase"} => q # <<>>
  BY DEF TypeOK
<1> HIDE DEF q, s, r
<1>8. /\ Elements(Flow) = Elements(printed) \cup Elements(InHand) \cup Elements(q)
      /\ Sorted(printed, tainted) /\ Sorted(InHand, tainted) /\ Sorted(q, tainted)
      /\ \A a \in Elements(printed), b \in Elements(InHand) : Before(a, b, tainted)
      /\ \A a \in Elements(printed) \cup Elements(InHand), b \in Elements(q) :
           Before(a, b, tainted)
  BY <1>1, <1>5, <1>6, ThreeParts
<1>9. /\ s \in Vectors
      /\ Sorted(s, tainted)
      /\ Elements(q) \subseteq Elements(s)
      /\ Elements(s) \subseteq Elements(q) \cup {r, Hole}
      /\ s = Append(q, r) => r \in Elements(s)
      /\ q # <<>> => Head(s) = Head(q)
  BY <1>1, <1>3, <1>4, <1>8, Pushed
<1>10. \A a \in Elements(printed) \cup Elements(InHand) : Before(a, Hole, tainted)
  BY <1>1, ElementsTyped, HoleBefore
<1>11. \A a \in Elements(printed) \cup Elements(InHand), b \in Elements(s) :
         Before(a, b, tainted)
  BY <1>4, <1>8, <1>9, <1>10
<1>12. /\ Elements(Flow') = Elements(printed) \cup Elements(InHand) \cup Elements(s)
       /\ Sorted(Flow', tainted)
  <2>1. Elements(Flow') = Elements(printed) \cup Elements(InHand) \cup Elements(s)
    BY <1>1, <1>5, <1>9, ThreeParts
  <2>2. Sorted(Flow', tainted)
    BY <1>1, <1>5, <1>8, <1>9, <1>11, ThreeParts
  <2> QED BY <2>1, <2>2
<1>13. FrontTaken'
  BY <1>2, <1>6, <1>7, <1>9 DEF FrontTaken, q, s
<1>14. r \notin raced => r \in Elements(Flow')
  BY <1>3, <1>9, <1>12
<1>15. /\ Elements(Flow) \subseteq Elements(Flow')
       /\ Elements(Flow') \subseteq Elements(Flow) \cup {r, Hole}
  BY <1>8, <1>9, <1>12
<1> QED BY <1>2, <1>12, <1>13, <1>14, <1>15 DEF r

-----------------------------------------------------------------------------
(* The invariant.                                                          *)

(* At the start nothing was raised.                                        *)
LEMMA InitRequest == Init => RequestInv
<1> SUFFICES ASSUME Init PROVE RequestInv
  OBVIOUS
<1>1. InHand = <<>> /\ Flow = <<>>
  BY DEF Init, InHand, Flow
<1>2. Elements(Flow) = {} /\ Sorted(Flow, tainted)
  BY <1>1, EmptySorted
<1>3. \A r \in Requests : ~Owed(r)
  BY DEF Init, Owed, Requests
<1>4. Alone /\ PushesFresh /\ FrontTaken
  BY DEF Init, Alone, InCore, PushesFresh, FrontTaken
<1>5. Accounted
  BY <1>2, <1>3 DEF Accounted
<1> QED BY <1>2, <1>4, <1>5 DEF RequestInv

(* Only the claim of a process lets a second core into it, and that shares *)
(* its registers (main.cpp:45-52).                                         *)
LEMMA CoreAlone ==
  ASSUME TypeOK, Alone, NEW c \in Cores, CoreStep(c)
  PROVE  Alone'
<1> USE DEF TypeOK, Alone, InCore
<1>1. CASE CoreClaim(c)
  BY <1>1 DEF CoreClaim, Goto
<1>2. CASE PushBegin(c)
  BY <1>2 DEF PushBegin, Unfinished, Goto
<1>3. CASE PushEnd(c)
  BY <1>3 DEF PushEnd, Goto
<1>4. CASE TestPrintLock(c)
  BY <1>4 DEF TestPrintLock, Goto
<1>5. CASE Block(c)
  BY <1>5 DEF Block, Goto
<1>6. CASE Yield(c)
  BY <1>6 DEF Yield, Goto
<1>7. CASE Finish(c)
  BY <1>7 DEF Finish, Goto
<1>8. CASE RaceAborts(c) \/ RaceNulls(c)
  BY <1>8 DEF RaceAborts, RaceNulls
<1>9. CASE /\ UNCHANGED <<tainted, ended>>
           /\ \A d \in Cores : cpc'[d] \in InCore => cpc'[d] = cpc[d] /\ pcb'[d] = pcb[d]
  BY <1>9
<1>10. CASE \/ CoreLoop(c) \/ CoreLock(c) \/ CoreScan(c) \/ CoreRecheck(c)
            \/ CoreRelock(c) \/ CoreCheck(c) \/ CoreReady(c)
  BY <1>9, <1>10 DEF CoreLoop, CoreLock, CoreScan, CoreRecheck, CoreRelock,
     CoreCheck, CoreReady, NextPcb, Goto
<1> QED BY <1>1, <1>2, <1>3, <1>4, <1>5, <1>6, <1>7, <1>8, <1>10 DEF CoreStep

(* A step that touches neither the requests nor the cores that push them   *)
(* keeps what is said of both.                                             *)
Quiet ==
  /\ UNCHANGED <<printed, ioRequests, rpc, req, raised, raced, spc, shutdown, out>>
  /\ tainted \subseteq tainted'
  /\ \A d \in Cores : /\ cpc'[d] = "push" <=> cpc[d] = "push"
                      /\ cpc[d] = "push" => pcb'[d] = pcb[d]

LEMMA QuietKeeps ==
  ASSUME TypeOK, RequestInv, Quiet
  PROVE  PushesFresh' /\ Accounted' /\ FrontTaken' /\ Sorted(Flow', tainted')
<1>1. InHand' = InHand /\ Flow' = Flow
  BY DEF Quiet, InHand, Flow
<1>2. Sorted(Flow', tainted')
  BY <1>1, SharedMore DEF RequestInv, Quiet
<1>3. FrontTaken'
  BY DEF RequestInv, Quiet, FrontTaken
<1>4. PushesFresh'
  <2>1. \A a, b : Before(a, b, tainted) => Before(a, b, tainted')
    BY DEF Before, Quiet
  <2> QED BY <1>1, <2>1 DEF RequestInv, Quiet, PushesFresh
<1>5. Accounted'
  <2>1. Pushing' = Pushing
    BY DEF Quiet, Pushing
  <2>2. \A r : Owed(r)' => Owed(r)
    BY DEF Quiet, Owed
  <2> QED BY <1>1, <2>1, <2>2 DEF RequestInv, Quiet, Accounted
<1> QED BY <1>2, <1>3, <1>4, <1>5

(* A new request is the last of its process (CONTROL_UNIT.cpp:452-456).    *)
LEMMA BeginKeeps ==
  ASSUME TypeOK, KernelInv, RequestInv, NEW c \in Cores, PushBegin(c)
  PROVE  PushesFresh' /\ Accounted' /\ FrontTaken' /\ Sorted(Flow', tainted')
<1> DEFINE p == pcb[c]
           r == [proc |-> p, num |-> raised[p] + 1]
<1>1. /\ p \in Procs /\ raised[p] \in Nat /\ raised[p] + 1 \in Nat
      /\ cpc[c] = "run" /\ Unfinished(p)
  BY DEF TypeOK, PushBegin
<1>2. /\ UNCHANGED <<printed, ioRequests, rpc, req, tainted, pcb, spc, shutdown>>
      /\ raced \subseteq raced'
      /\ raised' = [raised EXCEPT ![p] = @ + 1]
      /\ out' = [out EXCEPT ![c] = r]
      /\ cpc' = [cpc EXCEPT ![c] = "push"]
  BY DEF PushBegin, Goto
<1>3. InHand' = InHand /\ Flow' = Flow
  BY <1>2 DEF InHand, Flow
<1>4. FrontTaken' /\ Sorted(Flow', tainted')
  BY <1>2, <1>3 DEF RequestInv, FrontTaken
<1>5. /\ \A q \in Procs : raised[q] \in Nat /\ raised'[q] \in Nat /\ raised[q] <= raised'[q]
      /\ raised'[p] = raised[p] + 1
  BY <1>1, <1>2 DEF TypeOK
<1>6. /\ \A d \in Cores \ {c} : cpc'[d] = cpc[d] /\ out'[d] = out[d] /\ pcb'[d] = pcb[d]
      /\ cpc'[c] = "push" /\ out'[c] = r /\ pcb'[c] = p
  BY <1>2 DEF TypeOK
<1>7. \A a \in Elements(Flow) : a \in Requests \cup {Hole}
  BY FlowTypes, ElementsTyped
<1>8. r.proc = p /\ r.num = raised[p] + 1
  OBVIOUS
<1> HIDE DEF r
<1>9. \A a \in Elements(Flow) : Before(a, r, tainted)
  <2> SUFFICES ASSUME NEW a \in Elements(Flow), a # Hole
               PROVE  a # r /\ (a.proc = p => a.num < r.num)
    BY <1>8 DEF Before
  <2>1. a \in Requests /\ a.num <= raised[a.proc]
    BY <1>7 DEF RequestInv, Accounted
  <2>2. a.num \in Nat
    BY <2>1, KernelAssumption DEF Requests
  <2>3. a.proc = p => a.num < r.num
    BY <1>1, <1>8, <2>1, <2>2
  <2>4. a # r
    BY <1>1, <1>8, <2>2, <2>3
  <2> QED BY <2>3, <2>4
<1>10. PushesFresh'
  <2> SUFFICES ASSUME NEW d \in Cores, cpc'[d] = "push"
               PROVE  /\ out'[d].proc = pcb'[d]
                      /\ out'[d].num <= raised'[pcb'[d]]
                      /\ \A e \in Cores : cpc'[e] = "push" /\ out'[e] = out'[d] => e = d
                      /\ \A a \in Elements(Flow) : Before(a, out'[d], tainted)
    BY <1>2, <1>3 DEF PushesFresh
  <2>1. ASSUME NEW e \in Cores \ {c}, cpc[e] = "push"
        PROVE  /\ out[e].proc = pcb[e] /\ out[e].num <= raised[pcb[e]]
               /\ out[e] # r
               /\ out[e].num <= raised'[pcb[e]]
    <3>1. out[e].proc = pcb[e] /\ out[e].num <= raised[pcb[e]]
      BY <2>1 DEF RequestInv, PushesFresh
    <3>2. pcb[e] \in Procs /\ out[e].num \in Nat
      BY <2>1, KernelAssumption DEF TypeOK, Requests, Hole
    <3>3. out[e] # r
      BY <1>1, <1>8, <3>1, <3>2
    <3>4. out[e].num <= raised'[pcb[e]]
      BY <1>5, <3>1, <3>2
    <3> QED BY <3>1, <3>3, <3>4
  <2>2. CASE d = c
    <3>1. \A e \in Cores : cpc'[e] = "push" /\ out'[e] = out'[d] => e = d
      BY <1>6, <2>1, <2>2
    <3>2. out'[d].num <= raised'[pcb'[d]]
      BY <1>1, <1>5, <1>6, <1>8, <2>2
    <3> QED BY <1>6, <1>8, <1>9, <2>2, <3>1, <3>2
  <2>3. CASE d # c
    <3>1. cpc[d] = "push" /\ out'[d] = out[d] /\ pcb'[d] = pcb[d]
      BY <1>6, <2>3
    <3>2. \A e \in Cores : cpc'[e] = "push" /\ out'[e] = out'[d] => e = d
      BY <1>6, <2>1, <2>3, <3>1 DEF RequestInv, PushesFresh
    <3>3. \A a \in Elements(Flow) : Before(a, out[d], tainted)
      BY <3>1 DEF RequestInv, PushesFresh
    <3> QED BY <2>1, <2>3, <3>1, <3>2, <3>3
  <2> QED BY <2>2, <2>3
<1>11. Accounted'
  <2>1. \A a \in Elements(Flow) \ {Hole} : a.num <= raised'[a.proc]
    <3> SUFFICES ASSUME NEW a \in Elements(Flow) \ {Hole} PROVE a.num <= raised'[a.proc]
      OBVIOUS
    <3>1. a \in Requests /\ a.num <= raised[a.proc]
      BY <1>7 DEF RequestInv, Accounted
    <3>2. a.num \in Nat /\ a.proc \in Procs
      BY <3>1, KernelAssumption DEF Requests
    <3> QED BY <1>5, <3>1, <3>2
  <2>2. Pushing \cup {r} \subseteq Pushing'
    <3>1. \A d \in Cores : cpc[d] = "push" => d # c
      BY <1>1
    <3> QED BY <1>6, <3>1 DEF Pushing
  <2>3. \A q \in Requests : Owed(q)' => Owed(q) \/ q = r
    <3> SUFFICES ASSUME NEW q \in Requests, Owed(q)', q # r PROVE Owed(q)
      OBVIOUS
    <3>1. q.proc \in Procs /\ q.num \in Nat /\ q = [proc |-> q.proc, num |-> q.num]
      BY KernelAssumption DEF Requests
    <3>2. q.num <= raised'[q.proc] /\ q.proc \notin tainted /\ q \notin raced
      BY <1>2 DEF Owed
    <3>3. q.num <= raised[q.proc]
      <4>1. CASE q.proc # p
        BY <1>2, <3>1, <3>2, <4>1 DEF TypeOK
      <4>2. CASE q.proc = p
        <5>1. q.num # raised[p] + 1
          BY <3>1, <4>2 DEF r
        <5> QED BY <1>1, <1>5, <3>1, <3>2, <4>2, <5>1
      <4> QED BY <4>1, <4>2
    <3> QED BY <3>2, <3>3 DEF Owed
  <2>4. ASSUME NEW q \in Requests, Owed(q)'
        PROVE  q \in Elements(Flow) \cup Pushing'
    BY <2>2, <2>3, <2>4 DEF RequestInv, Accounted
  <2>5. ASSUME spc = "decide" \/ shutdown, NEW q \in Requests, Owed(q)'
        PROVE  q \in Elements(printed \o InHand)
    <3>1. p \in ended
      BY <1>1, <2>5 DEF KernelInv, SeenEnded
    <3>2. q # r
      BY <1>1, <1>2, <1>8, <2>5, <3>1 DEF Unfinished, Owed
    <3> QED BY <2>3, <2>5, <3>2 DEF RequestInv, Accounted
  <2> QED BY <1>2, <1>3, <2>1, <2>4, <2>5 DEF Accounted
<1> QED BY <1>4, <1>10, <1>11

(* Two cores push requests of one process only if they share its registers,*)
(* so the vector has the requests of the others in their order.            *)
LEMMA EndKeeps ==
  ASSUME TypeOK, RequestInv, NEW c \in Cores, PushEnd(c)
  PROVE  PushesFresh' /\ Accounted' /\ FrontTaken' /\ Sorted(Flow', tainted')
<1> DEFINE r == out[c]
<1>1. /\ Sorted(Flow', tainted)
      /\ Elements(Flow) \subseteq Elements(Flow')
      /\ Elements(Flow') \subseteq Elements(Flow) \cup {r, Hole}
      /\ r \notin raced => r \in Elements(Flow')
      /\ FrontTaken'
      /\ UNCHANGED <<printed, InHand>>
  BY PushEndFlow
<1>2. /\ UNCHANGED <<raised, raced, tainted, pcb, spc, shutdown>>
      /\ cpc[c] = "push"
      /\ cpc'[c] # "push"
      /\ \A d \in Cores \ {c} : cpc'[d] = cpc[d] /\ out'[d] = out[d]
  BY DEF TypeOK, PushEnd, Goto
<1>3. /\ r.proc = pcb[c] /\ r.num <= raised[pcb[c]]
      /\ \A d \in Cores : cpc[d] = "push" /\ out[d] = r => d = c
  BY <1>2 DEF RequestInv, PushesFresh
<1> HIDE DEF r
<1>4. PushesFresh'
  <2> SUFFICES ASSUME NEW d \in Cores, cpc'[d] = "push"
               PROVE  /\ out'[d].proc = pcb'[d]
                      /\ out'[d].num <= raised'[pcb'[d]]
                      /\ \A e \in Cores : cpc'[e] = "push" /\ out'[e] = out'[d] => e = d
                      /\ \A a \in Elements(Flow') : Before(a, out'[d], tainted)
    BY <1>2 DEF PushesFresh
  <2>1. d # c /\ cpc[d] = "push" /\ out'[d] = out[d] /\ out[d] \in Requests \cup {Hole}
    BY <1>2 DEF TypeOK
  <2>2. /\ out[d].proc = pcb[d] /\ out[d].num <= raised[pcb[d]]
        /\ \A e \in Cores : cpc[e] = "push" /\ out[e] = out[d] => e = d
        /\ \A a \in Elements(Flow) : Before(a, out[d], tainted)
    BY <2>1 DEF RequestInv, PushesFresh
  <2>3. Before(r, out[d], tainted)
    <3>1. r # out[d]
      BY <1>3, <2>1
    <3>2. r.proc = out[d].proc => r.proc \in tainted
      <4> SUFFICES ASSUME pcb[c] = pcb[d], pcb[c] \notin tainted PROVE FALSE
        BY <1>3, <2>2
      <4>1. pcb[c] \in Procs
        BY DEF TypeOK
      <4> QED BY <1>2, <2>1, <4>1 DEF RequestInv, Alone, InCore
    <3> QED BY <3>1, <3>2 DEF Before
  <2>4. \A a \in Elements(Flow') : Before(a, out[d], tainted)
    BY <1>1, <2>1, <2>2, <2>3, HoleBefore
  <2>5. \A e \in Cores : cpc'[e] = "push" /\ out'[e] = out'[d] => e = d
    BY <1>2, <2>1, <2>2
  <2> QED BY <1>2, <2>1, <2>2, <2>4, <2>5
<1>5. Accounted'
  <2>1. \A a \in Elements(Flow') \ {Hole} : a.num <= raised[a.proc]
    BY <1>1, <1>3 DEF RequestInv, Accounted
  <2>2. \A q : Owed(q)' <=> Owed(q)
    BY <1>2 DEF Owed
  <2>3. Pushing \ {r} \subseteq Pushing'
    BY <1>2 DEF Pushing, r
  <2>4. ASSUME NEW q \in Requests, Owed(q)
        PROVE  q \in Elements(Flow') \cup Pushing'
    <3>1. q \in Elements(Flow) \cup Pushing
      BY <2>4 DEF RequestInv, Accounted
    <3>2. q \notin raced
      BY <2>4 DEF Owed
    <3> QED BY <1>1, <2>3, <3>1, <3>2
  <2>5. spc = "decide" \/ shutdown =>
          \A q \in Requests : Owed(q) => q \in Elements(printed' \o InHand')
    BY <1>1 DEF RequestInv, Accounted
  <2> QED BY <1>2, <2>1, <2>2, <2>4, <2>5 DEF Accounted
<1> QED BY <1>1, <1>2, <1>4, <1>5

(* A null takes a request out of the flow, which is then one that the race *)
(* may have lost.                                                          *)
LEMMA NullKeeps ==
  ASSUME TypeOK, RequestInv, NEW c \in Cores, RaceNulls(c)
  PROVE  PushesFresh' /\ Accounted' /\ FrontTaken' /\ Sorted(Flow', tainted')
<1>1. PICK i \in 1..Len(ioRequests) :
        /\ ioRequests[i] # Hole
        /\ ioRequests' = [ioRequests EXCEPT ![i] = Hole]
        /\ raced' = raced \cup {ioRequests[i]}
  BY DEF RaceNulls
<1>2. UNCHANGED <<printed, rpc, req, raised, tainted, cpc, pcb, out, spc, shutdown>>
  BY DEF RaceNulls
<1>3. InHand' = InHand /\ Pushing' = Pushing
  BY <1>2 DEF InHand, Pushing
<1> DEFINE q == ioRequests
           s == ioRequests'
           r == ioRequests[i]
<1>4. printed \in Vectors /\ InHand \in Vectors /\ q \in Vectors
  BY FlowTypes
<1>5. Flow = printed \o InHand \o q /\ Flow' = printed \o InHand \o s
  BY <1>2, <1>3 DEF Flow
<1>6. Sorted(Flow, tainted) /\ FrontTaken
  BY DEF RequestInv
<1>7. /\ Elements(Flow) = Elements(printed) \cup Elements(InHand) \cup Elements(q)
      /\ Sorted(printed, tainted) /\ Sorted(InHand, tainted) /\ Sorted(q, tainted)
      /\ \A a \in Elements(printed), b \in Elements(InHand) : Before(a, b, tainted)
      /\ \A a \in Elements(printed) \cup Elements(InHand), b \in Elements(q) :
           Before(a, b, tainted)
  <2> HIDE DEF q
  <2> QED BY <1>4, <1>5, <1>6, ThreeParts
<1>8. /\ s \in Vectors
      /\ Sorted(s, tainted)
      /\ Elements(q) \subseteq Elements(s) \cup {r}
      /\ Elements(s) \subseteq Elements(q) \cup {Hole}
      /\ Head(q) = Hole => Head(s) = Hole
  BY <1>1, <1>4, <1>7, HoleWithin
<1>9. FrontTaken'
  BY <1>2, <1>6, <1>8 DEF FrontTaken
<1> HIDE DEF q, s, r
<1>10. \A a \in Elements(printed) \cup Elements(InHand) : Before(a, Hole, tainted)
  BY <1>4, ElementsTyped, HoleBefore
<1>11. \A a \in Elements(printed) \cup Elements(InHand), b \in Elements(s) :
         Before(a, b, tainted)
  BY <1>7, <1>8, <1>10
<1>12. Sorted(Flow', tainted)
  BY <1>4, <1>5, <1>7, <1>8, <1>11, ThreeParts
<1>13. Elements(Flow') = Elements(printed) \cup Elements(InHand) \cup Elements(s)
  BY <1>4, <1>5, <1>8, ThreeParts
<1>14. /\ Elements(Flow) \subseteq Elements(Flow') \cup {r}
       /\ Elements(Flow') \subseteq Elements(Flow) \cup {Hole}
  BY <1>7, <1>8, <1>13
<1>15. PushesFresh'
  <2>1. \A d \in Cores : out[d] \in Requests \cup {Hole}
    BY DEF TypeOK
  <2>2. \A d \in Cores : cpc[d] = "push" =>
          \A a \in Elements(Flow') : Before(a, out[d], tainted)
    BY <1>14, <2>1, HoleBefore DEF RequestInv, PushesFresh
  <2> QED BY <1>2, <2>2 DEF RequestInv, PushesFresh
<1>16. Accounted'
  <2>1. \A a : Owed(a)' => Owed(a) /\ a # r
    BY <1>1, <1>2 DEF Owed, r
  <2>2. \A a \in Elements(Flow') \ {Hole} : a.num <= raised[a.proc]
    BY <1>14 DEF RequestInv, Accounted
  <2>3. ASSUME NEW a \in Requests, Owed(a)' PROVE a \in Elements(Flow') \cup Pushing
    BY <1>14, <2>1, <2>3 DEF RequestInv, Accounted
  <2>4. spc = "decide" \/ shutdown =>
          \A a \in Requests : Owed(a)' => a \in Elements(printed \o InHand)
    BY <2>1 DEF RequestInv, Accounted
  <2> QED BY <1>2, <1>3, <2>2, <2>3, <2>4 DEF Accounted
<1> QED BY <1>2, <1>9, <1>12, <1>15, <1>16

(* The other steps of a core are quiet.                                    *)
LEMMA CoreRequest ==
  ASSUME TypeOK, KernelInv, RequestInv, NEW c \in Cores, CoreStep(c)
  PROVE  RequestInv'
<1>1. Alone'
  BY CoreAlone DEF RequestInv
<1>2. CASE PushBegin(c)
  BY <1>1, <1>2, BeginKeeps DEF RequestInv
<1>3. CASE PushEnd(c)
  BY <1>1, <1>3, EndKeeps DEF RequestInv
<1>4. CASE RaceNulls(c)
  BY <1>1, <1>4, NullKeeps DEF RequestInv
<1>5. CASE ~PushBegin(c) /\ ~PushEnd(c) /\ ~RaceNulls(c)
  <2> USE DEF TypeOK, Quiet, Goto
  <2>1. Quiet
    <3>1. CASE CoreLoop(c) \/ CoreLock(c) \/ CoreScan(c) \/ CoreRecheck(c)
      BY <3>1 DEF CoreLoop, CoreLock, CoreScan, CoreRecheck, NextPcb
    <3>2. CASE CoreClaim(c) \/ RaceAborts(c) \/ TestPrintLock(c) \/ Block(c)
      BY <3>2 DEF CoreClaim, RaceAborts, TestPrintLock, Block
    <3>3. CASE Yield(c) \/ Finish(c)
      BY <3>3 DEF Yield, Finish
    <3>4. CASE CoreRelock(c) \/ CoreCheck(c) \/ CoreReady(c)
      BY <3>4 DEF CoreRelock, CoreCheck, CoreReady
    <3> QED BY <1>5, <3>1, <3>2, <3>3, <3>4 DEF CoreStep
  <2> QED BY <1>1, <2>1, QuietKeeps DEF RequestInv
<1> QED BY <1>2, <1>3, <1>4, <1>5

(* The scheduler looks at ioRequests when every program has ended: nobody  *)
(* is inside a push_back then, except for a process that shares registers. *)
LEMMA SchedRequest ==
  ASSUME TypeOK, KernelInv, RequestInv, SchedStep
  PROVE  RequestInv'
<1>1. /\ UNCHANGED <<cpc, pcb, out, tainted, ended, raised, raced>>
      /\ UNCHANGED <<printed, ioRequests, rpc, req>>
  BY DEF SchedStep, SchedLoop, SchedLock, SchedScan, SchedQueue, SchedDecide
<1>2. InHand' = InHand /\ Flow' = Flow /\ Pushing' = Pushing
  BY <1>1 DEF InHand, Flow, Pushing
<1>3. Alone' /\ PushesFresh' /\ FrontTaken' /\ Sorted(Flow', tainted')
  BY <1>1, <1>2 DEF RequestInv, Alone, PushesFresh, FrontTaken
<1>4. \A r : Owed(r)' <=> Owed(r)
  BY <1>1 DEF Owed
<1>5. CASE (spc' = "decide" \/ shutdown') => (spc = "decide" \/ shutdown)
  <2>1. Accounted'
    BY <1>1, <1>2, <1>4, <1>5 DEF RequestInv, Accounted
  <2> QED BY <1>3, <2>1 DEF RequestInv
<1>6. CASE spc = "queue" /\ ioRequests = <<>>
  <2>1. ASSUME NEW r \in Requests, Owed(r) PROVE r \in Elements(printed \o InHand)
    <3>1. r \notin Pushing
      <4> SUFFICES ASSUME NEW d \in Cores, cpc[d] = "push", out[d] = r PROVE FALSE
        BY DEF Pushing
      <4>1. pcb[d] \in Procs /\ pcb[d] \in ended /\ pcb[d] \notin tainted
        BY <1>6, <2>1 DEF TypeOK, KernelInv, SeenEnded, RequestInv, PushesFresh, Owed
      <4> QED BY <4>1 DEF RequestInv, Alone, InCore
    <3>2. r \in Elements(Flow)
      BY <2>1, <3>1 DEF RequestInv, Accounted
    <3>3. Flow = printed \o InHand
      <4>1. printed \o InHand \in Seq(Requests \cup {Hole})
        BY FlowTypes DEF Vectors
      <4> QED BY <1>6, <4>1 DEF Flow
    <3> QED BY <3>2, <3>3
  <2>2. Accounted'
    BY <1>1, <1>2, <1>4, <2>1 DEF RequestInv, Accounted
  <2> QED BY <1>3, <2>2 DEF RequestInv
<1>7. CASE ~(spc = "queue" /\ ioRequests = <<>>)
  <2>1. (spc' = "decide" \/ shutdown') => (spc = "decide" \/ shutdown)
    BY <1>7 DEF SchedStep, SchedLoop, SchedLock, SchedScan, SchedQueue, SchedDecide
  <2> QED BY <1>5, <2>1
<1> QED BY <1>6, <1>7

LEMMA RMRequest ==
  ASSUME TypeOK, RequestInv, RMStep
  PROVE  RequestInv'
<1>1. /\ UNCHANGED <<cpc, pcb, out, tainted, ended, raised, spc, shutdown>>
      /\ raced \subseteq raced'
  BY DEF RMStep, RMLoop, RMPoll, RMTake, RMRaise, RMErase, RMPrint, RMWake, RMLower
<1>2. /\ Sorted(Flow', tainted)
      /\ Elements(Flow') \ {Hole} = Elements(Flow) \ {Hole}
      /\ FrontTaken'
  BY RMKeepsFlow DEF RequestInv, KeepsFlow
<1>3. Elements(printed \o InHand) \subseteq Elements(printed' \o InHand')
  BY RMDelivers DEF RequestInv
<1>4. Alone'
  BY <1>1 DEF RequestInv, Alone
<1>5. PushesFresh'
  <2>1. \A c \in Cores : out[c] \in Requests \cup {Hole}
    BY DEF TypeOK
  <2>2. \A c \in Cores : cpc[c] = "push" =>
          \A a \in Elements(Flow') : Before(a, out[c], tainted)
    BY <1>2, <2>1, HoleBefore DEF RequestInv, PushesFresh
  <2> QED BY <1>1, <2>2 DEF RequestInv, PushesFresh
<1>6. Accounted'
  <2>1. \A r : Owed(r)' => Owed(r)
    BY <1>1 DEF Owed
  <2>2. \A r \in Requests : r # Hole
    BY DEF Requests, Procs, Hole
  <2>3. Pushing' = Pushing
    BY <1>1 DEF Pushing
  <2>4. \A a \in Elements(Flow') \ {Hole} : a.num <= raised[a.proc]
    BY <1>2 DEF RequestInv, Accounted
  <2>5. ASSUME NEW r \in Requests, Owed(r) PROVE r \in Elements(Flow') \cup Pushing
    BY <1>2, <2>2, <2>5 DEF RequestInv, Accounted
  <2>6. spc = "decide" \/ shutdown =>
          \A r \in Requests : Owed(r) => r \in Elements(printed' \o InHand')
    BY <1>3 DEF RequestInv, Accounted
  <2> QED BY <1>1, <2>1, <2>3, <2>4, <2>5, <2>6 DEF Accounted
<1> QED BY <1>1, <1>2, <1>4, <1>5, <1>6 DEF RequestInv

LEMMA NextRequest == TypeOK /\ KernelInv /\ RequestInv /\ [Next]_vars => RequestInv'
<1> SUFFICES ASSUME TypeOK, KernelInv, RequestInv, [Next]_vars PROVE RequestInv'
  OBVIOUS
<1>1. CASE UNCHANGED vars
  <2>1. InHand' = InHand /\ Flow' = Flow /\ Pushing' = Pushing
    BY <1>1 DEF vars, InHand, Flow, Pushing
  <2>2. Accounted'
    <3>1. \A r : Owed(r)' <=> Owed(r)
      BY <1>1 DEF vars, Owed
    <3> QED BY <1>1, <2>1, <3>1 DEF RequestInv, Accounted, vars
  <2>3. Alone' /\ PushesFresh' /\ FrontTaken' /\ Sorted(Flow', tainted')
    BY <1>1, <2>1 DEF RequestInv, Alone, PushesFresh, FrontTaken, vars
  <2> QED BY <2>2, <2>3 DEF RequestInv
<1>2. CASE \E c \in Cores : CoreStep(c)
  BY <1>2, CoreRequest
<1>3. CASE SchedStep
  BY <1>3, SchedRequest
<1>4. CASE RMStep
  BY <1>4, RMRequest
<1> QED BY <1>1, <1>2, <1>3, <1>4 DEF Next, Stopped

-----------------------------------------------------------------------------
(* The theorems.                                                           *)

(* The inductive invariant: a request is of the process whose core pushes  *)
(* it, comes after all that were pushed, and stays in the vector, in the   *)
(* hand of the resource manager or on the screen.                          *)
THEOREM Requested == Spec => []RequestInv
<1>1. TypeOK /\ KernelInv /\ RequestInv /\ [Next]_vars => RequestInv'
  BY NextRequest
<1> QED BY <1>1, InitRequest, Types, Invariance, PTL DEF Spec

(* Any number of cores: what is printed, in hand or pending is in program  *)
(* order process by process, and nothing is there twice                    *)
(* (CONTROL_UNIT.cpp:180, 456; main.cpp:103-106).                          *)
THEOREM Ordered == Spec => []OutputInOrder
<1>1. RequestInv => OutputInOrder
  BY DEF RequestInv, OutputInOrder
<1> QED BY <1>1, Requested, PTL

(* When shutdown is raised every print that was owed is on the screen or   *)
(* in the hand of the resource manager (main.cpp:69-88, 99-116).           *)
THEOREM Delivered == Spec => []NothingLost
<1>1. RequestInv => NothingLost
  BY DEF RequestInv, Accounted, NothingLost
<1> QED BY <1>1, Requested, PTL

(* The request in hand was not shown before.                               *)
LEMMA ShownOnce ==
  ASSUME TypeOK, RequestInv, rpc = "print", req # Hole
  PROVE  ~Promised!Shown(req)
<1>1. printed \in Vectors /\ ioRequests \in Vectors /\ req \in Requests \cup {Hole}
  BY FlowTypes DEF TypeOK
<1> DEFINE h == <<req>>
<1>2. h \in Vectors /\ Elements(h) = {req}
  BY <1>1, RequestVector
<1>3. Sorted(printed \o h \o ioRequests, tainted)
  BY DEF RequestInv, Flow, InHand
<1> HIDE DEF h
<1>4. \A a \in Elements(printed), b \in Elements(h) : Before(a, b, tainted)
  BY <1>1, <1>2, <1>3, ThreeParts
<1>5. req \notin Elements(printed)
  BY <1>2, <1>4 DEF Before
<1> QED BY <1>5 DEF Promised!Shown, Elements

(* What a user sees of the threads.                                        *)
Seen == <<ended, printed, shutdown, Closed>>

(* The threads implement module Simulator: every step of theirs ends a     *)
(* program, shows a new print, stops when all programs have ended, leaves  *)
(* nothing to show after that, or is not seen from outside.                *)
THEOREM Implementation == Spec => ImplementsSimulator
<1>1. Init => Promised!Init
  BY DEF Init, Promised!Init, Closed
<1>2. ASSUME TypeOK, KernelInv, RequestInv, [Next]_vars
      PROVE  [Promised!Next]_Seen
  <2>1. CASE UNCHANGED Seen
    BY <2>1
  <2>2. ASSUME NEW c \in Cores, Finish(c)
        PROVE  Promised!Next \/ UNCHANGED Seen
    <3>1. pcb[c] \in Procs
      BY <1>2 DEF TypeOK
    <3>2. ended' = ended \cup {pcb[c]} /\ UNCHANGED <<printed, shutdown, rpc>>
      BY <2>2 DEF Finish, callRest, rmVars
    <3>3. UNCHANGED Closed
      BY <3>2 DEF Closed
    <3>4. CASE pcb[c] \in ended
      <4>1. ended' = ended
        BY <3>2, <3>4
      <4> QED BY <3>2, <3>3, <4>1 DEF Seen
    <3>5. CASE pcb[c] \notin ended
      <4>1. Promised!EndOf(pcb[c])
        BY <3>2, <3>3, <3>5, Zenon DEF Promised!EndOf
      <4> QED BY <3>1, <4>1 DEF Promised!Next
    <3> QED BY <3>4, <3>5
  <2>3. ASSUME SchedDecide PROVE Promised!Next
    <3>1. ended = Procs
      BY <1>2, <2>3 DEF SchedDecide, TypeOK, KernelInv, SeenEnded
    <3>2. shutdown' = TRUE /\ UNCHANGED <<ended, printed, rpc>>
      BY <2>3 DEF SchedDecide, schedRest, rmVars
    <3>3. Closed' \in {Closed, TRUE}
      BY <3>2 DEF Closed
    <3>4. Promised!Stop
      BY <3>1, <3>2, <3>3, Zenon DEF Promised!Stop
    <3> QED BY <3>4 DEF Promised!Next
  <2>4. ASSUME RMPrint, req # Hole
        PROVE  Promised!Next
    <3>1. req \in Requests /\ ~Promised!Shown(req)
      BY <1>2, <2>4, ShownOnce DEF TypeOK, RMPrint
    <3>2. printed' = Append(printed, req) /\ UNCHANGED <<ended, shutdown>>
      BY <2>4 DEF RMPrint, rmRest
    <3>3. ~Closed /\ Closed' = shutdown
      <4>1. rpc = "print" /\ rpc' = "wake" /\ shutdown' = shutdown /\ shutdown \in BOOLEAN
        BY <1>2, <2>4 DEF RMPrint, rmRest, TypeOK
      <4> QED BY <4>1 DEF Closed
    <3>4. Promised!Show(req)
      BY <3>1, <3>2, <3>3, Zenon DEF Promised!Show
    <3> QED BY <3>1, <3>4 DEF Promised!Next
  <2>5. ASSUME RMPoll PROVE Promised!Next \/ UNCHANGED Seen
    <3>1. UNCHANGED <<ended, printed, shutdown>> /\ rpc' \in {"loop", "take"} /\ rpc = "poll"
      BY <2>5 DEF RMPoll, rmRest
    <3>2. CASE shutdown /\ rpc' = "loop"
      <4>1. Closed' = TRUE
        BY <3>1, <3>2 DEF Closed
      <4>2. Promised!Close
        BY <3>1, <3>2, <4>1, Zenon DEF Promised!Close
      <4> QED BY <4>2 DEF Promised!Next
    <3>3. CASE ~(shutdown /\ rpc' = "loop")
      <4>1. UNCHANGED Closed
        BY <3>1, <3>3 DEF Closed
      <4> QED BY <3>1, <4>1 DEF Seen
    <3> QED BY <3>2, <3>3
  <2>6. CASE Next
    <3>1. ASSUME NEW c \in Cores, CoreStep(c), ~Finish(c)
          PROVE  UNCHANGED Seen
      <4>1. UNCHANGED <<ended, printed, shutdown, rpc>>
        BY <3>1 DEF CoreStep, CoreLoop, CoreLock, CoreScan, CoreRecheck, CoreClaim,
           PushBegin, PushEnd, RaceAborts, RaceNulls, TestPrintLock, Block, Yield,
           CoreRelock, CoreCheck, CoreReady, coreRest, callRest, rmVars
      <4> QED BY <4>1 DEF Seen, Closed
    <3>2. ASSUME SchedStep, ~SchedDecide
          PROVE  UNCHANGED Seen
      <4>1. UNCHANGED <<ended, printed, shutdown, rpc>>
        BY <3>2 DEF SchedStep, SchedLoop, SchedLock, SchedScan, SchedQueue, schedRest,
           rmVars
      <4> QED BY <4>1 DEF Seen, Closed
    <3>3. ASSUME RMStep, ~(RMPrint /\ req # Hole), ~RMPoll
          PROVE  UNCHANGED Seen
      <4>1. UNCHANGED <<ended, printed, shutdown>>
        BY <3>3 DEF RMStep, RMLoop, RMTake, RMRaise, RMErase, RMPrint, RMWake, RMLower,
           rmRest
      <4>2. UNCHANGED Closed
        BY <3>3, <4>1 DEF RMStep, RMLoop, RMTake, RMRaise, RMErase, RMPrint, RMWake,
           RMLower, Closed
      <4> QED BY <4>1, <4>2 DEF Seen
    <3>4. Stopped => UNCHANGED Seen
      BY DEF Stopped, vars, Seen, Closed
    <3> QED
      BY <2>2, <2>3, <2>4, <2>5, <2>6, <3>1, <3>2, <3>3, <3>4 DEF Next
  <2>7. CASE UNCHANGED vars
    BY <2>7 DEF vars, Seen, Closed
  <2> QED BY <1>2, <2>6, <2>7
<1> QED
  BY <1>1, <1>2, Types, Invariance, Requested, PTL
  DEF Spec, ImplementsSimulator, Promised!Spec, Promised!vars, Seen

=============================================================================
