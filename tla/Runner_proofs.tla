---------------------------- MODULE Runner_proofs ----------------------------
(***************************************************************************)
(* Proofs about Runner and MeguroTasks, for every project and any number   *)
(* of consumers, in this order:                                            *)
(*   the main thread's count is what is in flight, and start ends with     *)
(*   nothing in flight unless it was told to stop (CountTheorem,           *)
(*   LeaveTheorem);                                                        *)
(*   the lists that TaskOrder makes hold what they should, once;           *)
(*   no task is ever in two places (PlacesTheorem), so that no more of     *)
(*   them are in flight than their classes allow (SchedulerTheorem);       *)
(*   nothing runs before what must precede it (WritersTheorem,             *)
(*   OrderTheorem), or when that has failed (FailureTheorem);              *)
(*   a build that ends with success is complete (CompleteTheorem);         *)
(*   meguro's sources find their headers (PredecessorsTheorem).            *)
(***************************************************************************)
EXTENDS MeguroTasks, FiniteSetTheorems, WellFoundedInduction, TLAPS

PCs == {"unborn", "get", "check", "run", "stop", "error", "put"}

\* The queues hold tasks of any kind.
IsQueue(q) == \E S : q \in Seq(S)

CountInv ==
  /\ IsQueue(ready) /\ IsQueue(out)
  /\ pc \in [Consumers -> PCs]
  /\ CountIsInFlight

LeaveInv == main \in {"collect", "built", "failed"} => count = 0 \/ stop

\* What the queues' operations do to their lengths.
LEMMA AppendLength ==
  ASSUME NEW q, IsQueue(q), NEW e
  PROVE  IsQueue(Append(q, e)) /\ Len(Append(q, e)) = Len(q) + 1 /\ Len(q) \in Nat
  <1>1. PICK S : q \in Seq(S)
    BY DEF IsQueue
  <1>2. q \in Seq(S \cup {e}) /\ e \in S \cup {e}
    BY <1>1
  <1>3. Append(q, e) \in Seq(S \cup {e}) /\ Len(Append(q, e)) = Len(q) + 1
    BY <1>2
  <1> QED
    BY <1>1, <1>3 DEF IsQueue

LEMMA TailLength ==
  ASSUME NEW q, IsQueue(q), q # <<>>
  PROVE  IsQueue(Tail(q)) /\ Len(Tail(q)) = Len(q) - 1 /\ Len(q) \in Nat \ {0}
  <1>1. PICK S : q \in Seq(S)
    BY DEF IsQueue
  <1>2. Tail(q) \in Seq(S) /\ Len(Tail(q)) = Len(q) - 1 /\ Len(q) \in Nat /\ Len(q) # 0
    BY <1>1
  <1> QED
    BY <1>2 DEF IsQueue

LEMMA QueueLength ==
  ASSUME NEW q, IsQueue(q)
  PROVE  Len(q) \in Nat
  BY DEF IsQueue

LEMMA EmptyQueue ==
  ASSUME NEW q, IsQueue(q), Len(q) = 0
  PROVE  q = <<>>
  BY DEF IsQueue

LEMMA InFlightFinite == IsFiniteSet(InFlight) /\ Cardinality(InFlight) \in Nat
  BY RunnerAssumption, FS_Subset, FS_CardinalityType DEF InFlight

\* A consumer that takes a task, keeps it or puts it back.
LEMMA Takes ==
  ASSUME NEW c \in Consumers, pc \in [Consumers -> PCs], ~Holding(c), Holding(c)',
         NEW p, pc' = [pc EXCEPT ![c] = p]
  PROVE  Cardinality(InFlight') = Cardinality(InFlight) + 1
  <1>1. InFlight' = InFlight \cup {c} /\ c \notin InFlight
    BY DEF InFlight, Holding
  <1> QED
    BY <1>1, InFlightFinite, FS_AddElement

LEMMA Keeps ==
  ASSUME NEW c \in Consumers, pc \in [Consumers -> PCs], Holding(c), Holding(c)',
         NEW p, pc' = [pc EXCEPT ![c] = p]
  PROVE  InFlight' = InFlight
  BY DEF InFlight, Holding

LEMMA Gives ==
  ASSUME NEW c \in Consumers, pc \in [Consumers -> PCs], Holding(c), ~Holding(c)',
         NEW p, pc' = [pc EXCEPT ![c] = p]
  PROVE  Cardinality(InFlight') = Cardinality(InFlight) - 1
  <1>1. InFlight' = InFlight \ {c} /\ c \in InFlight
    BY DEF InFlight, Holding
  <1> QED
    BY <1>1, InFlightFinite, FS_RemoveElement

\* The main thread takes one task back: one less in the queue out, one less
\* counted.
LEMMA GetOutCounts ==
  ASSUME CountInv, GetOut, UNCHANGED pc
  PROVE  CountInv'
  <1>1. IsQueue(out') /\ Len(out') = Len(out) - 1 /\ Len(out) \in Nat
    BY TailLength DEF CountInv, GetOut
  <1>2. InFlight' = InFlight
    BY DEF InFlight, Holding
  <1> QED
    BY <1>1, <1>2, QueueLength, InFlightFinite DEF CountInv, GetOut, CountIsInFlight

\* Actions that leave the queues, the count and the consumers alone.
LEMMA CountUnchanged ==
  ASSUME CountInv, UNCHANGED <<ready, out, count, pc>>
  PROVE  CountInv'
  BY DEF CountInv, CountIsInFlight, InFlight, Holding

LEMMA MainKeepsCount ==
  ASSUME CountInv, Main
  PROVE  CountInv'
  <1>1. CASE Throttle \/ FillGetOut \/ Collect
    BY <1>1, GetOutCounts DEF Throttle, FillGetOut, Collect, consVars
  <1>2. CASE PutReady
    <2>1. IsQueue(ready') /\ Len(ready') = Len(ready) + 1 /\ Len(ready) \in Nat
      BY <1>2, AppendLength DEF CountInv, PutReady
    <2>2. pc' \in [Consumers -> PCs]
      BY <1>2 DEF CountInv, PutReady, PCs
    <2>3. InFlight' = InFlight
      BY <1>2 DEF CountInv, PutReady, InFlight, Holding
    <2> QED
      BY <1>2, <2>1, <2>2, <2>3, QueueLength, InFlightFinite
         DEF CountInv, PutReady, CountIsInFlight
  <1>3. CASE Loop \/ EndThrottle \/ FillIdle \/ Filled
    BY <1>3, CountUnchanged
       DEF Loop, EndThrottle, FillIdle, Filled, listVars, queueVars, consVars
  <1>4. CASE PrepareGroup \/ NextSet \/ NextGroup \/ RaiseCircular \/ NoMoreGroups
    BY <1>4, CountUnchanged
       DEF PrepareGroup, NextSet, NextGroup, RaiseCircular, NoMoreGroups, listVars, queueVars,
           consVars
  <1>5. CASE NothingLeft \/ Postpone \/ Leave
    BY <1>5, CountUnchanged DEF NothingLeft, Postpone, Leave, listVars, queueVars, consVars
  <1>6. CASE HasRun \/ StatusRaises \/ Skip
    BY <1>6, CountUnchanged DEF HasRun, StatusRaises, Skip, Finish, queueVars, consVars
  <1> QED
    BY <1>1, <1>2, <1>3, <1>4, <1>5, <1>6 DEF Main

LEMMA ConsumersKeepCount ==
  ASSUME CountInv, NEW c \in Consumers, Consumer(c)
  PROVE  CountInv'
  <1>1. CASE Get(c)
    <2>1. IsQueue(ready') /\ Len(ready') = Len(ready) - 1 /\ Len(ready) \in Nat
      BY <1>1, TailLength DEF CountInv, Get
    <2>2. Cardinality(InFlight') = Cardinality(InFlight) + 1
      BY <1>1, Takes DEF CountInv, Get, ConsGoto, Holding
    <2>3. pc' \in [Consumers -> PCs]
      BY <1>1 DEF CountInv, Get, ConsGoto, PCs
    <2> QED
      BY <1>1, <2>1, <2>2, <2>3, QueueLength, InFlightFinite
         DEF CountInv, Get, CountIsInFlight, mainVars, listVars
  <1>2. CASE PutOut(c)
    <2>1. IsQueue(out') /\ Len(out') = Len(out) + 1 /\ Len(out) \in Nat
      BY <1>2, AppendLength DEF CountInv, PutOut
    <2>2. Cardinality(InFlight') = Cardinality(InFlight) - 1
      BY <1>2, Gives DEF CountInv, PutOut, ConsGoto, Holding
    <2>3. pc' \in [Consumers -> PCs]
      BY <1>2 DEF CountInv, PutOut, ConsGoto, PCs
    <2> QED
      BY <1>2, <2>1, <2>2, <2>3, QueueLength, InFlightFinite
         DEF CountInv, PutOut, CountIsInFlight, mainVars, listVars
  <1>3. CASE Check(c) \/ Run(c) \/ SetStop(c) \/ SetError(c)
    <2>1. UNCHANGED <<ready, out, count>>
      BY <1>3 DEF Check, Run, SetStop, SetError, mainVars, listVars, queueVars
    <2>2. PICK p \in {"put", "run", "stop", "error"} : pc' = [pc EXCEPT ![c] = p]
      BY <1>3 DEF Check, Run, SetStop, SetError, ConsGoto
    <2>3. Holding(c) /\ Holding(c)'
      BY <1>3, <2>2 DEF CountInv, Check, Run, SetStop, SetError, ConsGoto, Holding
    <2>4. InFlight' = InFlight
      BY <2>2, <2>3, Keeps DEF CountInv
    <2>5. pc' \in [Consumers -> PCs]
      BY <2>2 DEF CountInv, PCs
    <2> QED
      BY <2>1, <2>4, <2>5 DEF CountInv, CountIsInFlight
  <1> QED
    BY <1>1, <1>2, <1>3 DEF Consumer

\* The inductive invariant: where the consumers are, and the count.
THEOREM CountInvTheorem == Spec => []CountInv
  <1>1. Init => CountInv
    <2> SUFFICES ASSUME Init PROVE CountInv
      OBVIOUS
    <2>1. ready \in Seq({}) /\ out \in Seq({}) /\ Len(ready) = 0 /\ Len(out) = 0
      BY DEF Init
    <2>2. InFlight = {}
      BY DEF Init, InFlight, Holding
    <2>3. pc \in [Consumers -> PCs]
      BY DEF Init, PCs
    <2> QED
      BY <2>1, <2>2, <2>3, FS_EmptySet DEF Init, CountInv, IsQueue, CountIsInFlight
  <1>2. CountInv /\ [Next]_vars => CountInv'
    <2> SUFFICES ASSUME CountInv, [Next]_vars PROVE CountInv'
      OBVIOUS
    <2>1. CASE Main
      BY <2>1, MainKeepsCount
    <2>2. CASE \E c \in Consumers : Consumer(c)
      BY <2>2, ConsumersKeepCount
    <2>3. CASE Done \/ UNCHANGED vars
      BY <2>3, CountUnchanged DEF Done, vars, listVars, queueVars, consVars
    <2> QED
      BY <2>1, <2>2, <2>3 DEF Next
  <1> QED
    BY <1>1, <1>2, PTL DEF Spec

\* Whatever the tasks do and in whatever order the threads run, the count of
\* the main thread is what is in the queues and in the hands of the consumers:
\* a get_out never waits for a task that nobody has.
THEOREM CountTheorem == Spec => []CountIsInFlight
  <1>1. CountInv => CountIsInFlight
    BY DEF CountInv
  <1> QED
    BY <1>1, CountInvTheorem, PTL

\* start leaves its loop when it must stop, or when nothing is in flight.
LEMMA MainLeaves ==
  ASSUME CountInv, LeaveInv, Main
  PROVE  LeaveInv'
  <1>1. CASE Loop
    BY <1>1 DEF Loop, LeaveInv, listVars, flagVars
  <1>2. CASE NothingLeft
    <2>1. count \in Nat
      BY QueueLength, InFlightFinite DEF CountInv, CountIsInFlight
    <2> QED
      BY <1>2, <2>1 DEF NothingLeft, LeaveInv, listVars, flagVars
  <1>3. CASE Collect
    BY <1>3 DEF Collect, LeaveInv, flagVars
  <1>4. CASE Leave
    BY <1>4 DEF Leave, LeaveInv, listVars, flagVars
  <1>5. CASE Throttle \/ EndThrottle \/ FillGetOut \/ FillIdle \/ Filled
    BY <1>5 DEF Throttle, EndThrottle, FillGetOut, FillIdle, Filled, MainGoto, LeaveInv
  <1>6. CASE PrepareGroup \/ NextSet \/ NextGroup \/ RaiseCircular \/ NoMoreGroups
    BY <1>6
       DEF PrepareGroup, NextSet, NextGroup, RaiseCircular, NoMoreGroups, MainGoto, LeaveInv
  <1>7. CASE HasRun \/ StatusRaises \/ Skip \/ Postpone \/ PutReady
    BY <1>7 DEF HasRun, StatusRaises, Skip, Postpone, PutReady, Finish, LeaveInv
  <1> QED
    BY <1>1, <1>2, <1>3, <1>4, <1>5, <1>6, <1>7 DEF Main

\* No consumer takes back stop, or changes what the main thread counts.
LEMMA ConsumersLeave ==
  ASSUME LeaveInv, NEW c \in Consumers, Consumer(c)
  PROVE  LeaveInv'
  BY DEF Consumer, Get, Check, Run, SetStop, SetError, PutOut, mainVars, listVars, flagVars,
         LeaveInv

\* The assertion at the end of start holds for every project, and says what it
\* is meant to: only a build that must stop leaves tasks behind.
THEOREM LeaveTheorem == Spec => []NothingLeftBehind
  <1>1. Init => LeaveInv
    BY DEF Init, LeaveInv
  <1>2. CountInv /\ LeaveInv /\ [Next]_vars => LeaveInv'
    <2> SUFFICES ASSUME CountInv, LeaveInv, [Next]_vars PROVE LeaveInv'
      OBVIOUS
    <2>1. CASE Main
      BY <2>1, MainLeaves
    <2>2. CASE \E c \in Consumers : Consumer(c)
      BY <2>2, ConsumersLeave
    <2>3. CASE Done \/ UNCHANGED vars
      BY <2>3 DEF Done, vars, listVars, flagVars, LeaveInv
    <2> QED
      BY <2>1, <2>2, <2>3 DEF Next
  <1>3. CountInv /\ LeaveInv => NothingLeftBehind
    <2> SUFFICES ASSUME CountInv, count = 0
                 PROVE  ready = <<>> /\ out = <<>> /\ InFlight = {}
      BY DEF LeaveInv, NothingLeftBehind
    <2>1. Len(ready) = 0 /\ Len(out) = 0 /\ Cardinality(InFlight) = 0
      BY QueueLength, InFlightFinite DEF CountInv, CountIsInFlight
    <2>2. ready = <<>> /\ out = <<>>
      BY <2>1, EmptyQueue DEF CountInv
    <2>3. InFlight = {}
      BY <2>1, InFlightFinite, FS_EmptySet
    <2> QED
      BY <2>2, <2>3
  <1>4. Spec => []CountInv
    BY CountInvTheorem
  <1> QED
    BY <1>1, <1>2, <1>3, <1>4, PTL DEF Spec
(* ----- lists ----- *)

\* A list of tasks without repetition.
IsList(q) == q \in Seq(Tasks) /\ IsInjective(q)

LEMMA EmptyList == IsList(<<>>) /\ ToSet(<<>>) = {}
  BY DEF IsList, IsInjective, ToSet

LEMMA NoElements ==
  ASSUME NEW q, IsList(q)
  PROVE  ToSet(q) \subseteq Tasks /\ (q = <<>> <=> ToSet(q) = {})
  <1>1. q = <<>> => ToSet(q) = {}
    BY EmptyList
  <1>2. ASSUME q # <<>> PROVE q[1] \in ToSet(q)
    BY <1>2 DEF IsList, ToSet
  <1> QED
    BY <1>1, <1>2 DEF IsList, ToSet

LEMMA TailList ==
  ASSUME NEW q, IsList(q), q # <<>>
  PROVE  /\ IsList(Tail(q)) /\ Head(q) \in Tasks
         /\ Head(q) \in ToSet(q) /\ ToSet(Tail(q)) = ToSet(q) \ {Head(q)}
  <1>1. q \in Seq(Tasks) /\ Len(q) \in Nat /\ Len(q) # 0 /\ DOMAIN q = 1..Len(q)
    BY DEF IsList
  <1>2. /\ Tail(q) \in Seq(Tasks) /\ Len(Tail(q)) = Len(q) - 1 /\ Head(q) = q[1]
        /\ DOMAIN Tail(q) = 1..(Len(q) - 1)
        /\ \A i \in 1..(Len(q) - 1) : Tail(q)[i] = q[i + 1]
    BY <1>1
  <1>3. \A i, j \in 1..Len(q) : q[i] = q[j] => i = j
    BY <1>1 DEF IsList, IsInjective
  <1>4. IsInjective(Tail(q))
    BY <1>1, <1>2, <1>3 DEF IsInjective
  <1>5. ToSet(q) \ {Head(q)} \subseteq ToSet(Tail(q))
    <2> SUFFICES ASSUME NEW i \in 1..Len(q), q[i] # q[1]
                 PROVE  \E j \in DOMAIN Tail(q) : Tail(q)[j] = q[i]
      BY <1>1, <1>2 DEF ToSet
    <2>1. i - 1 \in 1..(Len(q) - 1) /\ Tail(q)[i - 1] = q[i]
      BY <1>1, <1>2
    <2> QED
      BY <2>1, <1>2
  <1>6. ToSet(Tail(q)) \subseteq ToSet(q) \ {Head(q)}
    <2> SUFFICES ASSUME NEW i \in 1..(Len(q) - 1)
                 PROVE  Tail(q)[i] # q[1] /\ \E j \in 1..Len(q) : q[j] = Tail(q)[i]
      BY <1>1, <1>2 DEF ToSet
    <2>1. i + 1 \in 1..Len(q) /\ i + 1 # 1 /\ 1 \in 1..Len(q)
      BY <1>1
    <2> QED
      BY <2>1, <1>2, <1>3
  <1>7. Head(q) \in Tasks /\ Head(q) \in ToSet(q)
    BY <1>1, <1>2 DEF ToSet
  <1> QED
    BY <1>2, <1>4, <1>5, <1>6, <1>7 DEF IsList

LEMMA JoinedList ==
  ASSUME NEW q, NEW r, IsList(q), IsList(r), ToSet(q) \cap ToSet(r) = {}
  PROVE  IsList(q \o r) /\ ToSet(q \o r) = ToSet(q) \cup ToSet(r)
  <1>1. /\ q \in Seq(Tasks) /\ Len(q) \in Nat /\ DOMAIN q = 1..Len(q)
        /\ r \in Seq(Tasks) /\ Len(r) \in Nat /\ DOMAIN r = 1..Len(r)
    BY DEF IsList
  <1>2. /\ q \o r \in Seq(Tasks) /\ Len(q \o r) = Len(q) + Len(r)
        /\ DOMAIN (q \o r) = 1..(Len(q) + Len(r))
        /\ \A i \in 1..(Len(q) + Len(r)) : (q \o r)[i] = IF i <= Len(q) THEN q[i] ELSE r[i - Len(q)]
    BY <1>1
  <1>3. /\ \A i, j \in 1..Len(q) : q[i] = q[j] => i = j
        /\ \A i, j \in 1..Len(r) : r[i] = r[j] => i = j
        /\ \A i \in 1..Len(q), j \in 1..Len(r) : q[i] # r[j]
    <2>1. \A i, j \in 1..Len(q) : q[i] = q[j] => i = j
      BY <1>1 DEF IsList, IsInjective
    <2>2. \A i, j \in 1..Len(r) : r[i] = r[j] => i = j
      BY <1>1 DEF IsList, IsInjective
    <2>3. \A i \in 1..Len(q), j \in 1..Len(r) : q[i] \in ToSet(q) /\ r[j] \in ToSet(r)
      BY <1>1 DEF ToSet
    <2> QED
      BY <2>1, <2>2, <2>3
  <1>4. ASSUME NEW i \in 1..(Len(q) + Len(r)), NEW j \in 1..(Len(q) + Len(r)), (q \o r)[i] = (q \o r)[j]
        PROVE  i = j
    <2>1. CASE i <= Len(q) /\ j <= Len(q)
      BY <1>1, <1>2, <1>3, <1>4, <2>1
    <2>2. CASE i <= Len(q) /\ ~(j <= Len(q))
      BY <1>1, <1>2, <1>3, <1>4, <2>2
    <2>3. CASE ~(i <= Len(q)) /\ j <= Len(q)
      BY <1>1, <1>2, <1>3, <1>4, <2>3
    <2>4. CASE ~(i <= Len(q)) /\ ~(j <= Len(q))
      <3>1. i - Len(q) \in 1..Len(r) /\ j - Len(q) \in 1..Len(r)
        BY <1>1, <2>4
      <3>2. r[i - Len(q)] = r[j - Len(q)]
        BY <1>2, <1>4, <2>4
      <3>3. i - Len(q) = j - Len(q)
        BY <1>3, <3>1, <3>2
      <3> QED
        BY <1>1, <3>3
    <2> QED
      BY <2>1, <2>2, <2>3, <2>4
  <1>5. IsInjective(q \o r)
    BY <1>2, <1>4 DEF IsInjective
  <1>6. ToSet(q \o r) \subseteq ToSet(q) \cup ToSet(r)
    BY <1>1, <1>2 DEF ToSet
  <1>7. ToSet(q) \subseteq ToSet(q \o r)
    BY <1>1, <1>2 DEF ToSet
  <1>8. ToSet(r) \subseteq ToSet(q \o r)
    <2> SUFFICES ASSUME NEW i \in 1..Len(r) PROVE \E j \in DOMAIN (q \o r) : (q \o r)[j] = r[i]
      BY <1>1 DEF ToSet
    <2>1. i + Len(q) \in 1..(Len(q) + Len(r)) /\ (q \o r)[i + Len(q)] = r[i]
      BY <1>1, <1>2
    <2> QED
      BY <2>1, <1>2
  <1> QED
    BY <1>2, <1>5, <1>6, <1>7, <1>8 DEF IsList

LEMMA AppendedList ==
  ASSUME NEW q, IsList(q), NEW t \in Tasks, t \notin ToSet(q)
  PROVE  /\ IsList(Append(q, t)) /\ ToSet(Append(q, t)) = ToSet(q) \cup {t}
         /\ IsList(<<t>> \o q) /\ ToSet(<<t>> \o q) = ToSet(q) \cup {t}
  <1>1. IsList(<<t>>) /\ ToSet(<<t>>) = {t}
    BY DEF IsList, IsInjective, ToSet
  <1>2. Append(q, t) = q \o <<t>>
    BY DEF IsList
  <1> QED
    BY <1>1, <1>2, JoinedList


\* before orders S one by one.
Orders(S, before) ==
  \A x, y \in S :
    /\ <<x, x>> \notin before
    /\ x # y => <<x, y>> \in before \/ <<y, x>> \in before
    /\ \A z \in S : <<x, y>> \in before /\ <<y, z>> \in before => <<x, z>> \in before

\* Listed gives every element of a finite set once.
LEMMA ListedOnce ==
  ASSUME NEW S, IsFiniteSet(S), NEW before, Orders(S, before)
  PROVE  /\ Listed(S, before) \in Seq(S) /\ IsInjective(Listed(S, before))
         /\ ToSet(Listed(S, before)) = S
  <1>n. PICK n : n = Cardinality(S)
    OBVIOUS
  <1>b. PICK below : below = [x \in S |-> {y \in S : <<y, x>> \in before}]
    OBVIOUS
  <1>r. PICK rank : rank = [x \in S |-> Cardinality(below[x]) + 1]
    OBVIOUS
  <1>l. PICK list : list = Listed(S, before)
    OBVIOUS
  <1>1. n \in Nat
    BY <1>n, FS_CardinalityType
  <1>2. \A x \in S : /\ IsFiniteSet(below[x]) /\ below[x] \subseteq S
                     /\ rank[x] \in 1..n
    <2> TAKE x \in S
    <2>1. below[x] \subseteq S /\ x \notin below[x]
      BY <1>b DEF Orders
    <2>2. /\ IsFiniteSet(below[x]) /\ Cardinality(below[x]) <= n
          /\ n = Cardinality(below[x]) => S = below[x]
      BY <1>n, <2>1, FS_Subset
    <2>3. Cardinality(below[x]) \in Nat
      BY <2>2, FS_CardinalityType
    <2>4. rank[x] = Cardinality(below[x]) + 1
      BY <1>r
    <2> QED
      BY <1>1, <2>1, <2>2, <2>3, <2>4
  <1>3. \A x, y \in S : <<x, y>> \in before => rank[x] < rank[y]
    <2> SUFFICES ASSUME NEW x \in S, NEW y \in S, <<x, y>> \in before
                 PROVE  rank[x] < rank[y]
      OBVIOUS
    <2>1. below[x] \subseteq below[y] /\ x \in below[y] /\ x \notin below[x]
      BY <1>b DEF Orders
    <2>2. /\ Cardinality(below[x]) <= Cardinality(below[y])
          /\ Cardinality(below[y]) = Cardinality(below[x]) => below[y] = below[x]
      BY <1>2, <2>1, FS_Subset
    <2>3. Cardinality(below[x]) \in Nat /\ Cardinality(below[y]) \in Nat
      BY <1>2, FS_CardinalityType
    <2>4. rank[x] = Cardinality(below[x]) + 1 /\ rank[y] = Cardinality(below[y]) + 1
      BY <1>r
    <2> QED
      BY <2>1, <2>2, <2>3, <2>4
  <1>4. \A x, y \in S : rank[x] = rank[y] => x = y
    <2> SUFFICES ASSUME NEW x \in S, NEW y \in S, x # y PROVE rank[x] # rank[y]
      OBVIOUS
    <2>1. <<x, y>> \in before \/ <<y, x>> \in before
      BY DEF Orders
    <2>2. rank[x] < rank[y] \/ rank[y] < rank[x]
      BY <1>3, <2>1
    <2> QED
      BY <1>1, <1>2, <2>2
  <1>5. rank \in Injection(S, 1..n)
    <2>1. rank \in [S -> 1..n] /\ DOMAIN rank = S
      BY <1>2, <1>r
    <2> QED
      BY <1>4, <2>1 DEF Injection, IsInjective
  <1>6. \A k \in 1..n : \E x \in S : rank[x] = k
    <2>1. IsFiniteSet(1..n) /\ Cardinality(1..n) = n
      BY <1>1, FS_Interval
    <2>2. rank \in Surjection(S, 1..n)
      BY <1>n, <1>5, <2>1, FS_Injection
    <2> QED
      BY <2>2 DEF Surjection
  <1>7. list = [k \in 1..n |-> CHOOSE z \in S : Cardinality({y \in S : <<y, z>> \in before}) = k - 1]
    BY <1>l, <1>n DEF Listed
  <1>8. \A k \in 1..n : list[k] \in S /\ rank[list[k]] = k
    <2> TAKE k \in 1..n
    <2>1. PICK x \in S : rank[x] = k
      BY <1>6
    <2>2. \A z \in S : rank[z] = Cardinality({y \in S : <<y, z>> \in before}) + 1
      BY <1>b, <1>r
    <2>3. \A z \in S : Cardinality({y \in S : <<y, z>> \in before}) \in Nat
      <3> TAKE z \in S
      <3>1. IsFiniteSet({y \in S : <<y, z>> \in before})
        BY <1>2, <1>b
      <3> QED
        BY <3>1, FS_CardinalityType
    <2>4. Cardinality({y \in S : <<y, x>> \in before}) = k - 1
      BY <2>1, <2>2, <2>3
    <2>5. list[k] \in S /\ Cardinality({y \in S : <<y, list[k]>> \in before}) = k - 1
      BY <1>7, <2>4
    <2>6. rank[list[k]] = (k - 1) + 1
      BY <2>2, <2>5
    <2> QED
      BY <1>1, <2>5, <2>6
  <1>9. DOMAIN list = 1..n /\ list \in Seq(S)
    <2>1. list \in [1..n -> S]
      BY <1>7, <1>8
    <2> QED
      BY <1>1, <2>1
  <1>10. \A j, k \in 1..n : list[j] = list[k] => j = k
    BY <1>8
  <1>11. \A x \in S : \E k \in 1..n : list[k] = x
    <2> TAKE x \in S
    <2>1. rank[x] \in 1..n
      BY <1>2
    <2>2. list[rank[x]] \in S /\ rank[list[rank[x]]] = rank[x]
      BY <1>8, <2>1
    <2> QED
      BY <1>4, <2>1, <2>2
  <1>12. ToSet(list) = S
    BY <1>8, <1>9, <1>11 DEF ToSet
  <1> QED
    BY <1>l, <1>9, <1>10, <1>12 DEF IsInjective

\* A sequence orders its elements.
LEMMA SequenceOrders ==
  ASSUME NEW S, NEW s \in Seq(S), NEW T \in SUBSET ToSet(s)
  PROVE  Orders(T, OrderOf(s))
  <1>1. \A x \in ToSet(s) : Position(s, x) \in DOMAIN s /\ s[Position(s, x)] = x
    BY DEF ToSet, Position
  <1>2. \A x \in ToSet(s) : Position(s, x) \in Int
    BY <1>1
  <1>3. \A x, y \in ToSet(s) : <<x, y>> \in OrderOf(s) <=> Position(s, x) < Position(s, y)
    BY DEF OrderOf
  <1> SUFFICES ASSUME NEW x \in ToSet(s), NEW y \in ToSet(s)
               PROVE  /\ <<x, x>> \notin OrderOf(s)
                      /\ x # y => <<x, y>> \in OrderOf(s) \/ <<y, x>> \in OrderOf(s)
                      /\ \A z \in ToSet(s) : <<x, y>> \in OrderOf(s) /\ <<y, z>> \in OrderOf(s)
                           => <<x, z>> \in OrderOf(s)
    BY DEF Orders
  <1>4. <<x, x>> \notin OrderOf(s)
    BY <1>2, <1>3
  <1>5. x # y => Position(s, x) # Position(s, y)
    BY <1>1
  <1>6. x # y => <<x, y>> \in OrderOf(s) \/ <<y, x>> \in OrderOf(s)
    BY <1>2, <1>3, <1>5
  <1>7. \A z \in ToSet(s) : <<x, y>> \in OrderOf(s) /\ <<y, z>> \in OrderOf(s)
                           => <<x, z>> \in OrderOf(s)
    BY <1>2, <1>3
  <1> QED
    BY <1>4, <1>6, <1>7

LEMMA ElementsFinite ==
  ASSUME NEW S, NEW s \in Seq(S)
  PROVE  IsFiniteSet(ToSet(s))
  <1> DEFINE f == [i \in 1..Len(s) |-> s[i]]
  <1>1. f \in Surjection(1..Len(s), ToSet(s))
    BY DEF Surjection, ToSet
  <1>2. IsFiniteSet(1..Len(s))
    BY FS_Interval
  <1> QED
    BY <1>1, <1>2, FS_Surjection


\* A set of numbers has a least one: what stands for an induction below.
LEMMA LeastNumber ==
  ASSUME NEW N, N \subseteq Nat, N # {}
  PROVE  \E x \in N : \A y \in N : x <= y
  <1>1. IsWellFoundedOn({p \in Nat \X Nat : p[1] < p[2]}, Nat)
    BY NatLessThanWellFounded DEF OpToRel
  <1>2. PICK x \in N : \A y \in N : ~(<<y, x>> \in {p \in Nat \X Nat : p[1] < p[2]})
    BY <1>1, WFMin
  <1>3. \A y \in N : <<y, x>> \in Nat \X Nat
    OBVIOUS
  <1>4. \A y \in N : ~(y < x)
    BY <1>2, <1>3
  <1> QED
    BY <1>4

\* The loop of tasks_by_max_jobs after i tasks.
Start == [jobs |-> MAXJOBS, now |-> <<>>, later |-> <<>>]
Passes(f, n, q, cstr) ==
  f = [i \in 0..n |-> IF i = 0 THEN Start ELSE Pass(f[i - 1], q[i], cstr[q[i]].maxjobs)]

LEMMA PassesExist ==
  ASSUME NEW n \in Nat, NEW q, NEW cstr
  PROVE  \E f : Passes(f, n, q, cstr)
  <1> DEFINE Bad == {m \in Nat : ~ \E f : Passes(f, m, q, cstr)}
  <1> SUFFICES ASSUME Bad # {} PROVE FALSE
    OBVIOUS
  <1>1. PICK m \in Bad : \A k \in Bad : m <= k
    BY LeastNumber
  <1>2. m \in Nat /\ ~ \E f : Passes(f, m, q, cstr)
    OBVIOUS
  <1>3. CASE m = 0
    <2>1. PICK f : f = [i \in 0..0 |-> Start]
      OBVIOUS
    <2>2. f = [i \in 0..0 |-> IF i = 0 THEN Start ELSE Pass(f[i - 1], q[i], cstr[q[i]].maxjobs)]
      BY <2>1
    <2>3. Passes(f, m, q, cstr)
      BY <1>3, <2>2 DEF Passes
    <2> QED
      BY <1>2, <2>3
  <1>4. CASE m # 0
    <2>1. m - 1 \in Nat /\ m - 1 \notin Bad
      BY <1>1, <1>2, <1>4
    <2>2. PICK f : Passes(f, m - 1, q, cstr)
      BY <2>1
    <2>3. PICK last : last = Pass(f[m - 1], q[m], cstr[q[m]].maxjobs)
      OBVIOUS
    <2>4. PICK g : g = [i \in 0..m |-> IF i = m THEN last ELSE f[i]]
      OBVIOUS
    <2>5. \A i \in 0..(m - 1) :
            f[i] = IF i = 0 THEN Start ELSE Pass(f[i - 1], q[i], cstr[q[i]].maxjobs)
      BY <2>2 DEF Passes
    <2>6. \A i \in 0..m : g[i] = IF i = 0 THEN Start ELSE Pass(g[i - 1], q[i], cstr[q[i]].maxjobs)
      <3> TAKE i \in 0..m
      <3>1. CASE i = 0
        BY <1>2, <1>4, <2>1, <2>4, <2>5, <3>1
      <3>2. CASE i # 0 /\ i # m
        <4>1. i \in 0..(m - 1) /\ i - 1 \in 0..m /\ i - 1 # m
          BY <1>2, <3>2
        <4>2. g[i] = f[i] /\ g[i - 1] = f[i - 1]
          BY <2>4, <3>2, <4>1
        <4> QED
          BY <2>5, <3>2, <4>1, <4>2
      <3>3. CASE i # 0 /\ i = m
        <4>1. i - 1 \in 0..m /\ i - 1 # m
          BY <1>2, <3>3
        <4>2. g[i] = last /\ g[i - 1] = f[i - 1]
          BY <2>4, <3>3, <4>1
        <4> QED
          BY <2>3, <3>3, <4>2
      <3> QED
        BY <3>1, <3>2, <3>3
    <2>7. g = [i \in 0..m |-> IF i = 0 THEN Start ELSE Pass(g[i - 1], q[i], cstr[q[i]].maxjobs)]
      <3>1. g = [i \in 0..m |-> g[i]]
        BY <2>4
      <3> QED
        BY <2>6, <3>1
    <2> QED
      BY <1>2, <2>7 DEF Passes
  <1> QED
    BY <1>3, <1>4

\* After i tasks: the tasks so far, each in one of two lists; those in the
\* first have the least maxjobs.
Upto(q, i) == {q[k] : k \in 1..i}
Sorted(r, S, cstr) ==
  /\ IsList(r.now) /\ IsList(r.later)
  /\ ToSet(r.now) \cap ToSet(r.later) = {} /\ ToSet(r.now) \cup ToSet(r.later) = S
  /\ r.jobs \in 0..MAXJOBS
  /\ \A t \in ToSet(r.now) : cstr[t].maxjobs = r.jobs
  /\ IF S = {} THEN r.jobs = MAXJOBS ELSE r.jobs # 0 /\ r.now # <<>>

LEMMA PassSorts ==
  ASSUME NEW r, NEW S, NEW cstr, NEW t \in Tasks, Sorted(r, S, cstr), t \notin S,
         cstr[t].maxjobs \in 1..MAXJOBS, DOMAIN r = DOMAIN Start
  PROVE  /\ Sorted(Pass(r, t, cstr[t].maxjobs), S \cup {t}, cstr)
         /\ DOMAIN Pass(r, t, cstr[t].maxjobs) = DOMAIN Start
  <1>j. PICK jobs : jobs = cstr[t].maxjobs
    OBVIOUS
  <1>p. PICK p : p = Pass(r, t, jobs)
    OBVIOUS
  <1>m. MAXJOBS \in Nat
    BY RunnerAssumption
  <1>d. DOMAIN r = {"jobs", "now", "later"}
    BY DEF Start
  <1>0. t \notin ToSet(r.now) /\ t \notin ToSet(r.later)
    BY DEF Sorted
  <1>t. /\ IsList(Append(r.now, t)) /\ ToSet(Append(r.now, t)) = ToSet(r.now) \cup {t}
        /\ IsList(Append(r.later, t)) /\ ToSet(Append(r.later, t)) = ToSet(r.later) \cup {t}
        /\ IsList(r.later \o r.now) /\ ToSet(r.later \o r.now) = ToSet(r.later) \cup ToSet(r.now)
        /\ IsList(<<t>>) /\ ToSet(<<t>>) = {t}
    <2>1. IsList(<<t>>) /\ ToSet(<<t>>) = {t}
      BY DEF IsList, IsInjective, ToSet
    <2>2. ToSet(r.later) \cap ToSet(r.now) = {} /\ IsList(r.now) /\ IsList(r.later)
      BY DEF Sorted
    <2>3. IsList(Append(r.now, t)) /\ ToSet(Append(r.now, t)) = ToSet(r.now) \cup {t}
      BY <1>0, <2>2, AppendedList
    <2>4. IsList(Append(r.later, t)) /\ ToSet(Append(r.later, t)) = ToSet(r.later) \cup {t}
      BY <1>0, <2>2, AppendedList
    <2>5. IsList(r.later \o r.now) /\ ToSet(r.later \o r.now) = ToSet(r.later) \cup ToSet(r.now)
      BY <2>2, JoinedList
    <2> QED
      BY <2>1, <2>3, <2>4, <2>5
  <1>n. \A q : IsList(q) /\ ToSet(q) # {} => q # <<>>
    BY EmptyList
  <1>s. /\ IsList(r.now) /\ IsList(r.later)
        /\ ToSet(r.now) \cap ToSet(r.later) = {} /\ ToSet(r.now) \cup ToSet(r.later) = S
        /\ r.jobs \in 0..MAXJOBS
        /\ \A u \in ToSet(r.now) : cstr[u].maxjobs = r.jobs
        /\ IF S = {} THEN r.jobs = MAXJOBS ELSE r.jobs # 0 /\ r.now # <<>>
    BY DEF Sorted
  <1>c. jobs \in 1..MAXJOBS /\ r.jobs \in Int /\ MAXJOBS \in Int
    BY <1>j, <1>m, <1>s
  <1>1. CASE jobs > r.jobs
    <2>1. /\ p.jobs = r.jobs /\ p.now = r.now /\ p.later = Append(r.later, t)
          /\ DOMAIN p = {"jobs", "now", "later"}
      BY <1>p, <1>1, <1>d DEF Pass
    <2>2. S # {}
      BY <1>1, <1>c, <1>s
    <2>3. ToSet(p.now) \cap ToSet(p.later) = {} /\ ToSet(p.now) \cup ToSet(p.later) = S \cup {t}
      BY <1>0, <1>s, <1>t, <2>1
    <2>4. IsList(p.now) /\ IsList(p.later) /\ S \cup {t} # {}
      BY <1>s, <1>t, <2>1
    <2> QED
      BY <1>s, <2>1, <2>2, <2>3, <2>4, <1>p, <1>j, <1>d DEF Sorted
  <1>2. CASE jobs = r.jobs
    <2>1. /\ p.jobs = r.jobs /\ p.now = Append(r.now, t) /\ p.later = r.later
          /\ DOMAIN p = {"jobs", "now", "later"}
      BY <1>p, <1>2, <1>c, <1>d DEF Pass
    <2>3. ToSet(p.now) \cap ToSet(p.later) = {} /\ ToSet(p.now) \cup ToSet(p.later) = S \cup {t}
      BY <1>0, <1>s, <1>t, <2>1
    <2>4. IsList(p.now) /\ IsList(p.later) /\ S \cup {t} # {}
      BY <1>s, <1>t, <2>1
    <2>5. p.now # <<>> /\ p.jobs # 0
      BY <1>n, <1>t, <1>2, <1>c, <2>1
    <2>6. \A u \in ToSet(p.now) : cstr[u].maxjobs = p.jobs
      BY <1>s, <1>t, <1>j, <1>2, <2>1
    <2> QED
      BY <1>s, <2>1, <2>3, <2>4, <2>5, <2>6, <1>p, <1>j, <1>d DEF Sorted
  <1>3. CASE jobs < r.jobs
    <2>0. ~(jobs > r.jobs) /\ jobs # r.jobs
      BY <1>3, <1>c
    <2>p. p = [jobs |-> jobs, now |-> <<t>>, later |-> r.later \o r.now]
      BY <1>p, <2>0 DEF Pass
    <2>1. /\ p.jobs = jobs /\ p.now = <<t>> /\ p.later = r.later \o r.now
          /\ DOMAIN p = {"jobs", "now", "later"}
      BY <2>p
    <2>3. ToSet(p.now) \cap ToSet(p.later) = {} /\ ToSet(p.now) \cup ToSet(p.later) = S \cup {t}
      BY <1>0, <1>s, <1>t, <2>1
    <2>4. IsList(p.now) /\ IsList(p.later) /\ S \cup {t} # {}
      BY <1>s, <1>t, <2>1
    <2>5. p.now # <<>> /\ p.jobs # 0 /\ p.jobs \in 0..MAXJOBS
      BY <1>n, <1>t, <1>c, <2>1
    <2>6. \A u \in ToSet(p.now) : cstr[u].maxjobs = p.jobs
      BY <1>t, <1>j, <2>1
    <2> QED
      BY <2>1, <2>3, <2>4, <2>5, <2>6, <1>p, <1>j, <1>d DEF Sorted
  <1> QED
    BY <1>1, <1>2, <1>3, <1>c

LEMMA JobsSorted ==
  ASSUME NEW q, IsList(q), NEW cstr, \A t \in Tasks : cstr[t].maxjobs \in 1..MAXJOBS
  PROVE  Sorted(TasksByMaxJobs(q, cstr), ToSet(q), cstr)
  <1>n. PICK n : n = Len(q)
    OBVIOUS
  <1>0. n \in Nat /\ DOMAIN q = 1..n /\ \A i \in 1..n : q[i] \in Tasks
    BY <1>n DEF IsList
  <1>i. \A i, j \in 1..n : q[i] = q[j] => i = j
    BY <1>0 DEF IsList, IsInjective
  <1>1. PICK f : /\ Passes(f, n, q, cstr) /\ TasksByMaxJobs(q, cstr) = f[n]
    <2>1. PICK g : g = CHOOSE h : Passes(h, n, q, cstr)
      OBVIOUS
    <2>2. Passes(g, n, q, cstr)
      BY <1>0, <2>1, PassesExist
    <2>3. TasksByMaxJobs(q, cstr) = g[n]
      BY <1>n, <2>1 DEF TasksByMaxJobs, Passes, Start
    <2> QED
      BY <2>2, <2>3
  <1>2. \A i \in 0..n : f[i] = IF i = 0 THEN Start ELSE Pass(f[i - 1], q[i], cstr[q[i]].maxjobs)
    BY <1>1 DEF Passes
  <1> DEFINE Good(i) == Sorted(f[i], Upto(q, i), cstr) /\ DOMAIN f[i] = DOMAIN Start
  <1>3. Good(0)
    <2>1. f[0] = Start /\ Upto(q, 0) = {}
      BY <1>0, <1>2 DEF Upto
    <2>2. MAXJOBS \in Nat
      BY RunnerAssumption
    <2> QED
      BY <2>1, <2>2, EmptyList DEF Sorted, Start
  <1>4. ASSUME NEW i \in 1..n, Good(i - 1) PROVE Good(i)
    <2>1. q[i] \notin Upto(q, i - 1)
      BY <1>0, <1>i DEF Upto
    <2>2. Upto(q, i) = Upto(q, i - 1) \cup {q[i]}
      BY <1>0 DEF Upto
    <2>3. f[i] = Pass(f[i - 1], q[i], cstr[q[i]].maxjobs)
      BY <1>0, <1>2
    <2>4. q[i] \in Tasks /\ cstr[q[i]].maxjobs \in 1..MAXJOBS
      BY <1>0
    <2>5. PICK r, S : r = f[i - 1] /\ S = Upto(q, i - 1)
      OBVIOUS
    <2>6. /\ Sorted(Pass(r, q[i], cstr[q[i]].maxjobs), S \cup {q[i]}, cstr)
          /\ DOMAIN Pass(r, q[i], cstr[q[i]].maxjobs) = DOMAIN Start
      <3>1. Sorted(r, S, cstr) /\ DOMAIN r = DOMAIN Start /\ q[i] \notin S
        BY <1>4, <2>1, <2>5
      <3> QED
        BY <2>4, <3>1, PassSorts
    <2> QED
      BY <2>2, <2>3, <2>5, <2>6
  <1>5. Good(n)
    <2> DEFINE Bad == {i \in Nat : i <= n /\ ~Good(i)}
    <2> SUFFICES ASSUME Bad # {} PROVE FALSE
      BY <1>0
    <2> HIDE DEF Good
    <2>1. PICK i \in Bad : \A k \in Bad : i <= k
      BY LeastNumber
    <2>2. i \in 1..n
      BY <1>0, <1>3
    <2>3. i - 1 \notin Bad /\ i - 1 \in Nat /\ i - 1 <= n
      BY <1>0, <2>1, <2>2
    <2> QED
      BY <1>4, <2>2, <2>3
  <1>6. Upto(q, n) = ToSet(q)
    BY <1>0 DEF Upto, ToSet
  <1> QED
    BY <1>1, <1>5, <1>6

\* The elements of a finite set can be listed, and any list has them all.
LEMMA SetListed ==
  ASSUME NEW S, IsFiniteSet(S), NEW q \in SetToSeqs(S)
  PROVE  q \in Seq(S) /\ IsInjective(q) /\ ToSet(q) = S
  <1>n. PICK n : n = Cardinality(S)
    OBVIOUS
  <1>1. n \in Nat
    BY <1>n, FS_CardinalityType
  <1>2. q \in [1..n -> S] /\ IsInjective(q)
    BY <1>n DEF SetToSeqs, IsInjective
  <1>3. q \in Surjection(1..n, S)
    <2>1. q \in Injection(1..n, S)
      BY <1>2 DEF Injection, IsInjective
    <2>2. IsFiniteSet(1..n) /\ Cardinality(1..n) = n
      BY <1>1, FS_Interval
    <2> QED
      BY <1>n, <2>1, <2>2, FS_Injection
  <1>4. q \in Seq(S) /\ DOMAIN q = 1..n
    BY <1>1, <1>2
  <1>5. \A x \in S : \E i \in 1..n : q[i] = x
    BY <1>3 DEF Surjection
  <1> QED
    BY <1>2, <1>4, <1>5 DEF ToSet


(* ----- projects ----- *)

Groups == 1..Len(project.groups)

LEMMA ProjectLists ==
  ASSUME project \in Projects
  PROVE  /\ project.groups \in Seq(Seq(Tasks)) /\ Len(project.groups) \in Nat
         /\ \A g \in Groups : IsList(project.groups[g])
         /\ \A t \in Tasks : IsList(project.more[t])
         /\ \A t \in Tasks : project.cstr[t].maxjobs \in 1..MAXJOBS
         /\ Grouped \subseteq Tasks
  <1>p. PICK p \in Projects : p = project
    OBVIOUS
  <1>1. p.groups \in Seq(Seq(Tasks)) /\ Len(p.groups) \in Nat /\ DOMAIN p.groups = 1..Len(p.groups)
    BY ProjectsAssumption
  <1>2. ASSUME NEW g \in 1..Len(p.groups) PROVE IsList(p.groups[g])
    <2>1. \A i, j \in DOMAIN p.groups[g] : p.groups[g][i] = p.groups[g][j] => i = j
      BY <1>1, ProjectsAssumption
    <2>2. p.groups[g] \in Seq(Tasks)
      BY <1>1
    <2> QED
      BY <2>1, <2>2 DEF IsList, IsInjective
  <1>3. ASSUME NEW t \in Tasks PROVE IsList(p.more[t])
    <2>1. \A i, j \in DOMAIN p.more[t] : p.more[t][i] = p.more[t][j] => i = j
      BY ProjectsAssumption
    <2>2. p.more[t] \in Seq(Tasks)
      BY ProjectsAssumption
    <2> QED
      BY <2>1, <2>2 DEF IsList, IsInjective
  <1>4. \A t \in Tasks : p.cstr[t].maxjobs \in 1..MAXJOBS
    BY ProjectsAssumption
  <1>5. \A g \in 1..Len(p.groups) : ToSet(p.groups[g]) \subseteq Tasks
    BY <1>2, NoElements
  <1> QED
    BY <1>p, <1>1, <1>2, <1>3, <1>4, <1>5 DEF Groups, Grouped

\* A task is in one group, or created by one task, or neither.
LEMMA ProjectApart ==
  ASSUME project \in Projects
  PROVE  /\ \A g, h \in Groups : \A t \in ToSet(project.groups[g]) \cap ToSet(project.groups[h]) : g = h
         /\ \A t, u \in Tasks : t # u => ToSet(project.more[t]) \cap ToSet(project.more[u]) = {}
         /\ \A t \in Tasks : ToSet(project.more[t]) \cap Grouped = {}
         /\ \A t \in project.marked : ToSet(project.more[t]) = {}
  <1>p. PICK p \in Projects : p = project
    OBVIOUS
  <1>1. p.groups \in Seq(Seq(Tasks)) /\ DOMAIN p.groups = 1..Len(p.groups)
    BY ProjectsAssumption
  <1>2. \A g, h \in 1..Len(p.groups) : \A t \in ToSet(p.groups[g]) \cap ToSet(p.groups[h]) : g = h
    <2> SUFFICES ASSUME NEW g \in DOMAIN p.groups, NEW h \in DOMAIN p.groups,
                        NEW i \in DOMAIN p.groups[g], NEW j \in DOMAIN p.groups[h],
                        p.groups[g][i] = p.groups[h][j]
                 PROVE  g = h
      BY <1>1 DEF ToSet
    <2> QED
      BY ProjectsAssumption
  <1>3. \A t, u \in Tasks : t # u => ToSet(p.more[t]) \cap ToSet(p.more[u]) = {}
    <2> SUFFICES ASSUME NEW t \in Tasks, NEW u \in Tasks,
                        NEW i \in DOMAIN p.more[t], NEW j \in DOMAIN p.more[u],
                        p.more[t][i] = p.more[u][j]
                 PROVE  t = u
      BY DEF ToSet
    <2> QED
      BY ProjectsAssumption
  <1>4. \A t \in Tasks, g \in 1..Len(p.groups) : ToSet(p.more[t]) \cap ToSet(p.groups[g]) = {}
    BY <1>1, ProjectsAssumption
  <1>5. \A t \in p.marked : ToSet(p.more[t]) = {}
    <2>1. \A t \in p.marked : p.more[t] = <<>>
      BY ProjectsAssumption
    <2> QED
      BY <2>1, EmptyList
  <1>6. \A t \in Tasks :
          ToSet(p.more[t]) \cap (UNION {ToSet(p.groups[g]) : g \in 1..Len(p.groups)}) = {}
    BY <1>4
  <1>7. \A t \in Tasks : ToSet(project.more[t]) \cap Grouped = {}
    BY <1>p, <1>6 DEF Grouped
  <1>8. \A g, h \in Groups :
          \A t \in ToSet(project.groups[g]) \cap ToSet(project.groups[h]) : g = h
    BY <1>p, <1>2 DEF Groups
  <1> QED
    BY <1>p, <1>3, <1>5, <1>7, <1>8

LEMMA InItsGroup ==
  ASSUME project \in Projects, NEW t \in Grouped
  PROVE  /\ GroupOf(t) \in Groups
         /\ \A g \in Groups : t \in ToSet(project.groups[g]) <=> g = GroupOf(t)
  <1>1. \E g \in Groups : t \in ToSet(project.groups[g])
    BY DEF Grouped, Groups
  <1>2. GroupOf(t) \in Groups /\ t \in ToSet(project.groups[GroupOf(t)])
    BY <1>1 DEF GroupOf, Groups
  <1> QED
    BY <1>2, ProjectApart


-----------------------------------------------------------------------------
(* ----- where the tasks are: the invariant ----- *)

\* What the main thread has yet to ask, and what the consumers hold.
Listing == ToSet(outstanding) \cup ToSet(frozen)
InHands == {tsk[c] : c \in InFlight}

\* The tasks that were ever handed out or created.
Seen ==
  Listing \cup ToSet(temp_tasks) \cup ToSet(ready) \cup ToSet(out) \cup InHands \cup tasks_done

\* The group's state: what it still has is a part of its classes and tasks.
GroupInv ==
  /\ project \in Projects
  /\ group \in 1..(Len(project.groups) + 1)
  /\ {prepared, inner} \subseteq BOOLEAN
  /\ run_after \in [Tasks -> SUBSET Tasks]
  /\ keys \in Seq({project.cstr[t] : t \in Tasks})
  /\ order \subseteq ToSet(keys) \X ToSet(keys)
  /\ IF prepared
     THEN /\ group <= Len(project.groups)
          /\ ToSet(keys) \subseteq Classes /\ ToSet(temp_tasks) \subseteq ToSet(GroupTasks)
          /\ project.algotype = "MAXPARALLEL" =>
               ToSet(keys) = IF inner THEN {} ELSE Classes
     ELSE keys = <<>> /\ temp_tasks = <<>> /\ ~inner
  /\ project.algotype # "MAXPARALLEL" => ~inner
  /\ project.algotype # "JOBCONTROL" => temp_tasks = <<>>

\* Every list of tasks is without repetition, and so are the hands.
ListsInv ==
  /\ IsList(outstanding) /\ IsList(frozen) /\ IsList(temp_tasks)
  /\ IsList(ready) /\ IsList(out)
  /\ tasks_done \subseteq Tasks

HandsInv ==
  /\ tsk \in [Consumers -> Tasks \cup {NoTask}]
  /\ \A c \in Consumers : Holding(c) <=> tsk[c] # NoTask
  /\ \A c, d \in InFlight : tsk[c] = tsk[d] => c = d

\* No task is in two places.
ApartInv ==
  /\ ToSet(outstanding) \cap ToSet(frozen) = {}
  /\ Listing \cap (ToSet(temp_tasks) \cup ToSet(ready) \cup ToSet(out) \cup InHands \cup tasks_done) = {}
  /\ ToSet(temp_tasks) \cap (ToSet(ready) \cup ToSet(out) \cup InHands \cup tasks_done) = {}
  /\ ToSet(ready) \cap (ToSet(out) \cup InHands \cup tasks_done) = {}
  /\ ToSet(out) \cap (InHands \cup tasks_done) = {}
  /\ InHands \cap tasks_done = {}

\* A task of a group has a place since its group handed it out, a created one
\* at most since its creator came out.
HandedOut(t) ==
  \/ GroupOf(t) < group
  \/ /\ GroupOf(t) = group /\ prepared
     /\ IF project.algotype = "MAXPARALLEL" THEN inner ELSE project.cstr[t] \notin ToSet(keys)

SeenInv ==
  /\ \A t \in Grouped : t \in Seen <=> HandedOut(t)
  /\ \A t \in Tasks : tasks_done \cap {t} = {} => ToSet(project.more[t]) \cap Seen = {}

\* Where the main thread is: a group is asked for its next tasks when the last
\* ones are done, and the loop is left when nothing is left.
Over == group > Len(project.groups) /\ frozen = <<>> /\ count = 0
MainInv ==
  /\ main \in {"loop", "throttle", "fill", "nextset", "next", "collect",
               "built", "failed", "raised"}
  /\ main = "nextset" => count = 0 /\ frozen = <<>> /\ ToSet(outstanding) \cap Grouped = {}
  /\ main = "next" /\ outstanding = <<>> => Over
  /\ main \in {"collect", "built", "failed"} /\ ~stop => Over /\ outstanding = <<>>

\* The tasks on their way share the maxjobs that the main thread keeps.
JobsInv ==
  /\ maxjobs \in 1..MAXJOBS
  /\ count <= maxjobs
  /\ main \in {"fill", "next"} => count < maxjobs
  /\ project.algotype = "JOBCONTROL" =>
       \A t \in Grouped \cap (Listing \cup ToSet(ready) \cup ToSet(out) \cup InHands) :
         project.cstr[t].maxjobs = maxjobs

PlacesInv ==
  CountInv /\ GroupInv /\ ListsInv /\ HandsInv /\ ApartInv /\ SeenInv /\ MainInv /\ JobsInv

(* ----- what runs before what ----- *)

Writes(u, t) ==
  /\ project.file_deps # "nada"
  /\ GroupOf(u) = GroupOf(t)
  /\ project.files[u].variant = project.files[t].variant
  /\ project.files[u].outs \cap project.files[t].ins # {}

\* The group remembers the order of its remaining classes; whoever precedes a
\* task that was handed out is done, or with MAXPARALLEL waited for.
OrderInv ==
  /\ prepared /\ ~inner =>
       \A c, d \in ToSet(keys) : Compare(c, d) > 0 => <<c, d>> \in order
  /\ \A t \in Grouped, u \in Grouped : t \in Seen =>
       /\ GroupOf(u) < GroupOf(t) => u \in tasks_done
       /\ GroupOf(u) = GroupOf(t) /\ Compare(project.cstr[u], project.cstr[t]) > 0 =>
            u \in IF project.algotype = "MAXPARALLEL" THEN run_after[t] ELSE tasks_done

WaitInv ==
  /\ \A t \in Tasks : project.after[t] \subseteq run_after[t]
  /\ \A t \in Grouped, u \in Grouped :
       (GroupOf(t) < group \/ (GroupOf(t) = group /\ prepared)) /\ Writes(u, t) => u \in run_after[t]

\* The tasks the consumers have yet to run.
Unrun == ToSet(ready) \cup {tsk[c] : c \in {d \in Consumers : pc[d] \in {"check", "run"}}}
UnrunInv ==
  /\ hasrun \in [Tasks -> Statuses]
  /\ \A t \in Unrun : hasrun[t] = "NOT_RUN" /\ \A u \in run_after[t] : hasrun[u] # "NOT_RUN"

(* ----- what a failure stops ----- *)

Fine == {"SUCCESS", "SKIPPED"}
FlagsInv ==
  /\ {stop, error} \subseteq BOOLEAN
  /\ ~project.keep =>
       /\ error => stop
       /\ \A c \in Consumers : pc[c] = "error" => stop

\* A task that has run without coming out was marked.
Tried == tasks_done \cup ToSet(out) \cup InHands
MarkedInv ==
  \A t \in Tasks \ Tried : hasrun[t] # "NOT_RUN" => t \in project.marked /\ hasrun[t] = "SUCCESS"

\* Unless something has failed, whatever came out went well.
FineInv ==
  ~stop /\ ~error =>
    /\ \A t \in tasks_done : hasrun[t] \in Fine
    /\ \A t \in ToSet(out) : hasrun[t] = "SUCCESS"
    /\ \A c \in Consumers : pc[c] = "put" => hasrun[tsk[c]] = "SUCCESS"

\* Unless the build must stop, no created task is lost.
CreatedInv ==
  ~stop => \A t \in tasks_done : hasrun[t] = "SUCCESS" => ToSet(project.more[t]) \subseteq Seen

BuiltInv == main = "built" /\ ~stop => ~error

GoodInv == MarkedInv /\ FineInv /\ CreatedInv /\ BuiltInv

FailInv ==
  ~project.keep /\ project.algotype # "MAXPARALLEL" =>
    \A c \in Consumers : pc[c] = "run" /\ tsk[c] \in Grouped =>
      \A u \in Grouped : Precedes(u, tsk[c]) => u \in tasks_done /\ hasrun[u] \in Fine


(* ----- what a group hands out ----- *)

\* A group that is being built.
Building == project \in Projects /\ group \in Groups

LEMMA GroupList ==
  ASSUME Building
  PROVE  /\ IsList(GroupTasks) /\ ToSet(GroupTasks) \subseteq Grouped
         /\ IsFiniteSet(ToSet(GroupTasks)) /\ IsFiniteSet(Classes)
         /\ \A t \in Grouped : t \in ToSet(GroupTasks) <=> GroupOf(t) = group
  <1>1. IsList(GroupTasks)
    BY ProjectLists DEF Building, GroupTasks
  <1>2. ToSet(GroupTasks) \subseteq Grouped
    BY DEF Building, Groups, GroupTasks, Grouped
  <1>3. IsFiniteSet(ToSet(GroupTasks))
    BY <1>1, ElementsFinite DEF IsList
  <1>4. IsFiniteSet(Classes)
    <2>1. PICK S, cstr : S = ToSet(GroupTasks) /\ cstr = project.cstr
      OBVIOUS
    <2>2. PICK f : f = [t \in S |-> cstr[t]]
      OBVIOUS
    <2>3. f \in Surjection(S, {cstr[t] : t \in S})
      BY <2>2 DEF Surjection
    <2> QED
      BY <1>3, <2>1, <2>3, FS_Surjection DEF Classes
  <1>5. \A t \in Grouped : t \in ToSet(GroupTasks) <=> GroupOf(t) = group
    BY InItsGroup DEF Building, GroupTasks
  <1> QED
    BY <1>1, <1>2, <1>3, <1>4, <1>5

LEMMA InParallelList ==
  ASSUME Building, NEW C, keys \in Seq(C)
  PROVE  IsList(InParallel) /\ ToSet(InParallel) = Fresh
  <1>1. Fresh \subseteq ToSet(GroupTasks) /\ Fresh \subseteq Tasks /\ IsFiniteSet(Fresh)
    BY GroupList, NoElements, FS_Subset DEF Fresh
  <1>2. Orders(Fresh, ClassByClass)
    <2>1. Orders(ToSet(keys), OrderOf(keys))
      BY SequenceOrders
    <2>2. Orders(Fresh, OrderOf(GroupTasks))
      BY <1>1, GroupList, SequenceOrders DEF IsList
    <2>3. \A t \in Fresh : project.cstr[t] \in ToSet(keys)
      BY DEF Fresh, Unconnected
    <2>4. \A t, u \in Fresh :
            <<t, u>> \in ClassByClass <=>
              \/ <<project.cstr[t], project.cstr[u]>> \in OrderOf(keys)
              \/ project.cstr[t] = project.cstr[u] /\ <<t, u>> \in OrderOf(GroupTasks)
      BY DEF ClassByClass
    <2>5. PICK F, K, c, B, OK, OG :
            /\ F = Fresh /\ K = ToSet(keys) /\ c = project.cstr /\ B = ClassByClass
            /\ OK = OrderOf(keys) /\ OG = OrderOf(GroupTasks)
      OBVIOUS
    <2>6. /\ Orders(K, OK) /\ Orders(F, OG) /\ \A t \in F : c[t] \in K
          /\ \A t, u \in F : <<t, u>> \in B <=>
               <<c[t], c[u]>> \in OK \/ (c[t] = c[u] /\ <<t, u>> \in OG)
      BY <2>1, <2>2, <2>3, <2>4, <2>5
    <2>7. Orders(F, B)
      BY <2>6 DEF Orders
    <2> QED
      BY <2>5, <2>7
  <1>3. InParallel \in Seq(Fresh) /\ IsInjective(InParallel) /\ ToSet(InParallel) = Fresh
    BY <1>1, <1>2, ListedOnce DEF InParallel
  <1> QED
    BY <1>1, <1>3 DEF IsList

\* What remains of the classes once those without a predecessor went out.
LEMMA RemainderList ==
  ASSUME NEW C, keys \in Seq(C)
  PROVE  /\ Remainder(keys, order) \in Seq(C)
         /\ ToSet(Remainder(keys, order)) = {c \in ToSet(keys) : Connected(order, c)}
         /\ Remainder(keys, order) = <<>> =>
              {c \in ToSet(keys) : Connected(order, c)} = {}
  <1>1. PICK S : S = {c \in ToSet(keys) : Connected(order, c)}
    OBVIOUS
  <1>2. S \subseteq ToSet(keys) /\ IsFiniteSet(S) /\ S \subseteq C
    <2>1. S \subseteq ToSet(keys)
      BY <1>1
    <2>2. ToSet(keys) \subseteq C
      BY DEF ToSet
    <2> QED
      BY <2>1, <2>2, ElementsFinite, FS_Subset
  <1>3. Orders(S, OrderOf(keys))
    BY <1>2, SequenceOrders
  <1>4. PICK r : r = Listed(S, OrderOf(keys))
    OBVIOUS
  <1>5. r \in Seq(S) /\ ToSet(r) = S
    BY <1>2, <1>3, <1>4, ListedOnce
  <1>6. r \in Seq(C)
    BY <1>2, <1>5
  <1>7. Remainder(keys, order) = r
    BY <1>1, <1>4 DEF Remainder
  <1> QED
    BY <1>1, <1>5, <1>6, <1>7, EmptyList


\* The lists that get_next_set hands out and keeps for later.
HandedList == NextTasks.now
KeptList == NextTasks.later
InHand ==
  CASE project.algotype = "MAXPARALLEL"                       -> IF inner THEN {} ELSE ToSet(GroupTasks)
    [] project.algotype # "MAXPARALLEL" /\ temp_tasks = <<>> -> Fresh
    [] project.algotype # "MAXPARALLEL" /\ temp_tasks # <<>> -> ToSet(temp_tasks)

LEMMA NextTasksList ==
  ASSUME Building, GroupInv, IsList(temp_tasks)
  PROVE  /\ IsList(HandedList) /\ IsList(KeptList)
         /\ ToSet(HandedList) \cap ToSet(KeptList) = {}
         /\ ToSet(HandedList) \cup ToSet(KeptList) = InHand
         /\ NextTasks.jobs \in 1..MAXJOBS
         /\ HandedList = <<>> => InHand = {}
         /\ project.algotype = "JOBCONTROL" =>
              \A t \in ToSet(HandedList) : project.cstr[t].maxjobs = NextTasks.jobs
         /\ project.algotype # "JOBCONTROL" => KeptList = <<>>
  <1>m. MAXJOBS \in 1..MAXJOBS
    BY RunnerAssumption
  <1>e. IsList(<<>>) /\ ToSet(<<>>) = {}
    BY EmptyList
  <1>p. IsList(InParallel) /\ ToSet(InParallel) = Fresh
    <2>1. keys \in Seq({project.cstr[t] : t \in Tasks})
      BY DEF GroupInv
    <2> QED
      BY <2>1, InParallelList
  <1>a. project.algotype \in {"NORMAL", "JOBCONTROL", "MAXPARALLEL"}
    BY ProjectsAssumption DEF Building
  <1>1. CASE project.algotype = "NORMAL"
    <2>1. HandedList = InParallel /\ KeptList = <<>> /\ NextTasks.jobs = MAXJOBS
      BY <1>1 DEF HandedList, KeptList, NextTasks
    <2>2. InHand = Fresh
      BY <1>1 DEF InHand, GroupInv
    <2> QED
      BY <1>1, <1>m, <1>e, <1>p, <2>1, <2>2
  <1>2. CASE project.algotype = "MAXPARALLEL"
    <2>1. HandedList = (IF inner THEN <<>> ELSE GroupTasks) /\ KeptList = <<>>
          /\ NextTasks.jobs = MAXJOBS
      BY <1>2 DEF HandedList, KeptList, NextTasks
    <2>2. InHand = IF inner THEN {} ELSE ToSet(GroupTasks)
      BY <1>2 DEF InHand
    <2>3. IsList(GroupTasks)
      BY GroupList
    <2> QED
      BY <1>2, <1>m, <1>e, <2>1, <2>2, <2>3
  <1>3. CASE project.algotype = "JOBCONTROL"
    <2>1. IsList(Held) /\ ToSet(Held) = InHand
      BY <1>3, <1>p DEF Held, InHand
    <2>2. PICK q, cstr, r : q = Held /\ cstr = project.cstr /\ r = TasksByMaxJobs(q, cstr)
      OBVIOUS
    <2>3. Sorted(r, ToSet(q), cstr)
      <3>1. IsList(q) /\ \A t \in Tasks : cstr[t].maxjobs \in 1..MAXJOBS
        BY <2>1, <2>2, ProjectLists DEF Building
      <3> QED
        BY <2>2, <3>1, JobsSorted
    <2>4. NextTasks = r
      BY <1>3, <2>2 DEF NextTasks
    <2>5. /\ IsList(r.now) /\ IsList(r.later)
          /\ ToSet(r.now) \cap ToSet(r.later) = {} /\ ToSet(r.now) \cup ToSet(r.later) = InHand
          /\ r.now = <<>> => InHand = {}
          /\ \A t \in ToSet(r.now) : cstr[t].maxjobs = r.jobs
      BY <2>1, <2>2, <2>3 DEF Sorted
    <2>6. r.jobs \in 1..MAXJOBS
      BY <1>m, <2>3 DEF Sorted
    <2> QED
      BY <1>3, <2>2, <2>4, <2>5, <2>6 DEF HandedList, KeptList
  <1> QED
    BY <1>a, <1>1, <1>2, <1>3


(* ----- where the tasks are: the steps ----- *)

\* The part of the invariant that says where the tasks are, and the numbers.
WhereInv == GroupInv /\ ListsInv /\ HandsInv /\ ApartInv /\ SeenInv
JobsOf(S) ==
  project.algotype = "JOBCONTROL" => \A t \in Grouped \cap S : project.cstr[t].maxjobs = maxjobs
OnTheWay == Listing \cup ToSet(ready) \cup ToSet(out) \cup InHands

LEMMA Numbers ==
  ASSUME CountInv, JobsInv
  PROVE  count \in Nat /\ maxjobs \in Nat
  BY QueueLength, InFlightFinite, RunnerAssumption DEF CountInv, CountIsInFlight, JobsInv

LEMMA GroupFrame ==
  ASSUME GroupInv, UNCHANGED <<project, groupVars>>
  PROVE  GroupInv'
  BY DEF GroupInv, groupVars, Classes, GroupTasks

LEMMA HandsFrame ==
  ASSUME HandsInv, UNCHANGED <<pc, tsk>>
  PROVE  HandsInv' /\ InHands' = InHands
  BY DEF HandsInv, InHands, InFlight, Holding

LEMMA HandedFrame ==
  ASSUME UNCHANGED <<project, groupVars>>
  PROVE  Grouped' = Grouped /\ \A t \in Grouped : HandedOut(t)' <=> HandedOut(t)
  BY DEF Grouped, HandedOut, GroupOf, groupVars

\* Tasks that a finished one created may get a place.
LEMMA SeenGrows ==
  ASSUME project \in Projects, SeenInv, UNCHANGED <<project, groupVars>>, NEW X,
         Seen' = Seen \cup X, tasks_done \subseteq tasks_done', tasks_done' \subseteq Tasks,
         \A x \in X : \E h \in tasks_done' : x \in ToSet(project.more[h])
  PROVE  SeenInv'
  <1>1. X \cap Grouped = {}
    BY ProjectApart
  <1>2. \A t \in Grouped' : t \in Seen' <=> HandedOut(t)'
    BY <1>1, HandedFrame DEF SeenInv
  <1>3. ASSUME NEW t \in Tasks, tasks_done' \cap {t} = {}
        PROVE  ToSet(project.more[t]) \cap Seen' = {}
    <2>1. ToSet(project.more[t]) \cap Seen = {}
      BY <1>3 DEF SeenInv
    <2>2. ASSUME NEW x \in X PROVE x \notin ToSet(project.more[t])
      <3>1. PICK h \in tasks_done' : x \in ToSet(project.more[h])
        BY <2>2
      <3>2. h # t /\ h \in Tasks
        BY <1>3
      <3> QED
        BY <3>1, <3>2, ProjectApart
    <2> QED
      BY <2>1, <2>2
  <1> QED
    BY <1>2, <1>3 DEF SeenInv

\* Steps that move no task.
LEMMA NoTaskMoves ==
  ASSUME WhereInv, UNCHANGED <<project, groupVars, outstanding, frozen, ready, out, tasks_done>>,
         HandsInv', InHands' = InHands
  PROVE  WhereInv' /\ OnTheWay' = OnTheWay /\ Seen \subseteq Seen'
  <1>1. GroupInv'
    BY GroupFrame DEF WhereInv
  <1>2. ListsInv'
    BY DEF WhereInv, ListsInv, groupVars
  <1>3. ApartInv' /\ OnTheWay' = OnTheWay
    BY DEF WhereInv, ApartInv, Listing, OnTheWay, groupVars
  <1>4. PICK X : X = {}
    OBVIOUS
  <1>5. SeenInv'
    <2>1. Seen' = Seen \cup X
      BY <1>4 DEF Seen, Listing, groupVars
    <2>2. project \in Projects /\ SeenInv /\ UNCHANGED <<project, groupVars>>
      BY DEF WhereInv, GroupInv
    <2>3. tasks_done \subseteq tasks_done' /\ tasks_done' \subseteq Tasks
      BY <1>2 DEF ListsInv
    <2>4. \A x \in X : \E h \in tasks_done' : x \in ToSet(project.more[h])
      BY <1>4
    <2> QED
      BY <2>1, <2>2, <2>3, <2>4, SeenGrows
  <1>6. Seen \subseteq Seen'
    BY DEF Seen, Listing, groupVars
  <1> QED
    BY <1>1, <1>2, <1>3, <1>5, <1>6 DEF WhereInv

LEMMA JobsFrame ==
  ASSUME JobsInv, UNCHANGED <<project, maxjobs, count>>, OnTheWay' \cap Grouped \subseteq OnTheWay,
         main' \in {"fill", "next"} => main \in {"fill", "next"} \/ count < maxjobs
  PROVE  JobsInv'
  BY DEF JobsInv, OnTheWay, Grouped

LEMMA MainStays ==
  ASSUME PlacesInv,
         Loop \/ EndThrottle \/ Filled \/ RaiseCircular \/ NoMoreGroups \/ NothingLeft \/ Leave
  PROVE  PlacesInv' /\ Seen \subseteq Seen'
  <1>1. UNCHANGED <<project, groupVars, listVars, flagVars, queueVars, consVars>>
    BY DEF Loop, EndThrottle, Filled, RaiseCircular, NoMoreGroups, NothingLeft, Leave
  <1>2. CountInv'
    BY MainKeepsCount DEF PlacesInv, Main
  <1>3. HandsInv' /\ InHands' = InHands
    BY <1>1, HandsFrame DEF PlacesInv, consVars
  <1>4. WhereInv' /\ OnTheWay' = OnTheWay /\ Seen \subseteq Seen'
    BY <1>1, <1>3, NoTaskMoves DEF PlacesInv, WhereInv, listVars, queueVars
  <1>5. count \in Nat /\ maxjobs \in Nat
    BY Numbers DEF PlacesInv
  <1>6. main' \in {"fill", "next"} => count < maxjobs
    <2>1. CASE EndThrottle
      BY <1>5, <2>1 DEF EndThrottle, Busy
    <2>2. CASE Filled
      BY <2>2 DEF Filled, MainGoto, PlacesInv, JobsInv
    <2>3. CASE NoMoreGroups
      BY <2>3 DEF NoMoreGroups, MainGoto, PlacesInv, MainInv, JobsInv
    <2>4. CASE Loop \/ RaiseCircular \/ NothingLeft \/ Leave
      BY <2>4 DEF Loop, RaiseCircular, NothingLeft, Leave
    <2> QED
      BY <2>1, <2>2, <2>3, <2>4
  <1>7. JobsInv'
    BY <1>1, <1>4, <1>6, JobsFrame DEF PlacesInv, listVars
  <1>8. MainInv'
    <2>1. CASE Loop
      BY <2>1 DEF Loop, MainInv, Over, flagVars
    <2>2. CASE EndThrottle
      BY <2>2 DEF EndThrottle, MainGoto, MainInv, Over, flagVars
    <2>3. CASE Filled
      BY <2>3 DEF Filled, MainGoto, MainInv, Over, flagVars, listVars
    <2>4. CASE RaiseCircular
      BY <2>4 DEF RaiseCircular, MainInv, Over, flagVars
    <2>5. CASE NoMoreGroups
      BY <2>5 DEF NoMoreGroups, MainGoto, PlacesInv, MainInv, Over, groupVars, listVars
    <2>6. CASE NothingLeft
      BY <2>6 DEF NothingLeft, PlacesInv, MainInv, Over, groupVars, listVars
    <2>7. CASE Leave
      BY <2>7 DEF Leave, PlacesInv, MainInv, Over, groupVars, listVars, flagVars
    <2> QED
      BY <2>1, <2>2, <2>3, <2>4, <2>5, <2>6, <2>7
  <1> QED
    BY <1>2, <1>4, <1>7, <1>8 DEF PlacesInv, WhereInv


\* get_out: the task is done, the tasks it created are new.
LEMMA TaskComesOut ==
  ASSUME WhereInv, GetOut, UNCHANGED <<project, groupVars, consVars>>,
         IsList(outstanding'), IsList(frozen'), ToSet(outstanding') \cap ToSet(frozen') = {},
         Listing' = Listing \cup ToSet(Extra)
  PROVE  WhereInv' /\ OnTheWay' \cap Grouped \subseteq OnTheWay /\ Seen \subseteq Seen'
  <1>h. PICK h, X : h = Head(out) /\ X = ToSet(Extra)
    OBVIOUS
  <1>0. project \in Projects /\ GroupInv /\ ListsInv /\ HandsInv /\ ApartInv /\ SeenInv
    BY DEF WhereInv, GroupInv
  <1>1. /\ IsList(out') /\ ToSet(out') = ToSet(out) \ {h} /\ h \in ToSet(out) /\ h \in Tasks
        /\ tasks_done' = tasks_done \cup {h} /\ ready' = ready
    BY <1>0, <1>h, TailList DEF GetOut, ListsInv
  <1>2. X \subseteq ToSet(project.more[h])
    BY <1>h, EmptyList DEF Extra
  <1>3. h \notin tasks_done /\ h \notin Seen \ ToSet(out)
    BY <1>0, <1>1 DEF ApartInv, Seen
  <1>4. X \cap Seen = {} /\ X \cap Grouped = {}
    <2>1. ToSet(project.more[h]) \cap Seen = {}
      BY <1>0, <1>1, <1>3 DEF SeenInv
    <2>2. ToSet(project.more[h]) \cap Grouped = {}
      BY <1>0, <1>1, ProjectApart
    <2> QED
      BY <1>2, <2>1, <2>2
  <1>5. HandsInv' /\ InHands' = InHands
    BY <1>0, HandsFrame DEF consVars
  <1>6. temp_tasks' = temp_tasks
    BY DEF groupVars
  <1>7. ListsInv'
    BY <1>0, <1>1, <1>6 DEF ListsInv
  <1>8. Listing' = Listing \cup X
    BY <1>h
  <1>9. ApartInv'
    BY <1>0, <1>1, <1>3, <1>4, <1>5, <1>6, <1>8 DEF ApartInv, Seen
  <1>10. SeenInv'
    <2>1. Seen' = Seen \cup X
      BY <1>1, <1>5, <1>6, <1>8 DEF Seen
    <2>2. tasks_done \subseteq tasks_done' /\ tasks_done' \subseteq Tasks
      BY <1>1, <1>7 DEF ListsInv
    <2>3. \A x \in X : \E g \in tasks_done' : x \in ToSet(project.more[g])
      BY <1>1, <1>2
    <2> QED
      BY <1>0, <2>1, <2>2, <2>3, SeenGrows
  <1>11. GroupInv'
    BY <1>0, GroupFrame
  <1>12. OnTheWay' \cap Grouped \subseteq OnTheWay
    BY <1>1, <1>4, <1>5, <1>8 DEF OnTheWay
  <1>13. Seen \subseteq Seen'
    BY <1>1, <1>5, <1>6, <1>8 DEF Seen
  <1> QED
    BY <1>5, <1>7, <1>9, <1>10, <1>11, <1>12, <1>13 DEF WhereInv

\* The tasks a finished one created have no place yet.
LEMMA ExtraList ==
  ASSUME WhereInv, out # <<>>
  PROVE  /\ IsList(Extra) /\ ToSet(Extra) \cap Listing = {}
         /\ ToSet(Extra) \cap Grouped = {}
  <1>h. PICK h : h = Head(out)
    OBVIOUS
  <1>0. project \in Projects /\ ListsInv /\ ApartInv /\ SeenInv
    BY DEF WhereInv, GroupInv
  <1>1. h \in ToSet(out) /\ h \in Tasks /\ h \notin tasks_done
    BY <1>0, <1>h, TailList DEF ListsInv, ApartInv
  <1>2. Extra = <<>> \/ Extra = project.more[h]
    BY <1>h DEF Extra
  <1>3. ToSet(project.more[h]) \cap Seen = {} /\ ToSet(project.more[h]) \cap Grouped = {}
    BY <1>0, <1>1, ProjectApart DEF SeenInv
  <1>4. IsList(project.more[h])
    BY <1>0, <1>1, ProjectLists
  <1> QED
    BY <1>2, <1>3, <1>4, EmptyList DEF Seen

LEMMA MainGetsOut ==
  ASSUME PlacesInv, Throttle \/ FillGetOut \/ Collect
  PROVE  PlacesInv' /\ Seen \subseteq Seen' /\ ToSet(Extra) \subseteq Seen'
  <1>0. /\ GetOut /\ UNCHANGED <<project, groupVars, flagVars, consVars>> /\ out # <<>>
        /\ WhereInv /\ ListsInv /\ ApartInv /\ JobsInv /\ MainInv
    BY DEF Throttle, FillGetOut, Collect, GetOut, PlacesInv, WhereInv
  <1>1. IsList(Extra) /\ ToSet(Extra) \cap Listing = {} /\ ToSet(Extra) \cap Grouped = {}
    BY <1>0, ExtraList
  <1>2. /\ IsList(outstanding') /\ IsList(frozen') /\ ToSet(outstanding') \cap ToSet(frozen') = {}
        /\ Listing' = Listing \cup ToSet(Extra)
    <2>1. CASE Throttle \/ Collect
      <3>1. outstanding' = outstanding \o Extra /\ frozen' = frozen
        BY <2>1 DEF Throttle, Collect
      <3>2. IsList(outstanding) /\ IsList(frozen) /\ ToSet(outstanding) \cap ToSet(Extra) = {}
        BY <1>0, <1>1 DEF ListsInv, Listing
      <3>3. /\ IsList(outstanding \o Extra)
            /\ ToSet(outstanding \o Extra) = ToSet(outstanding) \cup ToSet(Extra)
        BY <1>1, <3>2, JoinedList
      <3> QED
        BY <1>0, <1>1, <3>1, <3>2, <3>3 DEF ApartInv, Listing
    <2>2. CASE FillGetOut
      <3>1. outstanding' = Extra \o frozen /\ frozen' = <<>> /\ outstanding = <<>>
        BY <2>2 DEF FillGetOut
      <3>2. IsList(frozen) /\ ToSet(Extra) \cap ToSet(frozen) = {}
        BY <1>0, <1>1 DEF ListsInv, Listing
      <3>3. IsList(Extra \o frozen) /\ ToSet(Extra \o frozen) = ToSet(Extra) \cup ToSet(frozen)
        BY <1>1, <3>2, JoinedList
      <3> QED
        BY <3>1, <3>3, EmptyList DEF Listing
    <2> QED
      BY <2>1, <2>2
  <1>3. WhereInv' /\ OnTheWay' \cap Grouped \subseteq OnTheWay /\ Seen \subseteq Seen'
    BY <1>0, <1>2, TaskComesOut
  <1>4. CountInv'
    BY MainKeepsCount DEF PlacesInv, Main
  <1>5. count \in Nat /\ maxjobs \in Nat /\ count' = count - 1 /\ maxjobs' = maxjobs
    BY <1>0, Numbers DEF PlacesInv, GetOut
  <1>6. JobsInv'
    BY <1>0, <1>3, <1>5 DEF JobsInv, OnTheWay, Grouped
  <1>7. MainInv'
    <2>1. CASE Throttle
      BY <1>0, <2>1 DEF Throttle, MainInv
    <2>2. CASE FillGetOut
      <3>1. main' = IF frozen = <<>> /\ count = 1 THEN "nextset" ELSE "fill"
        BY <2>2 DEF FillGetOut
      <3>2. CASE frozen = <<>> /\ count = 1
        <4>1. main' = "nextset" /\ count' = 0 /\ frozen' = <<>>
          BY <1>5, <3>1, <3>2, <2>2 DEF FillGetOut
        <4>2. ToSet(outstanding') \cap Grouped = {}
          <5>1. Listing' = ToSet(Extra)
            BY <1>2, <2>2, <3>2, EmptyList DEF FillGetOut, Listing
          <5> QED
            BY <1>1, <5>1 DEF Listing
        <4>3. Grouped' = Grouped
          BY <1>0 DEF Grouped
        <4> QED
          BY <4>1, <4>2, <4>3 DEF MainInv
      <3>3. CASE ~(frozen = <<>> /\ count = 1)
        BY <3>1, <3>3 DEF MainInv
      <3> QED
        BY <3>2, <3>3
    <2>3. CASE Collect
      <3>1. main = "collect" /\ main' = "collect" /\ count > 0 /\ stop' = stop
        BY <1>0, <2>3 DEF Collect, flagVars
      <3>2. stop
        BY <1>0, <1>5, <3>1 DEF MainInv, Over
      <3> QED
        BY <3>1, <3>2 DEF MainInv
    <2> QED
      BY <2>1, <2>2, <2>3
  <1>8. ToSet(Extra) \subseteq Seen'
    BY <1>2 DEF Seen
  <1> QED
    BY <1>3, <1>4, <1>6, <1>7, <1>8 DEF PlacesInv, WhereInv


\* A step that gives the tasks other places, and creates none.
LEMMA TasksMove ==
  ASSUME WhereInv, UNCHANGED <<project, groupVars>>, HandsInv', ListsInv', ApartInv',
         Seen' = Seen, tasks_done \subseteq tasks_done'
  PROVE  WhereInv'
  <1>1. PICK X : X = {}
    OBVIOUS
  <1>2. SeenInv'
    <2>1. Seen' = Seen \cup X
      BY <1>1
    <2>2. project \in Projects /\ SeenInv /\ UNCHANGED <<project, groupVars>>
      BY DEF WhereInv, GroupInv
    <2>3. tasks_done' \subseteq Tasks
      BY DEF ListsInv
    <2>4. \A x \in X : \E h \in tasks_done' : x \in ToSet(project.more[h])
      BY <1>1
    <2> QED
      BY <2>1, <2>2, <2>3, <2>4, SeenGrows
  <1>3. GroupInv'
    BY GroupFrame DEF WhereInv
  <1> QED
    BY <1>2, <1>3 DEF WhereInv

\* The frozen tasks thaw.
LEMMA MainThaws ==
  ASSUME PlacesInv, FillIdle
  PROVE  PlacesInv' /\ Seen \subseteq Seen'
  <1>0. /\ UNCHANGED <<project, groupVars, maxjobs, tasks_done, count, flagVars, queueVars, consVars>>
        /\ outstanding = <<>> /\ outstanding' = frozen /\ frozen' = <<>> /\ count = 0
        /\ main' = IF frozen = <<>> THEN "nextset" ELSE "fill"
        /\ WhereInv /\ ListsInv /\ ApartInv /\ JobsInv
    BY DEF FillIdle, PlacesInv, WhereInv
  <1>1. HandsInv' /\ InHands' = InHands
    BY HandsFrame, <1>0 DEF PlacesInv, consVars
  <1>2. ready' = ready /\ out' = out /\ temp_tasks' = temp_tasks /\ Grouped' = Grouped
    BY <1>0 DEF queueVars, groupVars, Grouped
  <1>3. ListsInv'
    BY <1>0, <1>2, EmptyList DEF ListsInv
  <1>4. Listing' = Listing
    BY <1>0, EmptyList DEF Listing
  <1>5. ApartInv' /\ Seen' = Seen /\ OnTheWay' = OnTheWay
    BY <1>0, <1>1, <1>2, <1>4, EmptyList DEF ApartInv, Seen, OnTheWay
  <1>6. WhereInv'
    BY <1>0, <1>1, <1>3, <1>5, TasksMove
  <1>7. CountInv'
    BY MainKeepsCount DEF PlacesInv, Main
  <1>8. JobsInv'
    <2>1. count < maxjobs
      BY <1>0, RunnerAssumption DEF JobsInv
    <2> QED
      BY <1>0, <1>5, <2>1, JobsFrame
  <1>9. MainInv'
    BY <1>0, EmptyList DEF MainInv
  <1> QED
    BY <1>5, <1>6, <1>7, <1>8, <1>9 DEF PlacesInv, WhereInv

\* The head of outstanding leaves it.
LEMMA TakeHead ==
  ASSUME PlacesInv, Take, main' = "loop", NEW t, t = NextTask
  PROVE  /\ t \in Tasks /\ IsList(outstanding') /\ ToSet(outstanding') = ToSet(outstanding) \ {t}
         /\ t \in ToSet(outstanding) /\ MainInv'
  <1>1. /\ t \in Tasks /\ IsList(outstanding') /\ ToSet(outstanding') = ToSet(outstanding) \ {t}
        /\ t \in ToSet(outstanding)
    BY TailList DEF Take, NextTask, PlacesInv, ListsInv
  <1>2. MainInv'
    BY DEF MainInv
  <1> QED
    BY <1>1, <1>2

\* The task is over without a consumer.
LEMMA MainFinishes ==
  ASSUME PlacesInv, HasRun \/ StatusRaises \/ Skip
  PROVE  PlacesInv' /\ Seen \subseteq Seen'
  <1>t. PICK t : t = NextTask
    OBVIOUS
  <1>0. /\ Take /\ main' = "loop" /\ tasks_done' = tasks_done \cup {t}
        /\ UNCHANGED <<project, groupVars, frozen, maxjobs, count, queueVars, consVars>>
        /\ WhereInv /\ ListsInv /\ ApartInv /\ JobsInv
    BY <1>t DEF HasRun, StatusRaises, Skip, Finish, PlacesInv, WhereInv
  <1>1. /\ t \in Tasks /\ IsList(outstanding') /\ ToSet(outstanding') = ToSet(outstanding) \ {t}
        /\ t \in ToSet(outstanding) /\ MainInv'
    BY <1>t, <1>0, TakeHead
  <1>2. HandsInv' /\ InHands' = InHands
    BY HandsFrame, <1>0 DEF PlacesInv, consVars
  <1>3. ready' = ready /\ out' = out /\ temp_tasks' = temp_tasks /\ Grouped' = Grouped
    BY <1>0 DEF queueVars, groupVars, Grouped
  <1>4. ListsInv'
    BY <1>0, <1>1, <1>3 DEF ListsInv
  <1>5. t \notin ToSet(frozen) /\ Listing' = Listing \ {t} /\ t \in Listing
    BY <1>0, <1>1 DEF Listing, ApartInv
  <1>6. ApartInv' /\ Seen' = Seen /\ OnTheWay' \subseteq OnTheWay
    <2>1. ApartInv'
      BY <1>0, <1>1, <1>2, <1>3, <1>5 DEF ApartInv
    <2>2. Seen' = Seen
      BY <1>0, <1>1, <1>2, <1>3, <1>5 DEF Seen
    <2>3. OnTheWay' \subseteq OnTheWay
      BY <1>2, <1>3, <1>5 DEF OnTheWay
    <2> QED
      BY <2>1, <2>2, <2>3
  <1>7. WhereInv'
    BY <1>0, <1>2, <1>4, <1>6, TasksMove
  <1>8. CountInv'
    BY MainKeepsCount DEF PlacesInv, Main
  <1>9. JobsInv'
    BY <1>0, <1>6, JobsFrame
  <1> QED
    BY <1>6, <1>1, <1>7, <1>8, <1>9 DEF PlacesInv, WhereInv

LEMMA MainPostpones ==
  ASSUME PlacesInv, Postpone
  PROVE  PlacesInv' /\ Seen \subseteq Seen'
  <1>t. PICK t : t = NextTask
    OBVIOUS
  <1>0. /\ Take /\ main' = "loop" /\ frozen' \in {<<t>> \o frozen, Append(frozen, t)}
        /\ UNCHANGED <<project, groupVars, maxjobs, tasks_done, count, queueVars, consVars>>
        /\ WhereInv /\ ListsInv /\ ApartInv /\ JobsInv
    BY <1>t DEF Postpone, PlacesInv, WhereInv
  <1>1. /\ t \in Tasks /\ IsList(outstanding') /\ ToSet(outstanding') = ToSet(outstanding) \ {t}
        /\ t \in ToSet(outstanding) /\ MainInv'
    BY <1>t, <1>0, TakeHead
  <1>2. HandsInv' /\ InHands' = InHands
    BY HandsFrame, <1>0 DEF PlacesInv, consVars
  <1>3. ready' = ready /\ out' = out /\ temp_tasks' = temp_tasks /\ Grouped' = Grouped
    BY <1>0 DEF queueVars, groupVars, Grouped
  <1>4. IsList(frozen') /\ ToSet(frozen') = ToSet(frozen) \cup {t} /\ t \notin ToSet(frozen)
    <2>1. t \notin ToSet(frozen) /\ IsList(frozen)
      BY <1>0, <1>1 DEF ListsInv, ApartInv
    <2>2. /\ IsList(Append(frozen, t)) /\ ToSet(Append(frozen, t)) = ToSet(frozen) \cup {t}
          /\ IsList(<<t>> \o frozen) /\ ToSet(<<t>> \o frozen) = ToSet(frozen) \cup {t}
      BY <1>1, <2>1, AppendedList
    <2> QED
      BY <1>0, <2>1, <2>2
  <1>5. ListsInv'
    BY <1>0, <1>1, <1>3, <1>4 DEF ListsInv
  <1>6. Listing' = Listing
    BY <1>1, <1>4 DEF Listing
  <1>7. ApartInv' /\ Seen' = Seen /\ OnTheWay' = OnTheWay
    BY <1>0, <1>1, <1>2, <1>3, <1>4, <1>6 DEF ApartInv, Seen, OnTheWay
  <1>8. WhereInv'
    BY <1>0, <1>2, <1>5, <1>7, TasksMove
  <1>9. CountInv'
    BY MainKeepsCount DEF PlacesInv, Main
  <1>10. JobsInv'
    BY <1>0, <1>7, JobsFrame
  <1> QED
    BY <1>7, <1>1, <1>8, <1>9, <1>10 DEF PlacesInv, WhereInv

LEMMA MainPutsReady ==
  ASSUME PlacesInv, PutReady
  PROVE  PlacesInv' /\ Seen \subseteq Seen'
  <1>t. PICK t : t = NextTask
    OBVIOUS
  <1>0. /\ Take /\ main = "next" /\ main' = "loop" /\ ready' = Append(ready, t) /\ count' = count + 1
        /\ pc' = [c \in Consumers |-> IF pc[c] = "unborn" /\ c \in Workers THEN "get" ELSE pc[c]]
        /\ UNCHANGED <<project, groupVars, frozen, maxjobs, tasks_done, out, tsk>>
        /\ WhereInv /\ ListsInv /\ ApartInv /\ JobsInv /\ HandsInv
    BY <1>t DEF PutReady, Take, PlacesInv, WhereInv
  <1>1. /\ t \in Tasks /\ IsList(outstanding') /\ ToSet(outstanding') = ToSet(outstanding) \ {t}
        /\ t \in ToSet(outstanding) /\ MainInv'
    BY <1>t, <1>0, TakeHead
  <1>2. HandsInv' /\ InHands' = InHands
    <2>1. \A c \in Consumers : Holding(c)' <=> Holding(c)
      BY <1>0 DEF Holding
    <2>2. InFlight' = InFlight
      BY <2>1 DEF InFlight
    <2> QED
      BY <1>0, <2>1, <2>2 DEF HandsInv, InHands
  <1>3. temp_tasks' = temp_tasks /\ Grouped' = Grouped
    BY <1>0 DEF groupVars, Grouped
  <1>4. IsList(ready') /\ ToSet(ready') = ToSet(ready) \cup {t} /\ t \notin ToSet(ready)
    <2>1. t \notin ToSet(ready) /\ IsList(ready)
      BY <1>0, <1>1 DEF ListsInv, ApartInv, Listing
    <2> QED
      BY <1>0, <1>1, <2>1, AppendedList
  <1>5. ListsInv'
    BY <1>0, <1>1, <1>3, <1>4 DEF ListsInv
  <1>6. t \notin ToSet(frozen) /\ Listing' = Listing \ {t} /\ t \in Listing
    BY <1>0, <1>1 DEF Listing, ApartInv
  <1>7. ApartInv' /\ Seen' = Seen /\ OnTheWay' = OnTheWay
    <2>1. ApartInv'
      BY <1>0, <1>1, <1>2, <1>3, <1>4, <1>6 DEF ApartInv
    <2>2. Seen' = Seen /\ OnTheWay' = OnTheWay
      BY <1>0, <1>1, <1>2, <1>3, <1>4, <1>6 DEF Seen, OnTheWay
    <2> QED
      BY <2>1, <2>2
  <1>8. WhereInv'
    BY <1>0, <1>2, <1>5, <1>7, TasksMove
  <1>9. CountInv'
    BY MainKeepsCount DEF PlacesInv, Main
  <1>10. JobsInv'
    <2>1. count \in Nat /\ maxjobs \in Nat /\ count < maxjobs
      BY <1>0, Numbers DEF PlacesInv, JobsInv
    <2> QED
      BY <1>0, <1>3, <1>7, <2>1 DEF JobsInv, OnTheWay
  <1> QED
    BY <1>7, <1>1, <1>8, <1>9, <1>10 DEF PlacesInv, WhereInv


LEMMA NothingInFlight ==
  ASSUME CountInv, count = 0
  PROVE  ready = <<>> /\ out = <<>> /\ InFlight = {}
  <1>1. Len(ready) = 0 /\ Len(out) = 0 /\ Cardinality(InFlight) = 0
    BY QueueLength, InFlightFinite DEF CountInv, CountIsInFlight
  <1>2. ready = <<>> /\ out = <<>>
    BY <1>1, EmptyQueue DEF CountInv
  <1>3. InFlight = {}
    BY <1>1, InFlightFinite, FS_EmptySet
  <1> QED
    BY <1>2, <1>3

\* What prepare makes of the group.
LEMMA Prepared ==
  ASSUME Building, GroupInv, Prepare
  PROVE  /\ keys' \in Seq({project.cstr[t] : t \in Tasks}) /\ ToSet(keys') = Classes
         /\ order' \subseteq ToSet(keys') \X ToSet(keys')
         /\ run_after' \in [Tasks -> SUBSET Tasks]
         /\ temp_tasks = <<>> /\ ~inner
  <1>1. keys' \in Seq(Classes) /\ ToSet(keys') = Classes
    BY GroupList, SetListed DEF Prepare
  <1>2. ToSet(GroupTasks) \subseteq Tasks
    BY GroupList, NoElements
  <1>3. Classes \subseteq {project.cstr[t] : t \in Tasks}
    BY <1>2 DEF Classes
  <1>4. order' \subseteq ToSet(keys') \X ToSet(keys')
    <2>1. \A i \in 1..Len(keys') : keys'[i] \in ToSet(keys')
      BY <1>1 DEF ToSet
    <2> QED
      BY <2>1 DEF Prepare, ExtractConstraints
  <1>5. run_after' \in [Tasks -> SUBSET Tasks]
    <2>1. FileDeps \subseteq ToSet(GroupTasks) \X ToSet(GroupTasks)
      <3>1. project.file_deps \in {"nada", "extract_outputs", "extract_deps"}
        BY ProjectsAssumption DEF Building
      <3>2. ExtractOutputs(GroupTasks, project.files) \subseteq ToSet(GroupTasks) \X ToSet(GroupTasks)
        BY DEF ExtractOutputs
      <3>3. ExtractDeps(GroupTasks, project.files) \subseteq ToSet(GroupTasks) \X ToSet(GroupTasks)
        BY <3>2 DEF ExtractDeps
      <3> QED
        BY <3>1, <3>2, <3>3 DEF FileDeps
    <2>2. \A t \in Tasks : {q[2] : q \in {p \in FileDeps : p[1] = t}} \subseteq Tasks
      BY <1>2, <2>1
    <2>3. \A t \in Tasks : run_after[t] \subseteq Tasks
      BY DEF GroupInv
    <2> QED
      BY <2>2, <2>3 DEF Prepare
  <1>6. temp_tasks = <<>> /\ ~inner
    BY DEF Prepare, GroupInv
  <1>7. keys' \in Seq({project.cstr[t] : t \in Tasks})
    BY <1>1, <1>3
  <1> QED
    BY <1>1, <1>4, <1>5, <1>6, <1>7

LEMMA MainPrepares ==
  ASSUME PlacesInv, PrepareGroup
  PROVE  PlacesInv' /\ Seen \subseteq Seen'
  <1>0. /\ main = "nextset" /\ Prepare
        /\ UNCHANGED <<main, project, listVars, flagVars, queueVars, consVars>>
        /\ GroupInv /\ WhereInv /\ ListsInv /\ ApartInv /\ JobsInv
        /\ ~prepared /\ prepared' = TRUE /\ UNCHANGED <<group, temp_tasks, inner>>
    BY DEF PrepareGroup, Prepare, PlacesInv, WhereInv
  <1>1. Building
    BY DEF PrepareGroup, PlacesInv, GroupInv, Building, Groups
  <1>2. /\ keys' \in Seq({project.cstr[t] : t \in Tasks}) /\ ToSet(keys') = Classes
        /\ order' \subseteq ToSet(keys') \X ToSet(keys')
        /\ run_after' \in [Tasks -> SUBSET Tasks]
        /\ temp_tasks = <<>> /\ ~inner
    BY <1>0, <1>1, Prepared
  <1>3. GroupInv'
    <2>1. GroupTasks' = GroupTasks /\ Classes' = Classes
      BY <1>0 DEF GroupTasks, Classes
    <2>2. group <= Len(project.groups)
      BY DEF PrepareGroup
    <2> QED
      BY <1>0, <1>2, <2>1, <2>2, EmptyList DEF GroupInv
  <1>4. HandsInv' /\ InHands' = InHands
    BY HandsFrame, <1>0 DEF PlacesInv, consVars
  <1>5. /\ UNCHANGED <<outstanding, frozen, temp_tasks, ready, out, tasks_done, count, maxjobs>>
        /\ Grouped' = Grouped /\ Listing' = Listing
    BY <1>0 DEF listVars, queueVars, Grouped, Listing
  <1>6. ListsInv'
    BY <1>0, <1>5 DEF ListsInv
  <1>7. ApartInv' /\ Seen' = Seen /\ OnTheWay' = OnTheWay
    BY <1>0, <1>4, <1>5 DEF ApartInv, Seen, OnTheWay
  <1>8. \A t \in Grouped : HandedOut(t)' <=> HandedOut(t)
    <2> TAKE t \in Grouped
    <2>1. GroupOf(t) = group => t \in ToSet(GroupTasks) /\ project.cstr[t] \in Classes
      BY <1>1, GroupList DEF Classes
    <2>2. GroupOf(t)' = GroupOf(t)
      BY <1>0 DEF GroupOf
    <2> QED
      BY <1>0, <1>2, <2>1, <2>2 DEF HandedOut
  <1>9. SeenInv'
    BY <1>0, <1>5, <1>7, <1>8 DEF WhereInv, SeenInv
  <1>10. CountInv'
    BY MainKeepsCount DEF PlacesInv, Main
  <1>11. JobsInv'
    BY <1>0, <1>5, <1>7 DEF JobsInv, OnTheWay
  <1>12. MainInv'
    BY <1>0, <1>5 DEF PlacesInv, MainInv
  <1> QED
    BY <1>3, <1>4, <1>6, <1>7, <1>9, <1>10, <1>11, <1>12 DEF PlacesInv

\* The tasks that get their first place with a set.
NewOnes ==
  IF project.algotype = "MAXPARALLEL" THEN ToSet(GroupTasks)
  ELSE IF temp_tasks = <<>> THEN Fresh ELSE {}

LEMMA GroupHandsOut ==
  ASSUME Building, GroupInv, IsList(temp_tasks), prepared, HandOut, HandedList # <<>>,
         UNCHANGED <<project, group, prepared>>
  PROVE  /\ GroupInv' /\ ToSet(HandedList) \cup ToSet(KeptList) = ToSet(temp_tasks) \cup NewOnes
         /\ \A t \in Grouped : HandedOut(t)' <=> HandedOut(t) \/ t \in NewOnes
         /\ NewOnes \subseteq ToSet(GroupTasks) /\ \A t \in NewOnes : ~HandedOut(t)
  <1>1. /\ IsList(HandedList) /\ IsList(KeptList)
        /\ ToSet(HandedList) \cup ToSet(KeptList) = InHand
        /\ project.algotype # "JOBCONTROL" => KeptList = <<>>
    BY NextTasksList
  <1>2. InHand = ToSet(temp_tasks) \cup NewOnes /\ (project.algotype = "MAXPARALLEL" => ~inner)
    <2>1. CASE project.algotype = "MAXPARALLEL"
      <3>1. ~inner
        <4>1. inner => HandedList = <<>>
          BY <2>1 DEF HandedList, NextTasks
        <4> QED
          BY <4>1
      <3>2. temp_tasks = <<>>
        BY <2>1 DEF GroupInv
      <3> QED
        BY <2>1, <3>1, <3>2, EmptyList DEF InHand, NewOnes
    <2>2. CASE project.algotype # "MAXPARALLEL" /\ temp_tasks = <<>>
      BY <2>2, EmptyList DEF InHand, NewOnes
    <2>3. CASE project.algotype # "MAXPARALLEL" /\ temp_tasks # <<>>
      BY <2>3 DEF InHand, NewOnes
    <2> QED
      BY <2>1, <2>2, <2>3
  <1>3. NewOnes \subseteq ToSet(GroupTasks)
    BY DEF NewOnes, Fresh
  <1>4. temp_tasks' = KeptList
    BY DEF HandOut, KeptList
  <1>5. ToSet(temp_tasks') \subseteq ToSet(GroupTasks)
    BY <1>1, <1>2, <1>3, <1>4 DEF GroupInv
  <1>6. CASE project.algotype = "MAXPARALLEL"
    <2>1. /\ keys' = <<>> /\ order' = {} /\ inner' = TRUE
          /\ run_after' = [t \in Tasks |-> WithInner(t)]
      BY <1>6 DEF HandOut
    <2>2. run_after' \in [Tasks -> SUBSET Tasks]
      <3>1. ToSet(GroupTasks) \subseteq Tasks
        BY GroupList, NoElements
      <3>2. \A t \in Tasks : WithInner(t) \subseteq Tasks
        BY <3>1 DEF WithInner, GroupInv
      <3> QED
        BY <2>1, <3>2
    <2>3. temp_tasks' = <<>>
      BY <1>1, <1>4, <1>6
    <2>4. GroupTasks' = GroupTasks /\ Classes' = Classes
      BY DEF GroupTasks, Classes
    <2>5. GroupInv'
      BY <1>5, <1>6, <2>1, <2>2, <2>3, <2>4, EmptyList DEF GroupInv
    <2>6. \A t \in Grouped : HandedOut(t)' <=> HandedOut(t) \/ t \in NewOnes
      <3> TAKE t \in Grouped
      <3>1. t \in ToSet(GroupTasks) <=> GroupOf(t) = group
        BY GroupList
      <3>2. GroupOf(t)' = GroupOf(t)
        BY DEF GroupOf
      <3> QED
        BY <1>6, <2>1, <3>1, <3>2 DEF HandedOut, NewOnes
    <2>7. \A t \in NewOnes : ~HandedOut(t)
      <3>1. \A t \in ToSet(GroupTasks) : GroupOf(t) = group
        BY GroupList
      <3>2. group \in Int
        BY DEF Building, Groups
      <3> QED
        BY <1>2, <1>3, <1>6, <3>1, <3>2 DEF HandedOut
    <2> QED
      BY <1>1, <1>2, <1>3, <2>5, <2>6, <2>7
  <1>7. CASE project.algotype # "MAXPARALLEL" /\ temp_tasks # <<>>
    <2>1. UNCHANGED <<keys, order, inner, run_after>>
      BY <1>7 DEF HandOut
    <2>2. GroupTasks' = GroupTasks /\ Classes' = Classes
      BY DEF GroupTasks, Classes
    <2>3. GroupInv'
      BY <1>1, <1>4, <1>5, <1>7, <2>1, <2>2 DEF GroupInv
    <2>4. \A t \in Grouped : HandedOut(t)' <=> HandedOut(t)
      BY <2>1 DEF HandedOut, GroupOf
    <2> QED
      BY <1>1, <1>2, <1>3, <1>7, <2>3, <2>4 DEF NewOnes
  <1>8. CASE project.algotype # "MAXPARALLEL" /\ temp_tasks = <<>>
    <2>1. keys' = Remainder(keys, order) /\ order' = RemainingOrder(keys, order)
          /\ UNCHANGED <<inner, run_after>>
      BY <1>8 DEF HandOut, DropUnconnected
    <2>2. keys \in Seq({project.cstr[t] : t \in Tasks}) /\ order \subseteq ToSet(keys) \X ToSet(keys)
      BY DEF GroupInv
    <2>3. /\ keys' \in Seq({project.cstr[t] : t \in Tasks})
          /\ ToSet(keys') = {c \in ToSet(keys) : Connected(order, c)}
      BY <2>1, <2>2, RemainderList
    <2>4. order' \subseteq ToSet(keys') \X ToSet(keys')
      BY <2>1, <2>2, <2>3 DEF RemainingOrder, Unconnected, Connected
    <2>5. GroupTasks' = GroupTasks /\ Classes' = Classes
      BY DEF GroupTasks, Classes
    <2>6. GroupInv'
      BY <1>1, <1>4, <1>5, <1>8, <2>1, <2>3, <2>4, <2>5 DEF GroupInv
    <2>7. \A t \in Grouped : t \in NewOnes <=>
            GroupOf(t) = group /\ project.cstr[t] \in ToSet(keys) /\ project.cstr[t] \notin ToSet(keys')
      BY <1>8, <2>3, GroupList DEF NewOnes, Fresh, Unconnected
    <2>8. \A t \in Grouped : HandedOut(t)' <=> HandedOut(t) \/ t \in NewOnes
      <3> TAKE t \in Grouped
      <3>1. GroupOf(t)' = GroupOf(t)
        BY DEF GroupOf
      <3>2. ToSet(keys') \subseteq ToSet(keys)
        BY <2>3
      <3> QED
        BY <1>8, <2>1, <2>7, <3>1, <3>2 DEF HandedOut
    <2>9. \A t \in NewOnes : ~HandedOut(t)
      <3>1. NewOnes \subseteq Grouped /\ group \in Int
        BY <1>3, GroupList DEF Building, Groups
      <3> QED
        BY <1>8, <2>7, <3>1 DEF HandedOut
    <2> QED
      BY <1>1, <1>2, <1>3, <2>6, <2>8, <2>9
  <1> QED
    BY <1>6, <1>7, <1>8


LEMMA MainTakesSet ==
  ASSUME PlacesInv, NextSet
  PROVE  PlacesInv' /\ Seen \subseteq Seen'
  <1>q. PICK now, later, N : now = HandedList /\ later = KeptList /\ N = NewOnes
    OBVIOUS
  <1>0. /\ main = "nextset" /\ main' = "next" /\ prepared /\ HandOut /\ now # <<>>
        /\ outstanding' = outstanding \o now /\ temp_tasks' = later /\ maxjobs' = NextTasks.jobs
        /\ UNCHANGED <<project, group, prepared, frozen, tasks_done, count, flagVars, queueVars,
                       consVars>>
        /\ GroupInv /\ ListsInv /\ ApartInv /\ SeenInv /\ JobsInv /\ CountInv /\ MainInv
    BY <1>q DEF NextSet, HandOut, HandedList, KeptList, PlacesInv
  <1>1. Building
    BY <1>0 DEF NextSet, GroupInv, Building, Groups
  <1>2. /\ IsList(now) /\ IsList(later) /\ ToSet(now) \cap ToSet(later) = {}
        /\ NextTasks.jobs \in 1..MAXJOBS
        /\ project.algotype = "JOBCONTROL" =>
             \A t \in ToSet(now) : project.cstr[t].maxjobs = NextTasks.jobs
    BY <1>0, <1>1, <1>q, NextTasksList DEF ListsInv
  <1>3. /\ GroupInv' /\ ToSet(now) \cup ToSet(later) = ToSet(temp_tasks) \cup N
        /\ \A t \in Grouped : HandedOut(t)' <=> HandedOut(t) \/ t \in N
        /\ N \subseteq ToSet(GroupTasks) /\ \A t \in N : ~HandedOut(t)
    BY <1>0, <1>1, <1>q, GroupHandsOut DEF ListsInv
  <1>4. N \subseteq Grouped /\ N \cap Seen = {} /\ N \subseteq Tasks
    <2>1. N \subseteq Grouped
      BY <1>1, <1>3, GroupList
    <2>2. Grouped \subseteq Tasks
      BY <1>1, ProjectLists DEF Building
    <2> QED
      BY <1>0, <1>3, <2>1, <2>2 DEF SeenInv
  <1>5. ready = <<>> /\ out = <<>> /\ InFlight = {} /\ frozen = <<>> /\ count = 0
        /\ ToSet(outstanding) \cap Grouped = {}
    <2>1. count = 0 /\ frozen = <<>> /\ ToSet(outstanding) \cap Grouped = {}
      BY <1>0 DEF MainInv
    <2> QED
      BY <1>0, <2>1, NothingInFlight
  <1>6. HandsInv' /\ InHands' = InHands /\ InHands = {}
    <2>1. HandsInv' /\ InHands' = InHands
      BY HandsFrame, <1>0 DEF PlacesInv, consVars
    <2> QED
      BY <1>5, <2>1 DEF InHands
  <1>7. ToSet(outstanding) \cap ToSet(now) = {}
    BY <1>0, <1>3, <1>4 DEF ApartInv, Seen, Listing
  <1>8. /\ IsList(outstanding') /\ ToSet(outstanding') = ToSet(outstanding) \cup ToSet(now)
    BY <1>0, <1>2, <1>7, JoinedList DEF ListsInv
  <1>9. UNCHANGED <<ready, out, frozen, tasks_done, count>> /\ Grouped' = Grouped
    BY <1>0 DEF queueVars, Grouped
  <1>10. ListsInv'
    BY <1>0, <1>2, <1>8, <1>9 DEF ListsInv
  <1>11. Listing' = Listing \cup ToSet(now)
    BY <1>8, <1>9 DEF Listing
  <1>12. Seen' = Seen \cup N
    BY <1>0, <1>3, <1>6, <1>9, <1>11 DEF Seen
  <1>13. ApartInv'
    <2>1. ToSet(frozen) = {} /\ ToSet(ready) = {} /\ ToSet(out) = {}
      BY <1>5, EmptyList
    <2>2. (ToSet(now) \cup ToSet(later)) \cap (Listing \cup tasks_done) = {}
      BY <1>0, <1>3, <1>4 DEF ApartInv, Seen
    <2>3. ToSet(outstanding') \cap ToSet(frozen') = {}
      BY <1>9, <2>1
    <2>4. Listing \cap tasks_done = {}
      BY <1>0 DEF ApartInv
    <2> QED
      BY <1>0, <1>2, <1>6, <1>9, <1>11, <2>1, <2>2, <2>3, <2>4 DEF ApartInv
  <1>14. SeenInv'
    <2>1. \A t \in Grouped' : t \in Seen' <=> HandedOut(t)'
      BY <1>0, <1>3, <1>9, <1>12 DEF SeenInv
    <2>2. ASSUME NEW t \in Tasks, tasks_done' \cap {t} = {}
          PROVE  ToSet(project'.more[t]) \cap Seen' = {}
      <3>1. ToSet(project.more[t]) \cap Seen = {}
        BY <1>0, <1>9, <2>2 DEF SeenInv
      <3>2. ToSet(project.more[t]) \cap Grouped = {}
        BY <1>1, ProjectApart DEF Building
      <3> QED
        BY <1>0, <1>4, <1>12, <3>1, <3>2
    <2> QED
      BY <2>1, <2>2 DEF SeenInv
  <1>15. CountInv'
    BY MainKeepsCount DEF PlacesInv, Main
  <1>16. JobsInv'
    <2>1. ToSet(frozen) = {} /\ ToSet(ready) = {} /\ ToSet(out) = {}
      BY <1>5, EmptyList
    <2>2. Grouped' \cap (Listing' \cup ToSet(ready') \cup ToSet(out') \cup InHands') \subseteq ToSet(now)
      BY <1>5, <1>6, <1>8, <1>9, <1>11, <2>1 DEF Listing
    <2>3. count' = 0 /\ maxjobs' \in 1..MAXJOBS /\ 0 < maxjobs'
      BY <1>0, <1>2, <1>5, <1>9, RunnerAssumption
    <2> QED
      BY <1>0, <1>2, <2>2, <2>3 DEF JobsInv
  <1>17. MainInv'
    <2>1. outstanding' # <<>>
      <3>1. ToSet(now) # {}
        BY <1>0, <1>2, NoElements
      <3> QED
        BY <1>8, <3>1, EmptyList
    <2> QED
      BY <1>0, <2>1 DEF MainInv
  <1> QED
    BY <1>12, <1>3, <1>6, <1>10, <1>13, <1>14, <1>15, <1>16, <1>17 DEF PlacesInv

\* A group that has no more tasks has handed out all of them.
LEMMA GroupEmpty ==
  ASSUME Building, GroupInv, IsList(temp_tasks), prepared, HandedList = <<>>, ~Circular
  PROVE  \A t \in Grouped : GroupOf(t) = group => HandedOut(t)
  <1>1. InHand = {}
    BY NextTasksList
  <1>2. CASE project.algotype = "MAXPARALLEL"
    <2>1. ~inner => ToSet(GroupTasks) = {}
      BY <1>1, <1>2 DEF InHand
    <2> QED
      BY <1>2, <2>1, GroupList DEF HandedOut
  <1>3. CASE project.algotype # "MAXPARALLEL"
    <2>1. temp_tasks = <<>>
      <3>1. temp_tasks # <<>> => InHand = ToSet(temp_tasks)
        BY <1>3 DEF InHand
      <3> QED
        BY <1>1, <3>1, NoElements
    <2>2. Fresh = {}
      BY <1>1, <1>3, <2>1 DEF InHand
    <2>3. keys \in Seq({project.cstr[t] : t \in Tasks})
      BY DEF GroupInv
    <2>4. InParallel = <<>>
      <3>1. IsList(InParallel) /\ ToSet(InParallel) = {}
        BY <2>2, <2>3, InParallelList
      <3> QED
        BY <3>1, NoElements
    <2>5. {c \in ToSet(keys) : Connected(order, c)} = {}
      BY <2>3, <2>4, RemainderList DEF Circular
    <2>6. \A t \in ToSet(GroupTasks) : project.cstr[t] \notin ToSet(keys)
      BY <2>2, <2>5 DEF Fresh, Unconnected
    <2> QED
      BY <1>3, <2>6, GroupList DEF HandedOut
  <1> QED
    BY <1>2, <1>3

LEMMA MainLeavesGroup ==
  ASSUME PlacesInv, NextGroup
  PROVE  PlacesInv' /\ Seen \subseteq Seen'
  <1>0. /\ main = "nextset" /\ prepared /\ HandedList = <<>> /\ ~Circular
        /\ group' = group + 1 /\ prepared' = FALSE /\ inner' = FALSE /\ temp_tasks' = <<>>
        /\ keys' = <<>> /\ order' = {}
        /\ UNCHANGED <<main, project, run_after, listVars, flagVars, queueVars, consVars>>
        /\ GroupInv /\ ListsInv /\ ApartInv /\ SeenInv /\ JobsInv /\ MainInv
    BY DEF NextGroup, HandedList, PlacesInv
  <1>1. Building /\ group \in Nat /\ group <= Len(project.groups) /\ Len(project.groups) \in Nat
    BY <1>0, ProjectLists DEF NextGroup, GroupInv, Building, Groups
  <1>2. temp_tasks = <<>>
    <2>1. InHand = {}
      BY <1>0, <1>1, NextTasksList DEF ListsInv
    <2>2. temp_tasks # <<>> => InHand = ToSet(temp_tasks)
      BY <1>0 DEF InHand, GroupInv
    <2> QED
      BY <1>0, <2>1, <2>2, NoElements DEF ListsInv
  <1>3. GroupInv'
    <2>1. group' \in 1..(Len(project'.groups) + 1)
      BY <1>0, <1>1
    <2>2. keys' \in Seq({project'.cstr[t] : t \in Tasks})
      BY <1>0
    <2> QED
      BY <1>0, <2>1, <2>2 DEF GroupInv
  <1>4. HandsInv' /\ InHands' = InHands
    BY HandsFrame, <1>0 DEF PlacesInv, consVars
  <1>5. /\ UNCHANGED <<outstanding, frozen, temp_tasks, ready, out, tasks_done, count, maxjobs>>
        /\ Grouped' = Grouped /\ Listing' = Listing
    BY <1>0, <1>2 DEF listVars, queueVars, Grouped, Listing
  <1>6. ListsInv'
    BY <1>0, <1>5 DEF ListsInv
  <1>7. ApartInv' /\ Seen' = Seen /\ OnTheWay' = OnTheWay
    BY <1>0, <1>4, <1>5 DEF ApartInv, Seen, OnTheWay
  <1>8. \A t \in Grouped : HandedOut(t)' <=> HandedOut(t)
    <2> TAKE t \in Grouped
    <2>1. GroupOf(t) = group => HandedOut(t)
      BY <1>0, <1>1, GroupEmpty DEF ListsInv
    <2>2. GroupOf(t)' = GroupOf(t) /\ GroupOf(t) \in Int
      BY <1>0, <1>1, InItsGroup DEF GroupOf, Building, Groups
    <2> QED
      BY <1>0, <1>1, <2>1, <2>2 DEF HandedOut
  <1>9. SeenInv'
    BY <1>0, <1>5, <1>7, <1>8 DEF SeenInv
  <1>10. CountInv'
    BY MainKeepsCount DEF PlacesInv, Main
  <1>11. JobsInv'
    BY <1>0, <1>5, <1>7 DEF JobsInv, OnTheWay
  <1>12. MainInv'
    BY <1>0, <1>5 DEF MainInv
  <1> QED
    BY <1>3, <1>4, <1>6, <1>7, <1>9, <1>10, <1>11, <1>12 DEF PlacesInv

LEMMA MainKeepsPlaces ==
  ASSUME PlacesInv, Main
  PROVE  PlacesInv' /\ Seen \subseteq Seen'
  BY MainStays, MainGetsOut, MainThaws, MainPrepares, MainTakesSet, MainLeavesGroup,
     MainFinishes, MainPostpones, MainPutsReady
  DEF Main

(* ----- the consumers ----- *)

LEMMA ConsumerTakes ==
  ASSUME PlacesInv, NEW c \in Consumers, Get(c)
  PROVE  PlacesInv' /\ Seen \subseteq Seen'
  <1>h. PICK h : h = Head(ready)
    OBVIOUS
  <1>0. /\ pc[c] = "get" /\ pc' = [pc EXCEPT ![c] = "check"] /\ tsk' = [tsk EXCEPT ![c] = h]
        /\ ready # <<>> /\ ready' = Tail(ready)
        /\ UNCHANGED <<project, groupVars, listVars, main, flagVars, out>>
        /\ WhereInv /\ ListsInv /\ ApartInv /\ JobsInv /\ HandsInv /\ CountInv
    BY <1>h DEF Get, ConsGoto, mainVars, PlacesInv, WhereInv
  <1>1. /\ IsList(ready') /\ h \in Tasks /\ h \in ToSet(ready) /\ ToSet(ready') = ToSet(ready) \ {h}
    BY <1>0, <1>h, TailList DEF ListsInv
  <1>2. h \notin InHands
    BY <1>0, <1>1 DEF ApartInv
  <1>3. InFlight' = InFlight \cup {c} /\ c \notin InFlight
    BY <1>0 DEF InFlight, Holding, CountInv
  <1>4. InHands' = InHands \cup {h}
    BY <1>0, <1>3 DEF InHands, HandsInv, InFlight
  <1>5. HandsInv'
    <2>1. tsk' \in [Consumers -> Tasks \cup {NoTask}]
      BY <1>0, <1>1 DEF HandsInv
    <2>2. \A d \in Consumers : Holding(d)' <=> tsk'[d] # NoTask
      BY <1>0, <1>1, RunnerAssumption DEF HandsInv, Holding, CountInv
    <2>3. \A d, e \in InFlight' : tsk'[d] = tsk'[e] => d = e
      <3>1. tsk'[c] = h /\ \A d \in InFlight : tsk'[d] = tsk[d] /\ tsk[d] # h
        BY <1>0, <1>2, <1>3 DEF HandsInv, InHands, InFlight
      <3>2. \A d, e \in InFlight : tsk[d] = tsk[e] => d = e
        BY <1>0 DEF HandsInv
      <3> QED
        BY <1>3, <3>1, <3>2
    <2> QED
      BY <2>1, <2>2, <2>3 DEF HandsInv
  <1>6. /\ UNCHANGED <<outstanding, frozen, temp_tasks, tasks_done, count, maxjobs, stop>>
        /\ Grouped' = Grouped /\ Listing' = Listing
    BY <1>0 DEF groupVars, listVars, flagVars, Grouped, Listing
  <1>7. ListsInv'
    BY <1>0, <1>1, <1>6 DEF ListsInv
  <1>8. ApartInv'
    BY <1>0, <1>1, <1>4, <1>6 DEF ApartInv
  <1>9. Seen' = Seen /\ OnTheWay' = OnTheWay
    BY <1>0, <1>1, <1>4, <1>6 DEF Seen, OnTheWay
  <1>10. WhereInv'
    BY <1>0, <1>5, <1>6, <1>7, <1>8, <1>9, TasksMove
  <1>11. CountInv'
    BY ConsumersKeepCount DEF PlacesInv, Consumer
  <1>12. JobsInv'
    BY <1>0, <1>6, <1>9, JobsFrame
  <1>13. MainInv'
    BY <1>0, <1>6 DEF PlacesInv, MainInv, Over, groupVars
  <1> QED
    BY <1>9, <1>10, <1>11, <1>12, <1>13 DEF PlacesInv, WhereInv

LEMMA ConsumerGives ==
  ASSUME PlacesInv, NEW c \in Consumers, PutOut(c)
  PROVE  PlacesInv' /\ Seen \subseteq Seen'
  <1>h. PICK h : h = tsk[c]
    OBVIOUS
  <1>0. /\ pc[c] = "put" /\ pc' = [pc EXCEPT ![c] = "get"] /\ tsk' = [tsk EXCEPT ![c] = NoTask]
        /\ out' = Append(out, h)
        /\ UNCHANGED <<project, groupVars, listVars, main, flagVars, ready>>
        /\ WhereInv /\ ListsInv /\ ApartInv /\ JobsInv /\ HandsInv /\ CountInv
    BY <1>h DEF PutOut, ConsGoto, mainVars, PlacesInv, WhereInv
  <1>1. c \in InFlight /\ h \in InHands /\ h \in Tasks
    <2>1. Holding(c) /\ tsk[c] # NoTask
      BY <1>0 DEF HandsInv, Holding
    <2> QED
      BY <1>0, <1>h, <2>1 DEF HandsInv, InHands, InFlight
  <1>2. InFlight' = InFlight \ {c}
    BY <1>0 DEF InFlight, Holding, CountInv
  <1>3. InHands' = InHands \ {h}
    <2>1. \A d \in InFlight : tsk[d] = h => d = c
      BY <1>0, <1>1, <1>h DEF HandsInv
    <2>2. \A d \in InFlight \ {c} : tsk'[d] = tsk[d]
      BY <1>0 DEF HandsInv, InFlight
    <2>3. InHands' = {tsk[d] : d \in InFlight \ {c}}
      BY <1>2, <2>2 DEF InHands
    <2> QED
      BY <1>h, <2>1, <2>3 DEF InHands
  <1>4. IsList(out') /\ ToSet(out') = ToSet(out) \cup {h}
    <2>1. IsList(out) /\ h \notin ToSet(out)
      BY <1>0, <1>1 DEF ListsInv, ApartInv
    <2> QED
      BY <1>0, <1>1, <2>1, AppendedList
  <1>5. HandsInv'
    <2>1. tsk' \in [Consumers -> Tasks \cup {NoTask}]
      BY <1>0 DEF HandsInv
    <2>2. \A d \in Consumers : Holding(d)' <=> tsk'[d] # NoTask
      BY <1>0 DEF HandsInv, Holding, CountInv
    <2>3. \A d, e \in InFlight' : tsk'[d] = tsk'[e] => d = e
      BY <1>0, <1>2 DEF HandsInv, InFlight
    <2> QED
      BY <2>1, <2>2, <2>3 DEF HandsInv
  <1>6. /\ UNCHANGED <<outstanding, frozen, temp_tasks, tasks_done, count, maxjobs, stop>>
        /\ Grouped' = Grouped /\ Listing' = Listing
    BY <1>0 DEF groupVars, listVars, flagVars, Grouped, Listing
  <1>7. ListsInv'
    BY <1>0, <1>4, <1>6 DEF ListsInv
  <1>8. ApartInv'
    BY <1>0, <1>1, <1>3, <1>4, <1>6 DEF ApartInv
  <1>9. Seen' = Seen /\ OnTheWay' = OnTheWay
    BY <1>0, <1>1, <1>3, <1>4, <1>6 DEF Seen, OnTheWay
  <1>10. WhereInv'
    BY <1>0, <1>5, <1>6, <1>7, <1>8, <1>9, TasksMove
  <1>11. CountInv'
    BY ConsumersKeepCount DEF PlacesInv, Consumer
  <1>12. JobsInv'
    BY <1>0, <1>6, <1>9, JobsFrame
  <1>13. MainInv'
    BY <1>0, <1>6 DEF PlacesInv, MainInv, Over, groupVars
  <1> QED
    BY <1>9, <1>10, <1>11, <1>12, <1>13 DEF PlacesInv, WhereInv

LEMMA ConsumerWorks ==
  ASSUME PlacesInv, NEW c \in Consumers, Check(c) \/ Run(c) \/ SetStop(c) \/ SetError(c)
  PROVE  PlacesInv' /\ Seen \subseteq Seen'
  <1>0. /\ UNCHANGED <<project, groupVars, listVars, main, queueVars, tsk>> /\ (stop => stop')
        /\ Holding(c)
        /\ WhereInv /\ JobsInv /\ HandsInv /\ CountInv
    BY DEF Check, Run, SetStop, SetError, mainVars, flagVars, PlacesInv, WhereInv, ConsGoto, Holding
  <1>1. PICK p \in {"put", "run", "stop", "error"} : pc' = [pc EXCEPT ![c] = p]
    BY DEF Check, Run, SetStop, SetError, ConsGoto
  <1>2. InFlight' = InFlight /\ \A d \in Consumers : Holding(d)' <=> Holding(d)
    BY <1>0, <1>1 DEF InFlight, Holding, CountInv
  <1>3. HandsInv' /\ InHands' = InHands
    BY <1>0, <1>2 DEF HandsInv, InHands
  <1>4. WhereInv' /\ OnTheWay' = OnTheWay /\ Seen \subseteq Seen'
    BY <1>0, <1>3, NoTaskMoves DEF listVars, queueVars
  <1>5. CountInv'
    BY ConsumersKeepCount DEF PlacesInv, Consumer
  <1>6. JobsInv'
    BY <1>0, <1>4, JobsFrame DEF listVars
  <1>7. MainInv'
    <2>1. Over' <=> Over
      BY <1>0 DEF Over, groupVars, listVars
    <2>2. Grouped' = Grouped
      BY <1>0 DEF Grouped
    <2> QED
      BY <1>0, <2>1, <2>2 DEF PlacesInv, MainInv, listVars
  <1> QED
    BY <1>4, <1>5, <1>6, <1>7 DEF PlacesInv, WhereInv

LEMMA ConsumersKeepPlaces ==
  ASSUME PlacesInv, NEW c \in Consumers, Consumer(c)
  PROVE  PlacesInv' /\ Seen \subseteq Seen'
  BY ConsumerTakes, ConsumerGives, ConsumerWorks DEF Consumer


LEMMA PlacesInit == Init => PlacesInv
  <1> SUFFICES ASSUME Init PROVE PlacesInv
    OBVIOUS
  <1>0. project \in Projects /\ Len(project.groups) \in Nat /\ Grouped \subseteq Tasks
    BY ProjectLists DEF Init
  <1>1. CountInv
    <2>1. ready \in Seq({}) /\ out \in Seq({}) /\ Len(ready) = 0 /\ Len(out) = 0
      BY DEF Init
    <2>2. InFlight = {}
      BY DEF Init, InFlight, Holding
    <2>3. pc \in [Consumers -> PCs]
      BY DEF Init, PCs
    <2> QED
      BY <2>1, <2>2, <2>3, FS_EmptySet DEF Init, CountInv, IsQueue, CountIsInFlight
  <1>2. GroupInv
    <2>1. keys \in Seq({project.cstr[t] : t \in Tasks})
      BY DEF Init
    <2>2. run_after \in [Tasks -> SUBSET Tasks]
      BY <1>0, ProjectsAssumption DEF Init
    <2>3. group \in 1..(Len(project.groups) + 1)
      BY <1>0 DEF Init
    <2> QED
      BY <2>1, <2>2, <2>3 DEF Init, GroupInv
  <1>3. HandsInv /\ InHands = {}
    BY DEF Init, HandsInv, InHands, InFlight, Holding
  <1>4. ListsInv
    BY EmptyList DEF Init, ListsInv
  <1>5. Seen = {} /\ Listing = {} /\ ApartInv
    BY <1>3, EmptyList DEF Init, Seen, Listing, ApartInv
  <1>6. SeenInv
    <2>1. ASSUME NEW t \in Grouped PROVE ~HandedOut(t)
      <3>1. GroupOf(t) \in 1..Len(project.groups)
        BY <1>0, InItsGroup DEF Groups
      <3> QED
        BY <1>0, <3>1 DEF Init, HandedOut
    <2> QED
      BY <1>5, <2>1 DEF SeenInv
  <1>7. MainInv
    BY DEF Init, MainInv
  <1>8. JobsInv
    <2>1. Listing \cup ToSet(ready) \cup ToSet(out) \cup InHands = {}
      BY <1>3, <1>5, EmptyList DEF Init
    <2> QED
      BY <2>1, RunnerAssumption DEF Init, JobsInv
  <1> QED
    BY <1>1, <1>2, <1>3, <1>4, <1>5, <1>6, <1>7, <1>8 DEF PlacesInv

LEMMA NothingChanges ==
  ASSUME PlacesInv, UNCHANGED vars
  PROVE  PlacesInv'
  <1>1. UNCHANGED <<project, groupVars, listVars, flagVars, queueVars, main, consVars>>
    BY DEF vars
  <1>2. HandsInv' /\ InHands' = InHands
    BY <1>1, HandsFrame DEF PlacesInv, consVars
  <1>3. WhereInv' /\ OnTheWay' = OnTheWay
    BY <1>1, <1>2, NoTaskMoves DEF PlacesInv, WhereInv, listVars, queueVars
  <1>4. CountInv'
    BY <1>1, CountUnchanged DEF PlacesInv, listVars, queueVars, consVars
  <1>5. JobsInv'
    BY <1>1, <1>3, JobsFrame DEF PlacesInv, listVars
  <1>6. MainInv'
    BY <1>1 DEF PlacesInv, MainInv, Over, Grouped, groupVars, listVars, flagVars
  <1> QED
    BY <1>3, <1>4, <1>5, <1>6 DEF PlacesInv, WhereInv

\* The inductive invariant: what a group still has, where every task is, and
\* how many are on their way.
THEOREM PlacesTheorem == Spec => []PlacesInv
  <1>1. Init => PlacesInv
    BY PlacesInit
  <1>2. PlacesInv /\ [Next]_vars => PlacesInv'
    BY MainKeepsPlaces, ConsumersKeepPlaces, NothingChanges DEF Next, Done
  <1> QED
    BY <1>1, <1>2, PTL DEF Spec


(* ----- no task is in two places ----- *)

LEMMA HandsList ==
  ASSUME HandsInv
  PROVE  IsList(SetToSeq(InHands)) /\ ToSet(SetToSeq(InHands)) = InHands
  <1>1. InHands \subseteq Tasks
    BY DEF HandsInv, InHands, InFlight
  <1>2. IsFiniteSet(InHands)
    <2>1. PICK f : f = [c \in InFlight |-> tsk[c]]
      OBVIOUS
    <2>2. f \in Surjection(InFlight, InHands)
      BY <2>1 DEF Surjection, InHands
    <2> QED
      BY <2>2, InFlightFinite, FS_Surjection
  <1>3. PICK S, q : S = InHands /\ q = SetToSeq(S)
    OBVIOUS
  <1>4. q \in SetToSeqs(S)
    <2>n. PICK n : n = Cardinality(S)
      OBVIOUS
    <2>1. n \in Nat /\ ExistsBijection(1..n, S)
      BY <1>2, <1>3, <2>n, FS_CardinalityType
    <2>2. PICK f \in Bijection(1..n, S) : TRUE
      BY <2>1 DEF ExistsBijection
    <2>3. f \in [1..n -> S] /\ IsInjective(f)
      BY <2>2 DEF Bijection, Injection, IsInjective
    <2>4. q \in [1..n -> S] /\ IsInjective(q)
      BY <1>3, <2>n, <2>3 DEF SetToSeq
    <2>5. DOMAIN q = 1..n
      BY <2>4
    <2> QED
      BY <2>n, <2>4, <2>5 DEF SetToSeqs, IsInjective
  <1>5. q \in Seq(S) /\ IsInjective(q) /\ ToSet(q) = S
    BY <1>2, <1>3, <1>4, SetListed
  <1> QED
    BY <1>1, <1>3, <1>5 DEF IsList

LEMMA PlacesApart ==
  ASSUME PlacesInv
  PROVE  OnePlace
  <1>0. ListsInv /\ HandsInv /\ ApartInv
    BY DEF PlacesInv
  <1>h. PICK hands : hands = SetToSeq(InHands)
    OBVIOUS
  <1>1. IsList(hands) /\ ToSet(hands) = InHands
    BY <1>0, <1>h, HandsList
  <1>2. /\ IsList(outstanding) /\ IsList(frozen) /\ IsList(temp_tasks) /\ IsList(ready) /\ IsList(out)
    BY <1>0 DEF ListsInv
  <1>3. PICK q1 : q1 = outstanding \o frozen
    OBVIOUS
  <1>4. IsList(q1) /\ ToSet(q1) = Listing
    BY <1>0, <1>2, <1>3, JoinedList DEF ApartInv, Listing
  <1>5. PICK q2 : q2 = q1 \o temp_tasks
    OBVIOUS
  <1>6. IsList(q2) /\ ToSet(q2) = Listing \cup ToSet(temp_tasks)
    <2>1. ToSet(q1) \cap ToSet(temp_tasks) = {}
      BY <1>0, <1>4 DEF ApartInv
    <2> QED
      BY <1>2, <1>4, <1>5, <2>1, JoinedList
  <1>7. PICK q3 : q3 = q2 \o ready
    OBVIOUS
  <1>8. IsList(q3) /\ ToSet(q3) = Listing \cup ToSet(temp_tasks) \cup ToSet(ready)
    <2>1. ToSet(q2) \cap ToSet(ready) = {}
      BY <1>0, <1>6 DEF ApartInv
    <2> QED
      BY <1>2, <1>6, <1>7, <2>1, JoinedList
  <1>9. PICK q4 : q4 = q3 \o out
    OBVIOUS
  <1>10. IsList(q4) /\ ToSet(q4) = Listing \cup ToSet(temp_tasks) \cup ToSet(ready) \cup ToSet(out)
    <2>1. ToSet(q3) \cap ToSet(out) = {}
      BY <1>0, <1>8 DEF ApartInv
    <2> QED
      BY <1>2, <1>8, <1>9, <2>1, JoinedList
  <1>11. PICK q5 : q5 = q4 \o hands
    OBVIOUS
  <1>12. IsList(q5) /\ ToSet(q5) = ToSet(q4) \cup InHands
    <2>1. ToSet(q4) \cap ToSet(hands) = {}
      BY <1>0, <1>1, <1>10 DEF ApartInv
    <2> QED
      BY <1>1, <1>10, <1>11, <2>1, JoinedList
  <1>13. Places = q5
    BY <1>h, <1>3, <1>5, <1>7, <1>9, <1>11 DEF Places, InHands
  <1>14. ToSet(q5) \cap tasks_done = {}
    BY <1>0, <1>10, <1>12 DEF ApartInv
  <1> QED
    BY <1>0, <1>12, <1>13, <1>14 DEF OnePlace, HandsInv, IsList

LEMMA InItsHands ==
  ASSUME HandsInv, NEW c \in Consumers, Holding(c)
  PROVE  tsk[c] \in InHands /\ tsk[c] \in Tasks /\ tsk[c] \in Seen
  BY DEF HandsInv, InHands, InFlight, Seen

\* With JOBCONTROL no more tasks are in flight than the least maxjobs of them,
\* whatever the tasks' constraints and the projects are.
THEOREM JobLimitTheorem == Spec => []JobLimit
  <1>1. PlacesInv => JobLimit
    <2> SUFFICES ASSUME PlacesInv, NEW t \in Grouped, NEW c \in Consumers, pc[c] = "run", tsk[c] = t,
                        project.algotype = "JOBCONTROL"
                 PROVE  count <= project.cstr[t].maxjobs
      BY DEF JobLimit, Running
    <2>1. t \in InHands
      BY InItsHands DEF PlacesInv, Holding
    <2> QED
      BY <2>1 DEF PlacesInv, JobsInv
  <1> QED
    BY <1>1, PlacesTheorem, PTL

(* ----- what the tasks wait for ----- *)

LEMMA RunAfterUnchanged ==
  ASSUME UnrunInv, UNCHANGED <<hasrun, run_after>>, Unrun' \subseteq Unrun
  PROVE  UnrunInv'
  BY DEF UnrunInv

\* A task that gets its status meanwhile is not one the consumers have.
LEMMA StatusGiven ==
  ASSUME UnrunInv, UNCHANGED run_after, NEW t \in Tasks, NEW s \in Statuses,
         hasrun' = [hasrun EXCEPT ![t] = s], hasrun[t] = "NOT_RUN",
         Unrun' \subseteq Unrun \ {t}
  PROVE  UnrunInv'
  <1>1. hasrun' \in [Tasks -> Statuses]
    BY DEF UnrunInv
  <1>2. \A u \in Tasks : hasrun[u] # "NOT_RUN" => hasrun'[u] # "NOT_RUN"
    BY DEF UnrunInv
  <1>3. \A u : u # t => hasrun'[u] = hasrun[u]
    BY DEF UnrunInv
  <1> QED
    BY <1>1, <1>3 DEF UnrunInv

LEMMA MainKeepsUnrun ==
  ASSUME PlacesInv, UnrunInv, Main
  PROVE  UnrunInv'
  <1>1. CASE Loop \/ EndThrottle \/ Filled \/ RaiseCircular \/ NoMoreGroups \/ NothingLeft \/ Leave
    <2>1. UNCHANGED <<groupVars, flagVars, queueVars, consVars>>
      BY <1>1 DEF Loop, EndThrottle, Filled, RaiseCircular, NoMoreGroups, NothingLeft, Leave
    <2> QED
      BY <2>1, RunAfterUnchanged DEF groupVars, flagVars, queueVars, consVars, Unrun
  <1>2. CASE Throttle \/ FillGetOut \/ Collect \/ FillIdle
    <2>1. UNCHANGED <<groupVars, flagVars, ready, consVars>>
      BY <1>2 DEF Throttle, FillGetOut, Collect, FillIdle, GetOut, queueVars
    <2> QED
      BY <2>1, RunAfterUnchanged DEF groupVars, flagVars, consVars, Unrun
  <1>3. CASE NextGroup \/ HasRun \/ Postpone
    <2>1. UNCHANGED <<run_after, flagVars, queueVars, consVars>>
      BY <1>3 DEF NextGroup, HasRun, Postpone, Finish, groupVars
    <2> QED
      BY <2>1, RunAfterUnchanged DEF flagVars, queueVars, consVars, Unrun
  <1>4. CASE PrepareGroup \/ NextSet
    <2>1. UNCHANGED <<flagVars, queueVars, consVars>> /\ main = "nextset"
      BY <1>4 DEF PrepareGroup, NextSet
    <2>2. ready = <<>> /\ InFlight = {}
      BY <2>1, NothingInFlight DEF PlacesInv, MainInv
    <2>3. Unrun' = {}
      BY <2>1, <2>2, EmptyList DEF Unrun, InFlight, Holding, queueVars, consVars
    <2> QED
      BY <2>1, <2>3 DEF UnrunInv, flagVars
  <1>5. CASE StatusRaises \/ Skip
    <2>t. PICK t : t = NextTask
      OBVIOUS
    <2>1. PICK s \in {"EXCEPTION", "SKIPPED"} :
            hasrun' = [hasrun EXCEPT ![t] = s] /\ hasrun[t] = "NOT_RUN"
      BY <1>5, <2>t DEF StatusRaises, Skip
    <2>2. Take /\ UNCHANGED <<groupVars, queueVars, consVars>>
      BY <1>5 DEF StatusRaises, Skip, Finish
    <2>3. t \in ToSet(outstanding) /\ t \in Tasks
      BY <2>t, <2>2, TailList DEF Take, NextTask, PlacesInv, ListsInv
    <2>4. t \notin Unrun
      <3>1. Unrun \subseteq ToSet(ready) \cup InHands
        BY DEF Unrun, InHands, InFlight, Holding
      <3> QED
        BY <2>3, <3>1 DEF PlacesInv, ApartInv, Listing
    <2>5. Unrun' = Unrun
      BY <2>2 DEF Unrun, queueVars, consVars
    <2>6. UNCHANGED run_after /\ s \in Statuses
      BY <2>2 DEF groupVars, Statuses
    <2> QED
      BY <2>1, <2>3, <2>4, <2>5, <2>6, StatusGiven
  <1>6. CASE PutReady
    <2>1. PICK t : t = NextTask
      OBVIOUS
    <2>2. /\ Take /\ hasrun[t] = "NOT_RUN" /\ ~Waits(t) /\ ready' = Append(ready, t)
          /\ pc' = [c \in Consumers |-> IF pc[c] = "unborn" /\ c \in Workers THEN "get" ELSE pc[c]]
          /\ UNCHANGED <<groupVars, flagVars, tsk>>
      BY <1>6, <2>1 DEF PutReady
    <2>3. t \in ToSet(outstanding) /\ t \in Tasks
      BY <2>1, <2>2, TailList DEF Take, NextTask, PlacesInv, ListsInv
    <2>4. ToSet(ready') = ToSet(ready) \cup {t}
      <3>1. IsList(ready) /\ t \notin ToSet(ready)
        BY <2>3 DEF PlacesInv, ListsInv, ApartInv, Listing
      <3> QED
        BY <2>2, <2>3, <3>1, AppendedList
    <2>5. Unrun' = Unrun \cup {t}
      <3>1. \A c \in Consumers : pc'[c] \in {"check", "run"} <=> pc[c] \in {"check", "run"}
        BY <2>2
      <3> QED
        BY <2>2, <2>4, <3>1 DEF Unrun
    <2> QED
      BY <2>2, <2>5 DEF UnrunInv, Waits, groupVars, flagVars
  <1> QED
    BY <1>1, <1>2, <1>3, <1>4, <1>5, <1>6 DEF Main

LEMMA ConsumersKeepUnrun ==
  ASSUME PlacesInv, UnrunInv, NEW c \in Consumers, Consumer(c)
  PROVE  UnrunInv'
  <1>0. pc \in [Consumers -> PCs] /\ tsk \in [Consumers -> Tasks \cup {NoTask}]
    BY DEF PlacesInv, CountInv, HandsInv
  <1>1. CASE Get(c)
    <2>1. PICK h : h = Head(ready)
      OBVIOUS
    <2>2. /\ ready # <<>> /\ ready' = Tail(ready) /\ tsk' = [tsk EXCEPT ![c] = h]
          /\ pc[c] = "get" /\ pc' = [pc EXCEPT ![c] = "check"]
          /\ UNCHANGED <<run_after, hasrun>>
      BY <1>1, <2>1 DEF Get, ConsGoto, mainVars, groupVars, flagVars
    <2>3. h \in ToSet(ready) /\ ToSet(ready') \subseteq ToSet(ready)
      BY <2>1, <2>2, TailList DEF PlacesInv, ListsInv
    <2>4. \A d \in Consumers : pc'[d] \in {"check", "run"} =>
            tsk'[d] = h \/ (pc[d] \in {"check", "run"} /\ tsk'[d] = tsk[d])
      BY <1>0, <2>2
    <2>5. Unrun' \subseteq Unrun
      BY <2>3, <2>4 DEF Unrun
    <2> QED
      BY <2>2, <2>5, RunAfterUnchanged
  <1>2. CASE Run(c)
    <2>t. PICK t : t = tsk[c]
      OBVIOUS
    <2>1. PICK s \in {"SUCCESS", "CRASHED", "EXCEPTION", "NOT_RUN"} :
            hasrun' = [hasrun EXCEPT ![t] = s]
      <3>1. PICK fate \in {"ok", "crash", "raise", "missing"} :
              hasrun' = [hasrun EXCEPT ![tsk[c]] = Outcome(fate)]
        BY <1>2 DEF Run
      <3>2. Outcome(fate) \in {"SUCCESS", "CRASHED", "EXCEPTION", "NOT_RUN"}
        BY DEF Outcome
      <3> QED
        BY <2>t, <3>1, <3>2
    <2>2. PICK p \in {"put", "error", "stop"} : pc' = [pc EXCEPT ![c] = p]
      BY <1>2 DEF Run, ConsGoto
    <2>3. UNCHANGED <<run_after, ready, tsk>> /\ pc[c] = "run"
      BY <1>2 DEF Run, mainVars, groupVars, queueVars
    <2>4. t \in Unrun /\ t \in Tasks
      <3>1. t \in Tasks
        BY <2>t, <2>3, InItsHands DEF PlacesInv, Holding
      <3> QED
        BY <2>t, <2>3, <3>1 DEF Unrun
    <2>5. hasrun[t] = "NOT_RUN"
      BY <2>4 DEF UnrunInv
    <2>6. Unrun' \subseteq Unrun \ {t}
      <3>1. t \notin ToSet(ready)
        BY <2>t, <2>3, InItsHands DEF PlacesInv, ApartInv, Holding
      <3>2. \A d \in Consumers : pc'[d] \in {"check", "run"} => d # c /\ pc[d] \in {"check", "run"}
        BY <1>0, <2>2
      <3>3. \A d \in Consumers : d # c /\ pc[d] \in {"check", "run"} => tsk[d] # t
        BY <2>t, <2>3 DEF PlacesInv, HandsInv, InFlight, Holding
      <3> QED
        BY <2>3, <3>1, <3>2, <3>3 DEF Unrun
    <2> QED
      BY <2>1, <2>3, <2>4, <2>5, <2>6, StatusGiven DEF Statuses
  <1>3. CASE PutOut(c)
    <2>1. /\ pc' = [pc EXCEPT ![c] = "get"] /\ tsk' = [tsk EXCEPT ![c] = NoTask]
          /\ UNCHANGED <<run_after, ready, hasrun>>
      BY <1>3 DEF PutOut, ConsGoto, mainVars, groupVars, flagVars
    <2>2. \A d \in Consumers : pc'[d] \in {"check", "run"} =>
            pc[d] \in {"check", "run"} /\ tsk'[d] = tsk[d]
      BY <1>0, <2>1
    <2> QED
      BY <2>1, <2>2, RunAfterUnchanged DEF Unrun
  <1>4. CASE Check(c) \/ SetStop(c) \/ SetError(c)
    <2>1. UNCHANGED <<run_after, ready, hasrun, tsk>>
      BY <1>4 DEF Check, SetStop, SetError, mainVars, groupVars, flagVars, queueVars
    <2>2. PICK p \in {"put", "run", "error"} : pc' = [pc EXCEPT ![c] = p]
      BY <1>4 DEF Check, SetStop, SetError, ConsGoto
    <2>3. p = "run" => pc[c] = "check"
      BY <1>0, <1>4, <2>2 DEF Check, SetStop, SetError, ConsGoto
    <2>4. \A d \in Consumers : pc'[d] \in {"check", "run"} => pc[d] \in {"check", "run"}
      BY <1>0, <2>2, <2>3
    <2> QED
      BY <2>1, <2>4, RunAfterUnchanged DEF Unrun
  <1> QED
    BY <1>1, <1>2, <1>3, <1>4 DEF Consumer


LEMMA UnrunNext ==
  ASSUME PlacesInv, UnrunInv, [Next]_vars
  PROVE  UnrunInv'
  <1>1. CASE Main
    BY <1>1, MainKeepsUnrun
  <1>2. CASE \E c \in Consumers : Consumer(c)
    BY <1>2, ConsumersKeepUnrun
  <1>3. CASE Done \/ UNCHANGED vars
    <2>1. UNCHANGED <<groupVars, flagVars, queueVars, consVars>>
      BY <1>3 DEF Done, vars
    <2> QED
      BY <2>1, RunAfterUnchanged DEF groupVars, flagVars, queueVars, consVars, Unrun
  <1> QED
    BY <1>1, <1>2, <1>3 DEF Next

\* What a consumer has yet to run was not run, and what it waits for was.
LEMMA UnrunAlways == Spec => []UnrunInv
  <1>1. Init => UnrunInv
    <2> SUFFICES ASSUME Init PROVE UnrunInv
      OBVIOUS
    <2>1. Unrun = {}
      BY EmptyList DEF Init, Unrun
    <2>2. hasrun \in [Tasks -> Statuses]
      BY DEF Init, Statuses
    <2> QED
      BY <2>1, <2>2 DEF UnrunInv
  <1>2. PlacesInv /\ UnrunInv /\ [Next]_vars => UnrunInv'
    BY UnrunNext
  <1> QED
    BY <1>1, <1>2, PlacesTheorem, PTL DEF Spec

LEMMA FlagsNext ==
  ASSUME PlacesInv, FlagsInv, [Next]_vars
  PROVE  FlagsInv'
  <1>0. pc \in [Consumers -> PCs] /\ project' = project /\ project.keep \in BOOLEAN
    <2>1. project' = project
      BY DEF Next, Main, Consumer, Done, vars, mainVars, Finish,
             Loop, Throttle, EndThrottle, FillGetOut, FillIdle, Filled, PrepareGroup, NextSet,
             NextGroup, RaiseCircular, NoMoreGroups, NothingLeft, HasRun, StatusRaises, Skip,
             Postpone, PutReady, Collect, Leave, Get, Check, Run, SetStop, SetError, PutOut
    <2>2. project.keep \in BOOLEAN
      BY ProjectsAssumption DEF PlacesInv, GroupInv
    <2> QED
      BY <2>1, <2>2 DEF PlacesInv, CountInv
  <1>1. CASE StatusRaises
    BY <1>0, <1>1 DEF StatusRaises, Finish, consVars, FlagsInv
  <1>2. CASE PutReady
    <2>1. \A c \in Consumers : pc'[c] = "error" => pc[c] = "error"
      BY <1>2 DEF PutReady
    <2> QED
      BY <1>0, <1>2, <2>1 DEF PutReady, flagVars, FlagsInv
  <1>3. CASE Main /\ ~StatusRaises /\ ~PutReady
    <2>1. UNCHANGED <<stop, error, pc>>
      BY <1>3 DEF Main, Finish, flagVars, consVars,
             Loop, Throttle, EndThrottle, FillGetOut, FillIdle, Filled, PrepareGroup, NextSet,
             NextGroup, RaiseCircular, NoMoreGroups, NothingLeft, HasRun, Skip,
             Postpone, Collect, Leave
    <2> QED
      BY <1>0, <2>1 DEF FlagsInv
  <1>4. ASSUME NEW c \in Consumers, Get(c) \/ Check(c) \/ PutOut(c) PROVE FlagsInv'
    <2>1. UNCHANGED <<stop, error>>
      BY <1>4 DEF Get, Check, PutOut, flagVars
    <2>2. PICK p \in {"check", "put", "run", "get"} : pc' = [pc EXCEPT ![c] = p]
      BY <1>4 DEF Get, Check, PutOut, ConsGoto
    <2>3. \A d \in Consumers : pc'[d] = "error" => pc[d] = "error"
      BY <1>0, <2>2
    <2> QED
      BY <1>0, <2>1, <2>3 DEF FlagsInv
  <1>5. ASSUME NEW c \in Consumers, Run(c) PROVE FlagsInv'
    <2>1. UNCHANGED <<stop, error>>
      BY <1>5 DEF Run
    <2>2. PICK p \in {"put", "error", "stop"} : pc' = [pc EXCEPT ![c] = p] /\ (p = "error" => project.keep)
      BY <1>5 DEF Run, ConsGoto
    <2>3. \A d \in Consumers : pc'[d] = "error" => pc[d] = "error" \/ project.keep
      BY <1>0, <2>2
    <2> QED
      BY <1>0, <2>1, <2>3 DEF FlagsInv
  <1>6. ASSUME NEW c \in Consumers, SetStop(c) PROVE FlagsInv'
    BY <1>0, <1>6 DEF SetStop, FlagsInv
  <1>7. ASSUME NEW c \in Consumers, SetError(c) PROVE FlagsInv'
    <2>1. pc[c] = "error" /\ pc' = [pc EXCEPT ![c] = "put"] /\ error' = TRUE /\ stop' = stop
      BY <1>7 DEF SetError, ConsGoto
    <2>2. \A d \in Consumers : pc'[d] = "error" => pc[d] = "error"
      BY <1>0, <2>1
    <2> QED
      BY <1>0, <2>1, <2>2 DEF FlagsInv
  <1>8. CASE Done \/ UNCHANGED vars
    BY <1>8, <1>0 DEF Done, vars, flagVars, consVars, FlagsInv
  <1> QED
    BY <1>1, <1>2, <1>3, <1>4, <1>5, <1>6, <1>7, <1>8 DEF Next, Consumer

\* Without -k, error is only set once stop is.
LEMMA FlagsAlways == Spec => []FlagsInv
  <1>1. Init => FlagsInv
    BY DEF Init, FlagsInv
  <1>2. PlacesInv /\ FlagsInv /\ [Next]_vars => FlagsInv'
    BY FlagsNext
  <1> QED
    BY <1>1, <1>2, PlacesTheorem, PTL DEF Spec

\* No task is in two places: for every project and any number of consumers, a
\* task is handed out, run and put in tasks_done at most once.
THEOREM SchedulerTheorem == Spec => []SchedulerInv
  <1>1. PlacesInv /\ UnrunInv /\ FlagsInv => TypeOK
    <2> SUFFICES ASSUME PlacesInv, UnrunInv, FlagsInv PROVE TypeOK
      OBVIOUS
    <2>1. /\ project \in Projects /\ group \in 1..(Len(project.groups) + 1)
          /\ {prepared, inner} \subseteq BOOLEAN /\ {stop, error} \subseteq BOOLEAN
          /\ run_after \in [Tasks -> SUBSET Tasks]
          /\ order \subseteq ToSet(keys) \X ToSet(keys)
      BY DEF PlacesInv, GroupInv, FlagsInv
    <2>2. ToSet(keys) \subseteq {project.cstr[t] : t \in Tasks}
      <3>1. PICK C : C = {project.cstr[t] : t \in Tasks}
        OBVIOUS
      <3>2. keys \in Seq(C)
        BY <3>1 DEF PlacesInv, GroupInv
      <3>3. ToSet(keys) \subseteq C
        BY <3>2 DEF ToSet
      <3> QED
        BY <3>1, <3>3
    <2>3. \A s \in {temp_tasks, outstanding, frozen, ready, out} : s \in Seq(Tasks)
      BY DEF PlacesInv, ListsInv, IsList
    <2>4. count \in Nat /\ maxjobs \in Nat
      BY Numbers DEF PlacesInv
    <2>5. tasks_done \subseteq Tasks /\ hasrun \in [Tasks -> Statuses]
      BY DEF PlacesInv, ListsInv, UnrunInv
    <2>6. main \in {"loop", "throttle", "fill", "nextset", "next", "collect",
                    "built", "failed", "raised"}
      BY DEF PlacesInv, MainInv
    <2>7. /\ pc \in [Consumers -> {"unborn", "get", "check", "run", "stop", "error", "put"}]
          /\ tsk \in [Consumers -> Tasks \cup {NoTask}]
          /\ \A c \in Consumers : Holding(c) <=> tsk[c] # NoTask
      BY DEF PlacesInv, CountInv, HandsInv, PCs
    <2> QED
      BY <2>1, <2>2, <2>3, <2>4, <2>5, <2>6, <2>7 DEF TypeOK
  <1>2. PlacesInv => OnePlace
    BY PlacesApart
  <1> QED
    BY <1>1, <1>2, PlacesTheorem, UnrunAlways, FlagsAlways, JobLimitTheorem, PTL DEF SchedulerInv


\* The steps that change the group.
LEMMA GroupKept ==
  ASSUME [Next]_vars, ~PrepareGroup, ~NextSet, ~NextGroup
  PROVE  UNCHANGED <<project, groupVars>>
  BY DEF Next, Main, Consumer, Done, vars, mainVars, Finish,
         Loop, Throttle, EndThrottle, FillGetOut, FillIdle, Filled,
         RaiseCircular, NoMoreGroups, NothingLeft, HasRun, StatusRaises, Skip,
         Postpone, PutReady, Collect, Leave, Get, Check, Run, SetStop, SetError, PutOut

LEMMA ProjectKept ==
  ASSUME [Next]_vars
  PROVE  project' = project /\ Grouped' = Grouped /\ \A t \in Grouped : GroupOf(t)' = GroupOf(t)
  <1>1. project' = project
    BY GroupKept DEF PrepareGroup, NextSet, NextGroup
  <1> QED
    BY <1>1 DEF Grouped, GroupOf

LEMMA DoneGrows ==
  ASSUME [Next]_vars
  PROVE  tasks_done \subseteq tasks_done'
  BY DEF Next, Main, Consumer, Done, vars, mainVars, listVars, Finish, GetOut,
         Loop, Throttle, EndThrottle, FillGetOut, FillIdle, Filled, PrepareGroup, NextSet,
         NextGroup, RaiseCircular, NoMoreGroups, NothingLeft, HasRun, StatusRaises, Skip,
         Postpone, PutReady, Collect, Leave, Get, Check, Run, SetStop, SetError, PutOut

LEMMA RunAfterGrows ==
  ASSUME PlacesInv, [Next]_vars
  PROVE  \A t \in Tasks : run_after[t] \subseteq run_after'[t]
  <1>0. run_after \in [Tasks -> SUBSET Tasks]
    BY DEF PlacesInv, GroupInv
  <1>1. CASE PrepareGroup
    BY <1>0, <1>1 DEF PrepareGroup, Prepare
  <1>2. CASE NextSet
    <2>1. \A t \in Tasks : run_after[t] \subseteq WithInner(t)
      BY DEF WithInner
    <2> QED
      BY <1>0, <1>2, <2>1 DEF NextSet, HandOut
  <1>3. CASE NextGroup
    BY <1>3 DEF NextGroup
  <1>4. CASE ~PrepareGroup /\ ~NextSet /\ ~NextGroup
    BY <1>4, GroupKept DEF groupVars
  <1> QED
    BY <1>1, <1>2, <1>3, <1>4

\* file_deps has what reads a file run after what writes it.
LEMMA WritersListed ==
  ASSUME Building, NEW t \in ToSet(GroupTasks), NEW u \in ToSet(GroupTasks), Writes(u, t)
  PROVE  <<t, u>> \in FileDeps
  <1>1. <<t, u>> \in ExtractOutputs(GroupTasks, project.files)
    BY DEF Writes, ExtractOutputs
  <1>2. <<t, u>> \in ExtractDeps(GroupTasks, project.files)
    BY <1>1 DEF ExtractDeps
  <1>3. project.file_deps \in {"extract_outputs", "extract_deps"}
    BY ProjectsAssumption DEF Building, Writes
  <1> QED
    BY <1>1, <1>2, <1>3 DEF FileDeps

LEMMA WaitNext ==
  ASSUME PlacesInv, WaitInv, [Next]_vars
  PROVE  WaitInv'
  <1>0. /\ project \in Projects /\ GroupInv /\ Grouped \subseteq Tasks /\ group \in Nat
        /\ run_after \in [Tasks -> SUBSET Tasks]
    <2>1. project \in Projects /\ GroupInv
      BY DEF PlacesInv, GroupInv
    <2> QED
      BY <2>1, ProjectLists DEF GroupInv
  <1>1. project' = project /\ Grouped' = Grouped /\ \A t \in Grouped : GroupOf(t)' = GroupOf(t)
    BY ProjectKept
  <1>2. \A t \in Tasks : run_after[t] \subseteq run_after'[t]
    BY RunAfterGrows
  <1>3. \A t \in Tasks : project'.after[t] \subseteq run_after'[t]
    BY <1>1, <1>2 DEF WaitInv
  <1> SUFFICES ASSUME NEW t \in Grouped, NEW u \in Grouped, Writes(u, t)',
                      GroupOf(t)' < group' \/ (GroupOf(t)' = group' /\ prepared')
               PROVE  u \in run_after'[t]
    BY <1>1, <1>3 DEF WaitInv
  <1>4. Writes(u, t) /\ GroupOf(t) \in Nat /\ GroupOf(u) = GroupOf(t)
    <2>1. Writes(u, t)
      BY <1>1 DEF Writes
    <2>2. GroupOf(t) \in Nat
      BY <1>0, InItsGroup DEF Groups
    <2> QED
      BY <2>1, <2>2 DEF Writes
  <1>5. CASE GroupOf(t) < group \/ (GroupOf(t) = group /\ prepared)
    BY <1>0, <1>2, <1>4, <1>5 DEF WaitInv
  <1>6. CASE ~(GroupOf(t) < group \/ (GroupOf(t) = group /\ prepared))
    <2>1. CASE PrepareGroup
      <3>1. group' = group
        BY <2>1 DEF PrepareGroup, Prepare
      <3>2. Building /\ GroupOf(t) = group
        BY <1>0, <1>1, <1>4, <1>6, <2>1, <3>1 DEF PrepareGroup, Building, Groups, GroupInv
      <3>3. <<t, u>> \in FileDeps
        BY <1>4, <3>2, GroupList, WritersListed
      <3>4. run_after'[t] = run_after[t] \cup {q[2] : q \in {p \in FileDeps : p[1] = t}}
        BY <1>0, <2>1 DEF PrepareGroup, Prepare
      <3> QED
        BY <3>3, <3>4
    <2>2. CASE NextSet
      BY <1>1, <1>6, <2>2 DEF NextSet
    <2>3. CASE NextGroup
      BY <1>0, <1>1, <1>4, <1>6, <2>3 DEF NextGroup
    <2>4. CASE ~PrepareGroup /\ ~NextSet /\ ~NextGroup
      BY <1>1, <1>6, <2>4, GroupKept DEF groupVars
    <2> QED
      BY <2>1, <2>2, <2>3, <2>4
  <1> QED
    BY <1>5, <1>6

\* A task waits for those it was made to run_after, and for the writers of its
\* files once its group is prepared.
LEMMA WaitAlways == Spec => []WaitInv
  <1>1. Init => WaitInv
    <2> SUFFICES ASSUME Init PROVE WaitInv
      OBVIOUS
    <2>1. project \in Projects
      BY DEF Init
    <2>2. \A t \in Grouped : GroupOf(t) \in Nat /\ GroupOf(t) # 0
      BY <2>1, InItsGroup, ProjectLists DEF Groups
    <2> QED
      BY <2>2 DEF Init, WaitInv
  <1>2. PlacesInv /\ WaitInv /\ [Next]_vars => WaitInv'
    BY WaitNext
  <1> QED
    BY <1>1, <1>2, PlacesTheorem, PTL DEF Spec

\* A task that runs has its place, and its group handed it out.
LEMMA RunningTask ==
  ASSUME PlacesInv, UnrunInv, NEW t \in Grouped, Running(t)
  PROVE  /\ t \in Tasks /\ t \in Seen /\ t \in Unrun
         /\ GroupOf(t) < group \/ (GroupOf(t) = group /\ prepared)
         /\ \A u \in run_after[t] : hasrun[u] # "NOT_RUN"
  <1>1. PICK c \in Consumers : pc[c] = "run" /\ tsk[c] = t
    BY DEF Running
  <1>2. t \in Tasks /\ t \in Seen /\ t \in Unrun
    BY <1>1, InItsHands DEF PlacesInv, Holding, Unrun
  <1>3. HandedOut(t)
    BY <1>2 DEF PlacesInv, SeenInv
  <1> QED
    BY <1>2, <1>3 DEF HandedOut, UnrunInv

\* With extract_outputs or extract_deps, what reads a file of its group runs
\* after what writes it, whichever tasks the build has.
THEOREM WritersTheorem == Spec => []WritersFirst
  <1>1. PlacesInv /\ UnrunInv /\ WaitInv => WritersFirst
    <2> SUFFICES ASSUME PlacesInv, UnrunInv, WaitInv, NEW t \in Grouped, NEW u \in Grouped,
                        Running(t), Writes(u, t)
                 PROVE  hasrun[u] # "NOT_RUN"
      BY DEF WritersFirst, Writes
    <2>1. u \in run_after[t]
      BY RunningTask DEF WaitInv
    <2> QED
      BY <2>1, RunningTask
  <1> QED
    BY <1>1, PlacesTheorem, UnrunAlways, WaitAlways, PTL


(* ----- what precedes what ----- *)

LEMMA CompareOpposite ==
  ASSUME NEW c, NEW d, Compare(c, d) > 0
  PROVE  Compare(d, c) # 0
  BY DEF Compare, CompareExts, ComparePartial

\* The group knows the order of every two of its classes.
LEMMA PairOrdered ==
  ASSUME Consistent, Building, GroupInv, Prepare,
         NEW c \in ToSet(keys'), NEW d \in ToSet(keys'), Compare(c, d) > 0
  PROVE  <<c, d>> \in order'
  <1>1. keys' \in Seq(Classes) /\ ToSet(keys') = Classes
    BY GroupList, SetListed DEF Prepare
  <1>2. ToSet(GroupTasks) \subseteq Tasks
    BY GroupList, NoElements
  <1>3. ~(Compare(d, c) > 0) /\ Compare(d, c) # 0 /\ c # d
    <2>1. PICK t \in Tasks, u \in Tasks : c = project.cstr[t] /\ d = project.cstr[u]
      BY <1>1, <1>2 DEF Classes
    <2>2. ~(Compare(d, c) > 0)
      BY <2>1 DEF Consistent, Building
    <2> QED
      BY <2>2, CompareOpposite
  <1>4. Compare(d, c) \in Int
    BY DEF Compare, CompareExts, ComparePartial
  <1>5. Compare(d, c) < 0
    BY <1>3, <1>4
  <1>6. PICK i \in 1..Len(keys'), j \in 1..Len(keys') : keys'[i] = c /\ keys'[j] = d
    BY <1>1 DEF ToSet
  <1>7. order' = ExtractConstraints(keys')
    BY DEF Prepare
  <1>8. PICK k : k = keys'
    OBVIOUS
  <1>9. i # j
    BY <1>3, <1>6
  <1>10. CASE i < j
    <2>1. <<i, j>> \in {q \in (1..Len(k)) \X (1..Len(k)) : q[1] < q[2]}
      BY <1>6, <1>8, <1>10
    <2>2. Compare(k[i], k[j]) > 0
      BY <1>6, <1>8
    <2>3. <<k[i], k[j]>> \in ExtractConstraints(k)
      BY <2>1, <2>2 DEF ExtractConstraints
    <2> QED
      BY <1>6, <1>7, <1>8, <2>3
  <1>11. CASE j < i
    <2>1. <<j, i>> \in {q \in (1..Len(k)) \X (1..Len(k)) : q[1] < q[2]}
      BY <1>6, <1>8, <1>11
    <2>2. Compare(k[j], k[i]) < 0
      BY <1>5, <1>6, <1>8
    <2>3. <<k[i], k[j]>> \in ExtractConstraints(k)
      BY <2>1, <2>2 DEF ExtractConstraints
    <2> QED
      BY <1>6, <1>7, <1>8, <2>3
  <1> QED
    BY <1>6, <1>9, <1>10, <1>11

\* When a group is asked for its next tasks, all it has handed out is done, but
\* for what it keeps for later.
LEMMA HandedOutDone ==
  ASSUME PlacesInv, main = "nextset", NEW t \in Grouped, HandedOut(t)
  PROVE  t \in tasks_done \cup ToSet(temp_tasks)
  <1>1. t \in Seen
    BY DEF PlacesInv, SeenInv
  <1>2. ready = <<>> /\ out = <<>> /\ InFlight = {} /\ frozen = <<>>
        /\ ToSet(outstanding) \cap Grouped = {}
    BY NothingInFlight DEF PlacesInv, MainInv
  <1>3. InHands = {} /\ ToSet(ready) = {} /\ ToSet(out) = {} /\ ToSet(frozen) = {}
    BY <1>2, EmptyList DEF InHands
  <1> QED
    BY <1>1, <1>2, <1>3 DEF Seen, Listing

OrderKept == prepared /\ ~inner =>
  \A c, d \in ToSet(keys) : Compare(c, d) > 0 => <<c, d>> \in order
PredecessorDone(t, u) ==
  /\ GroupOf(u) < GroupOf(t) => u \in tasks_done
  /\ GroupOf(u) = GroupOf(t) /\ Compare(project.cstr[u], project.cstr[t]) > 0 =>
       u \in IF project.algotype = "MAXPARALLEL" THEN run_after[t] ELSE tasks_done

LEMMA OrderKeptNext ==
  ASSUME Consistent, PlacesInv, OrderKept, [Next]_vars
  PROVE  OrderKept'
  <1>0. project \in Projects /\ GroupInv
    BY DEF PlacesInv, GroupInv
  <1>1. CASE PrepareGroup
    <2>1. Building /\ Prepare
      BY <1>0, <1>1 DEF PrepareGroup, Building, Groups, GroupInv
    <2> QED
      BY <1>0, <2>1, PairOrdered DEF OrderKept
  <1>2. CASE NextSet
    <2>1. HandOut /\ prepared
      BY <1>2 DEF NextSet
    <2>2. CASE project.algotype = "MAXPARALLEL"
      BY <2>1, <2>2 DEF HandOut, OrderKept
    <2>3. CASE project.algotype # "MAXPARALLEL" /\ temp_tasks = <<>>
      <3>1. keys' = Remainder(keys, order) /\ order' = RemainingOrder(keys, order) /\ inner' = inner
        BY <2>1, <2>3 DEF HandOut, DropUnconnected
      <3>2. ToSet(keys') = {c \in ToSet(keys) : Connected(order, c)}
        BY <1>0, <3>1, RemainderList DEF GroupInv
      <3> SUFFICES ASSUME ~inner, NEW c \in ToSet(keys'), NEW d \in ToSet(keys'), Compare(c, d) > 0
                   PROVE  <<c, d>> \in order'
        BY <3>1 DEF OrderKept
      <3>3. <<c, d>> \in order /\ c \notin Unconnected(keys, order)
        BY <2>1, <3>2 DEF OrderKept, Unconnected
      <3> QED
        BY <3>1, <3>3 DEF RemainingOrder
    <2>4. CASE project.algotype # "MAXPARALLEL" /\ temp_tasks # <<>>
      BY <2>1, <2>4 DEF HandOut, OrderKept
    <2> QED
      BY <2>2, <2>3, <2>4
  <1>3. CASE NextGroup
    BY <1>3 DEF NextGroup, OrderKept
  <1>4. CASE ~PrepareGroup /\ ~NextSet /\ ~NextGroup
    BY <1>4, GroupKept DEF groupVars, OrderKept
  <1> QED
    BY <1>1, <1>2, <1>3, <1>4

\* Those that precede a task that is handed out for the first time.
LEMMA NewOnesOrdered ==
  ASSUME PlacesInv, OrderKept, NextSet, NEW t \in NewOnes, NEW u \in Grouped
  PROVE  PredecessorDone(t, u)'
  <1>0. /\ project \in Projects /\ GroupInv /\ main = "nextset" /\ prepared /\ HandOut
        /\ HandedList # <<>> /\ UNCHANGED <<project, group, tasks_done>> /\ group \in Nat
    BY ProjectLists DEF NextSet, HandedList, PlacesInv, GroupInv
  <1>1. Building
    BY <1>0 DEF NextSet, Building, Groups, GroupInv
  <1>2. t \in ToSet(GroupTasks) /\ t \in Grouped /\ t \in Tasks /\ GroupOf(t) = group
    <2>1. NewOnes \subseteq ToSet(GroupTasks)
      BY DEF NewOnes, Fresh
    <2> QED
      BY <1>1, <2>1, GroupList, NoElements
  <1>3. GroupOf(t)' = GroupOf(t) /\ GroupOf(u)' = GroupOf(u) /\ GroupOf(u) \in Nat
    BY <1>0, InItsGroup DEF GroupOf, Groups
  <1>4. ToSet(temp_tasks) \subseteq ToSet(GroupTasks)
    BY <1>0 DEF GroupInv
  <1>5. ASSUME GroupOf(u) < GroupOf(t) PROVE u \in tasks_done'
    <2>1. HandedOut(u)
      BY <1>2, <1>5 DEF HandedOut
    <2>2. u \notin ToSet(temp_tasks)
      BY <1>1, <1>2, <1>3, <1>4, <1>5, GroupList
    <2> QED
      BY <1>0, <2>1, <2>2, HandedOutDone
  <1>6. ASSUME GroupOf(u) = GroupOf(t), Compare(project.cstr[u], project.cstr[t]) > 0
        PROVE  u \in IF project.algotype = "MAXPARALLEL" THEN run_after'[t] ELSE tasks_done'
    <2>0. u \in ToSet(GroupTasks)
      BY <1>1, <1>2, <1>6, GroupList
    <2>1. CASE project.algotype = "MAXPARALLEL"
      <3>1. ~inner
        <4>1. inner => HandedList = <<>>
          BY <2>1 DEF HandedList, NextTasks
        <4> QED
          BY <1>0, <4>1
      <3>2. ToSet(keys) = Classes
        BY <1>0, <2>1, <3>1 DEF GroupInv
      <3>3. <<project.cstr[u], project.cstr[t]>> \in order
        BY <1>0, <1>2, <1>6, <2>0, <3>1, <3>2 DEF OrderKept, Classes
      <3>4. u \in WithInner(t)
        BY <1>2, <2>0, <3>3 DEF WithInner
      <3>5. run_after' = [x \in Tasks |-> WithInner(x)]
        BY <1>0, <2>1 DEF HandOut
      <3> QED
        BY <1>2, <2>1, <3>4, <3>5
    <2>2. CASE project.algotype # "MAXPARALLEL"
      <3>1. temp_tasks = <<>> /\ t \in Fresh
        BY <2>2 DEF NewOnes
      <3>2. ~inner
        BY <1>0, <2>2 DEF GroupInv
      <3>3. project.cstr[t] \in ToSet(keys) /\ ~Connected(order, project.cstr[t])
        BY <3>1 DEF Fresh, Unconnected
      <3>4. project.cstr[u] \notin ToSet(keys)
        <4>1. <<project.cstr[u], project.cstr[t]>> \notin order
          BY <3>3 DEF Connected
        <4> QED
          BY <1>0, <1>6, <3>2, <3>3, <4>1 DEF OrderKept
      <3>5. HandedOut(u)
        BY <1>0, <1>2, <1>6, <2>2, <3>4 DEF HandedOut
      <3>6. u \in tasks_done
        BY <1>0, <3>1, <3>5, HandedOutDone, EmptyList
      <3> QED
        BY <1>0, <2>2, <3>6
    <2> QED
      BY <2>1, <2>2
  <1> QED
    BY <1>0, <1>3, <1>5, <1>6 DEF PredecessorDone

\* Only the main thread hands out a task of a group, from the group's next set.
LEMMA SeenAnew ==
  ASSUME PlacesInv, PlacesInv', [Next]_vars, NEW t \in Grouped, t \in Seen', t \notin Seen
  PROVE  NextSet /\ t \in NewOnes
  <1>1. project' = project /\ Grouped' = Grouped
    BY ProjectKept
  <1>2. HandedOut(t)' /\ ~HandedOut(t)
    BY <1>1 DEF PlacesInv, SeenInv
  <1>3. CASE NextSet
    <2>1. Building /\ GroupInv /\ IsList(temp_tasks) /\ prepared /\ HandOut /\ HandedList # <<>>
          /\ UNCHANGED <<project, group, prepared>>
      BY <1>3 DEF NextSet, HandedList, Building, Groups, PlacesInv, GroupInv, ListsInv
    <2> QED
      BY <1>2, <1>3, <2>1, GroupHandsOut
  <1>4. CASE NextGroup \/ PrepareGroup
    <2>1. /\ UNCHANGED <<listVars, queueVars, consVars>>
          /\ temp_tasks' = temp_tasks \/ temp_tasks' = <<>>
      BY <1>4 DEF NextGroup, PrepareGroup, Prepare
    <2>2. /\ UNCHANGED <<outstanding, frozen, ready, out, tasks_done>> /\ InHands' = InHands
          /\ ToSet(temp_tasks') \subseteq ToSet(temp_tasks)
      BY <2>1, EmptyList DEF listVars, queueVars, consVars, InHands, InFlight, Holding
    <2> QED
      BY <2>2 DEF Seen, Listing
  <1>5. CASE ~NextSet /\ ~NextGroup /\ ~PrepareGroup
    BY <1>2, <1>5, GroupKept, HandedFrame
  <1> QED
    BY <1>3, <1>4, <1>5

LEMMA OrderNext ==
  ASSUME Consistent, PlacesInv, PlacesInv', OrderInv, [Next]_vars
  PROVE  OrderInv'
  <1>0. OrderKept /\ \A t \in Grouped, u \in Grouped : t \in Seen => PredecessorDone(t, u)
    BY DEF OrderInv, OrderKept, PredecessorDone
  <1>1. OrderKept'
    BY <1>0, OrderKeptNext
  <1>2. project' = project /\ Grouped' = Grouped /\ \A t \in Grouped : GroupOf(t)' = GroupOf(t)
    BY ProjectKept
  <1>3. project \in Projects /\ Grouped \subseteq Tasks
    BY ProjectLists DEF PlacesInv, GroupInv
  <1>4. ASSUME NEW t \in Grouped, NEW u \in Grouped, t \in Seen PROVE PredecessorDone(t, u)'
    <2>1. PredecessorDone(t, u) /\ t \in Tasks
      BY <1>0, <1>3, <1>4
    <2>2. tasks_done \subseteq tasks_done' /\ run_after[t] \subseteq run_after'[t]
      BY <2>1, DoneGrows, RunAfterGrows
    <2>3. GroupOf(t)' = GroupOf(t) /\ GroupOf(u)' = GroupOf(u)
      BY <1>2
    <2> QED
      BY <1>2, <2>1, <2>2, <2>3 DEF PredecessorDone
  <1>5. ASSUME NEW t \in Grouped, NEW u \in Grouped, t \in Seen', t \notin Seen
        PROVE  PredecessorDone(t, u)'
    <2>1. NextSet /\ t \in NewOnes
      BY <1>5, SeenAnew
    <2> QED
      BY <1>0, <2>1, NewOnesOrdered
  <1>6. \A t \in Grouped', u \in Grouped' : t \in Seen' => PredecessorDone(t, u)'
    BY <1>2, <1>4, <1>5
  <1> QED
    BY <1>1, <1>6 DEF OrderInv, OrderKept, PredecessorDone

\* Whoever precedes a task that was handed out is done, or with MAXPARALLEL
\* waited for.
LEMMA OrderAlways ==
  ASSUME Consistent
  PROVE  Spec => []OrderInv
  <1>1. Init => OrderInv
    <2>1. Init => Seen = {} /\ ~prepared
      BY EmptyList DEF Init, Seen, Listing, InHands, InFlight, Holding
    <2> QED
      BY <2>1 DEF OrderInv
  <1>2. PlacesInv /\ PlacesInv' /\ OrderInv /\ [Next]_vars => OrderInv'
    BY OrderNext
  <1> QED
    BY <1>1, <1>2, PlacesTheorem, PTL DEF Spec


(* ----- what a failure stops: the steps ----- *)

LEMMA MarkedKept ==
  ASSUME MarkedInv, project' = project, Tried \subseteq Tried',
         \A t \in Tasks \ Tried' : hasrun'[t] = hasrun[t]
  PROVE  MarkedInv'
  BY DEF MarkedInv

LEMMA CreatedKept ==
  ASSUME CreatedInv, project' = project, stop => stop', Seen \subseteq Seen',
         \A t \in tasks_done' :
            \/ t \in tasks_done /\ hasrun'[t] = hasrun[t]
            \/ stop' \/ hasrun'[t] # "SUCCESS" \/ ToSet(project.more[t]) \subseteq Seen'
  PROVE  CreatedInv'
  BY DEF CreatedInv

\* Steps that try no task and finish none.
LEMMA QuietStep ==
  ASSUME GoodInv, UNCHANGED <<project, tasks_done, out, hasrun, stop, error>>,
         InHands' = InHands, Seen \subseteq Seen',
         \A c \in Consumers : pc'[c] = "put" => pc[c] = "put" /\ tsk'[c] = tsk[c]
  PROVE  MarkedInv' /\ FineInv' /\ CreatedInv'
  <1>1. MarkedInv'
    BY MarkedKept DEF GoodInv, Tried
  <1>2. FineInv'
    BY DEF GoodInv, FineInv
  <1>3. CreatedInv'
    BY CreatedKept DEF GoodInv
  <1> QED
    BY <1>1, <1>2, <1>3

LEMMA HandsKept ==
  ASSUME UNCHANGED consVars
  PROVE  InHands' = InHands
  BY DEF InHands, InFlight, Holding, consVars

LEMMA MainKeepsGood ==
  ASSUME PlacesInv, UnrunInv, GoodInv, Main
  PROVE  MarkedInv' /\ FineInv' /\ CreatedInv'
  <1>0. Seen \subseteq Seen' /\ project' = project
    BY MainKeepsPlaces, ProjectKept DEF Next
  <1>g. MarkedInv /\ FineInv /\ CreatedInv /\ ListsInv /\ ApartInv
        /\ hasrun \in [Tasks -> Statuses]
    BY DEF GoodInv, PlacesInv, UnrunInv
  <1>1. CASE \/ Loop \/ EndThrottle \/ Filled \/ RaiseCircular \/ NoMoreGroups \/ NothingLeft \/ Leave
             \/ FillIdle \/ PrepareGroup \/ NextSet \/ NextGroup \/ Postpone
    <2>1. UNCHANGED <<tasks_done, flagVars, queueVars, consVars>>
      BY <1>1 DEF Loop, EndThrottle, Filled, RaiseCircular, NoMoreGroups, NothingLeft, Leave,
                  FillIdle, PrepareGroup, NextSet, NextGroup, Postpone, listVars
    <2>2. /\ UNCHANGED <<tasks_done, out, hasrun, stop, error>> /\ InHands' = InHands
          /\ \A c \in Consumers : pc'[c] = "put" => pc[c] = "put" /\ tsk'[c] = tsk[c]
      BY <2>1, HandsKept DEF flagVars, queueVars, consVars
    <2> QED
      BY <1>0, <2>2, QuietStep
  <1>2. CASE PutReady
    <2>1. /\ UNCHANGED <<tasks_done, out, hasrun, stop, error, tsk>>
          /\ pc' = [c \in Consumers |-> IF pc[c] = "unborn" /\ c \in Workers THEN "get" ELSE pc[c]]
      BY <1>2 DEF PutReady, flagVars
    <2>2. InFlight' = InFlight
      BY <2>1 DEF InFlight, Holding
    <2>3. InHands' = InHands
      BY <2>1, <2>2 DEF InHands
    <2> QED
      BY <1>0, <2>1, <2>3, QuietStep
  <1>3. CASE Throttle \/ FillGetOut \/ Collect
    <2>h. PICK h : h = Head(out)
      OBVIOUS
    <2>1. GetOut /\ UNCHANGED <<flagVars, consVars>> /\ ToSet(Extra) \subseteq Seen'
      BY <1>3, MainGetsOut DEF Throttle, FillGetOut, Collect
    <2>2. /\ h \in ToSet(out) /\ ToSet(out') = ToSet(out) \ {h}
          /\ tasks_done' = tasks_done \cup {h} /\ InHands' = InHands
          /\ UNCHANGED <<stop, error, hasrun, pc, tsk>>
      BY <1>g, <2>h, <2>1, TailList, HandsKept DEF GetOut, ListsInv, flagVars, consVars
    <2>3. MarkedInv'
      <3>1. Tried' = Tried
        BY <2>2 DEF Tried
      <3> QED
        BY <1>0, <1>g, <2>2, <3>1, MarkedKept
    <2>4. FineInv'
      BY <1>g, <2>2 DEF FineInv, Fine
    <2>5. CreatedInv'
      <3>1. stop \/ Extra = project.more[h]
        BY <2>h DEF Extra
      <3>2. stop' \/ ToSet(project.more[h]) \subseteq Seen'
        BY <2>1, <2>2, <3>1
      <3> QED
        BY <1>0, <1>g, <2>2, <3>2, CreatedKept
    <2> QED
      BY <2>3, <2>4, <2>5
  <1>4. CASE HasRun \/ StatusRaises \/ Skip
    <2>t. PICK t : t = NextTask
      OBVIOUS
    <2>1. /\ Take /\ tasks_done' = tasks_done \cup {t} /\ UNCHANGED <<out, consVars>>
      BY <1>4, <2>t DEF HasRun, StatusRaises, Skip, Finish, queueVars
    <2>2. /\ t \in Tasks /\ t \notin Tried
          /\ InHands' = InHands /\ UNCHANGED <<pc, tsk>> /\ Tried' = Tried \cup {t}
      <3>1. t \in ToSet(outstanding) /\ t \in Tasks
        BY <1>g, <2>t, <2>1, TailList DEF Take, NextTask, ListsInv
      <3>2. InHands' = InHands /\ UNCHANGED <<pc, tsk>>
        BY <2>1, HandsKept DEF consVars
      <3> QED
        BY <1>g, <2>1, <3>1, <3>2 DEF Tried, ApartInv, Listing
    <2>3. CASE HasRun
      <3>1. UNCHANGED <<stop, error, hasrun>> /\ hasrun[t] # "NOT_RUN"
        BY <2>t, <2>3 DEF HasRun, flagVars
      <3>2. t \in project.marked /\ hasrun[t] = "SUCCESS"
        BY <1>g, <2>2, <3>1 DEF MarkedInv
      <3>3. ToSet(project.more[t]) = {}
        BY <3>2, ProjectApart DEF PlacesInv, GroupInv
      <3>4. MarkedInv'
        BY <1>0, <1>g, <2>2, <3>1, MarkedKept
      <3>5. FineInv'
        BY <1>g, <2>1, <2>2, <3>1, <3>2 DEF FineInv, Fine
      <3>6. CreatedInv'
        BY <1>0, <1>g, <2>1, <3>1, <3>3, CreatedKept
      <3> QED
        BY <3>4, <3>5, <3>6
    <2>4. CASE StatusRaises \/ Skip
      <3>1. PICK s \in {"EXCEPTION", "SKIPPED"} :
              /\ hasrun' = [hasrun EXCEPT ![t] = s] /\ (stop => stop') /\ (error => error')
              /\ s = "EXCEPTION" => error'
        <4>1. CASE StatusRaises
          <5>1. hasrun' = [hasrun EXCEPT ![t] = "EXCEPTION"] /\ error'
            BY <2>t, <4>1 DEF StatusRaises
          <5>2. stop => stop'
            BY <4>1 DEF StatusRaises
          <5> QED
            BY <5>1, <5>2
        <4>2. CASE Skip
          BY <2>t, <4>2 DEF Skip
        <4> QED
          BY <2>4, <4>1, <4>2
      <3>2. hasrun'[t] = s /\ \A u : u # t => hasrun'[u] = hasrun[u]
        BY <1>g, <2>2, <3>1
      <3>3. MarkedInv'
        BY <1>0, <1>g, <2>2, <3>2, MarkedKept
      <3>4. FineInv'
        <4> SUFFICES ASSUME ~stop', ~error' PROVE FineInv'
          BY DEF FineInv
        <4>1. s = "SKIPPED" /\ ~stop /\ ~error
          BY <3>1
        <4>2. \A u \in tasks_done' : hasrun'[u] \in Fine
          BY <1>g, <2>1, <3>2, <4>1 DEF FineInv, Fine
        <4>3. \A u \in ToSet(out') : hasrun'[u] = "SUCCESS"
          BY <1>g, <2>1, <2>2, <3>2, <4>1 DEF FineInv, Tried
        <4>4. \A c \in Consumers : pc'[c] = "put" => hasrun'[tsk'[c]] = "SUCCESS"
          <5> SUFFICES ASSUME NEW c \in Consumers, pc[c] = "put" PROVE hasrun'[tsk[c]] = "SUCCESS"
            BY <2>2
          <5>1. tsk[c] \in InHands
            BY InItsHands DEF PlacesInv, Holding
          <5> QED
            BY <1>g, <2>2, <3>2, <4>1, <5>1 DEF FineInv, Tried
        <4> QED
          BY <4>2, <4>3, <4>4 DEF FineInv
      <3>5. CreatedInv'
        <4>1. hasrun'[t] # "SUCCESS"
          BY <3>1, <3>2
        <4>2. \A u \in tasks_done : u # t
          BY <2>2 DEF Tried
        <4> QED
          BY <1>0, <1>g, <2>1, <3>1, <3>2, <4>1, <4>2, CreatedKept
      <3> QED
        BY <3>3, <3>4, <3>5
    <2> QED
      BY <1>4, <2>3, <2>4
  <1> QED
    BY <1>1, <1>2, <1>3, <1>4 DEF Main

LEMMA ConsumersKeepGood ==
  ASSUME PlacesInv, UnrunInv, GoodInv, NEW c \in Consumers, Consumer(c)
  PROVE  MarkedInv' /\ FineInv' /\ CreatedInv'
  <1>0. Seen \subseteq Seen' /\ UNCHANGED <<project, tasks_done>>
    BY ConsumersKeepPlaces
       DEF Consumer, Get, Check, Run, SetStop, SetError, PutOut, mainVars, listVars
  <1>g. /\ MarkedInv /\ FineInv /\ CreatedInv /\ ListsInv /\ ApartInv /\ HandsInv
        /\ hasrun \in [Tasks -> Statuses] /\ pc \in [Consumers -> PCs]
        /\ tsk \in [Consumers -> Tasks \cup {NoTask}]
    BY DEF GoodInv, PlacesInv, UnrunInv, CountInv, HandsInv
  <1>1. CASE Get(c)
    <2>1. /\ pc[c] = "get" /\ pc' = [pc EXCEPT ![c] = "check"]
          /\ UNCHANGED <<stop, error, hasrun, out>>
          /\ \A d \in Consumers : d # c => tsk'[d] = tsk[d]
      BY <1>1, <1>g DEF Get, ConsGoto, flagVars
    <2>2. InHands \subseteq InHands'
      BY <1>g, <2>1 DEF InHands, InFlight, Holding
    <2>3. MarkedInv'
      BY <1>0, <1>g, <2>1, <2>2, MarkedKept DEF Tried
    <2>4. FineInv'
      <3>1. \A d \in Consumers : pc'[d] = "put" => pc[d] = "put" /\ tsk'[d] = tsk[d]
        BY <1>g, <2>1
      <3> QED
        BY <1>0, <1>g, <2>1, <3>1 DEF FineInv
    <2>5. CreatedInv'
      BY <1>0, <1>g, <2>1, CreatedKept
    <2> QED
      BY <2>3, <2>4, <2>5
  <1>2. CASE Check(c) \/ SetStop(c) \/ SetError(c)
    <2>1. /\ UNCHANGED <<hasrun, out, tsk>> /\ (stop => stop') /\ (error => error') /\ Holding(c)
      BY <1>2 DEF Check, SetStop, SetError, ConsGoto, Holding, queueVars, flagVars
    <2>2. PICK p \in {"put", "run", "error"} :
            pc' = [pc EXCEPT ![c] = p] /\ (p = "put" => stop' \/ error')
      BY <1>2 DEF Check, SetStop, SetError, ConsGoto, flagVars
    <2>3. InHands' = InHands
      BY <1>g, <2>1, <2>2 DEF InHands, InFlight, Holding
    <2>4. MarkedInv'
      BY <1>0, <1>g, <2>1, <2>3, MarkedKept DEF Tried
    <2>5. FineInv'
      <3>1. \A d \in Consumers : pc'[d] = "put" => pc[d] = "put" \/ stop' \/ error'
        BY <1>g, <2>2
      <3> QED
        BY <1>0, <1>g, <2>1, <3>1 DEF FineInv
    <2>6. CreatedInv'
      BY <1>0, <1>g, <2>1, CreatedKept
    <2> QED
      BY <2>4, <2>5, <2>6
  <1>3. CASE Run(c)
    <2>t. PICK t : t = tsk[c]
      OBVIOUS
    <2>1. PICK fate \in {"ok", "crash", "raise", "missing"} :
            /\ pc' = [pc EXCEPT ![c] = IF fate = "ok" THEN "put"
                                       ELSE IF project.keep THEN "error" ELSE "stop"]
            /\ hasrun' = [hasrun EXCEPT ![t] = Outcome(fate)]
            /\ UNCHANGED <<stop, error, out, tsk>> /\ pc[c] = "run"
      BY <1>3, <2>t DEF Run, ConsGoto, queueVars
    <2>2. t \in InHands /\ t \in Tasks
      BY <1>g, <2>t, <2>1, InItsHands DEF Holding
    <2>3. /\ hasrun'[t] = Outcome(fate) /\ \A u : u # t => hasrun'[u] = hasrun[u]
          /\ t \notin tasks_done /\ t \notin ToSet(out)
      BY <1>g, <2>1, <2>2 DEF ApartInv
    <2>4. InHands' = InHands
      BY <1>g, <2>1 DEF InHands, InFlight, Holding
    <2>5. MarkedInv'
      BY <1>0, <1>g, <2>1, <2>2, <2>3, <2>4, MarkedKept DEF Tried
    <2>6. FineInv'
      <3> SUFFICES ASSUME ~stop, ~error PROVE FineInv'
        BY <2>1 DEF FineInv
      <3>1. \A u \in tasks_done' : hasrun'[u] \in Fine
        BY <1>0, <1>g, <2>3 DEF FineInv
      <3>2. \A u \in ToSet(out') : hasrun'[u] = "SUCCESS"
        BY <1>g, <2>1, <2>3 DEF FineInv
      <3>3. ASSUME NEW d \in Consumers, pc'[d] = "put" PROVE hasrun'[tsk'[d]] = "SUCCESS"
        <4>1. CASE d = c
          <5>1. fate = "ok"
            BY <1>g, <2>1, <3>3, <4>1
          <5> QED
            BY <2>t, <2>1, <2>3, <4>1, <5>1 DEF Outcome
        <4>2. CASE d # c
          <5>1. pc[d] = "put"
            BY <1>g, <2>1, <3>3, <4>2
          <5>2. tsk[d] # t
            BY <1>g, <2>t, <2>1, <4>2, <5>1 DEF HandsInv, InFlight, Holding
          <5> QED
            BY <1>g, <2>1, <2>3, <5>1, <5>2 DEF FineInv
        <4> QED
          BY <4>1, <4>2
      <3> QED
        BY <3>1, <3>2, <3>3 DEF FineInv
    <2>7. CreatedInv'
      BY <1>0, <1>g, <2>1, <2>3, CreatedKept
    <2> QED
      BY <2>5, <2>6, <2>7
  <1>4. CASE PutOut(c)
    <2>t. PICK t : t = tsk[c]
      OBVIOUS
    <2>1. /\ pc[c] = "put" /\ pc' = [pc EXCEPT ![c] = "get"] /\ tsk' = [tsk EXCEPT ![c] = NoTask]
          /\ out' = Append(out, t) /\ UNCHANGED <<stop, error, hasrun>>
      BY <1>4, <2>t DEF PutOut, ConsGoto, flagVars
    <2>2. t \in InHands /\ t \in Tasks /\ t \notin ToSet(out)
      BY <1>g, <2>t, <2>1, InItsHands DEF Holding, ApartInv
    <2>3. ToSet(out') = ToSet(out) \cup {t}
      BY <1>g, <2>1, <2>2, AppendedList DEF ListsInv
    <2>4. InHands \subseteq InHands' \cup {t}
      BY <1>g, <2>t, <2>1 DEF InHands, InFlight, Holding
    <2>5. MarkedInv'
      BY <1>0, <1>g, <2>1, <2>3, <2>4, MarkedKept DEF Tried
    <2>6. FineInv'
      <3>1. \A d \in Consumers : pc'[d] = "put" => pc[d] = "put" /\ tsk'[d] = tsk[d]
        BY <1>g, <2>1
      <3>2. ~stop /\ ~error => hasrun[t] = "SUCCESS"
        BY <1>g, <2>t, <2>1 DEF FineInv
      <3> QED
        BY <1>0, <1>g, <2>1, <2>3, <3>1, <3>2 DEF FineInv
    <2>7. CreatedInv'
      BY <1>0, <1>g, <2>1, CreatedKept
    <2> QED
      BY <2>5, <2>6, <2>7
  <1> QED
    BY <1>1, <1>2, <1>3, <1>4 DEF Consumer


\* A build that is over without having been stopped has no more tasks to run.
LEMMA BuiltNext ==
  ASSUME PlacesInv, BuiltInv, [Next]_vars
  PROVE  BuiltInv'
  <1> SUFFICES ASSUME main' = "built", ~stop' PROVE ~error'
    BY DEF BuiltInv
  <1>1. CASE Leave
    BY <1>1 DEF Leave, flagVars
  <1>2. CASE Main /\ ~Leave
    BY <1>2 DEF Main, MainGoto, Finish, Take,
         Loop, Throttle, EndThrottle, FillGetOut, FillIdle, Filled, PrepareGroup, NextSet,
         NextGroup, RaiseCircular, NoMoreGroups, NothingLeft, HasRun, StatusRaises, Skip,
         Postpone, PutReady, Collect
  <1>3. ASSUME NEW c \in Consumers, Consumer(c) PROVE ~error'
    <2>1. main = "built" /\ ~stop
      BY <1>3 DEF Consumer, Get, Check, Run, SetStop, SetError, PutOut, mainVars, flagVars
    <2>2. ~error /\ count = 0
      BY <2>1 DEF BuiltInv, PlacesInv, MainInv, Over
    <2>3. ~Holding(c)
      BY <2>2, NothingInFlight DEF PlacesInv, InFlight
    <2>4. Get(c)
      BY <1>3, <2>3 DEF Consumer, Check, Run, SetStop, SetError, PutOut, ConsGoto, Holding
    <2> QED
      BY <2>2, <2>4 DEF Get, flagVars
  <1>4. CASE Done \/ UNCHANGED vars
    BY <1>4 DEF Done, vars, flagVars, BuiltInv
  <1> QED
    BY <1>1, <1>2, <1>3, <1>4 DEF Next

LEMMA GoodNext ==
  ASSUME PlacesInv, UnrunInv, GoodInv, [Next]_vars
  PROVE  GoodInv'
  <1>1. BuiltInv'
    BY BuiltNext DEF GoodInv
  <1>2. CASE Main
    BY <1>1, <1>2, MainKeepsGood DEF GoodInv
  <1>3. CASE \E c \in Consumers : Consumer(c)
    BY <1>1, <1>3, ConsumersKeepGood DEF GoodInv
  <1>4. CASE Done \/ UNCHANGED vars
    <2>1. UNCHANGED <<project, groupVars, listVars, flagVars, queueVars, consVars>>
      BY <1>4 DEF Done, vars
    <2>2. /\ UNCHANGED <<project, tasks_done, out, hasrun, stop, error>> /\ InHands' = InHands
          /\ \A c \in Consumers : pc'[c] = "put" => pc[c] = "put" /\ tsk'[c] = tsk[c]
      BY <2>1, HandsKept DEF flagVars, queueVars, consVars, listVars
    <2>3. Seen \subseteq Seen'
      BY <2>1, <2>2 DEF Seen, Listing, groupVars, listVars, queueVars
    <2> QED
      BY <1>1, <2>2, <2>3, QuietStep DEF GoodInv
  <1> QED
    BY <1>2, <1>3, <1>4 DEF Next

\* While nothing has failed everything that came out went well, and nothing
\* that was created on the way is lost.
LEMMA GoodAlways == Spec => []GoodInv
  <1>1. Init => GoodInv
    <2> SUFFICES ASSUME Init PROVE GoodInv
      OBVIOUS
    <2>1. \A t \in Tasks : hasrun[t] = IF t \in project.marked THEN "SUCCESS" ELSE "NOT_RUN"
      BY DEF Init
    <2>2. MarkedInv
      BY <2>1 DEF MarkedInv
    <2>3. tasks_done = {} /\ ToSet(out) = {} /\ (\A c \in Consumers : pc[c] = "unborn")
          /\ main = "loop"
      BY EmptyList DEF Init
    <2> QED
      BY <2>2, <2>3 DEF GoodInv, FineInv, CreatedInv, BuiltInv
  <1>2. PlacesInv /\ UnrunInv /\ GoodInv /\ [Next]_vars => GoodInv'
    BY GoodNext
  <1> QED
    BY <1>1, <1>2, PlacesTheorem, UnrunAlways, PTL DEF Spec

\* A build that ends with success and was not stopped has tried every task of
\* the groups and every task created meanwhile, and none of them failed: for
\* every project, whatever its tasks do.
THEOREM CompleteTheorem == Spec => []CompleteWhenBuilt
  <1>1. PlacesInv /\ GoodInv => CompleteWhenBuilt
    <2> SUFFICES ASSUME PlacesInv, GoodInv, main = "built", ~stop
                 PROVE  /\ Grouped \cup Created \subseteq tasks_done
                        /\ \A t \in tasks_done : hasrun[t] \in {"SUCCESS", "SKIPPED"}
                        /\ count = 0
      BY DEF CompleteWhenBuilt
    <2>0. /\ GroupInv /\ SeenInv /\ CountInv /\ project \in Projects /\ Len(project.groups) \in Nat
          /\ Grouped \subseteq Tasks
      BY ProjectLists DEF PlacesInv, GroupInv
    <2>1. group > Len(project.groups) /\ frozen = <<>> /\ count = 0 /\ outstanding = <<>> /\ ~error
      BY DEF PlacesInv, MainInv, Over, GoodInv, BuiltInv
    <2>2. Seen = tasks_done
      <3>1. ready = <<>> /\ out = <<>> /\ InHands = {}
        BY <2>0, <2>1, NothingInFlight DEF InHands
      <3>2. temp_tasks = <<>>
        <4>1. ~prepared
          BY <2>0, <2>1 DEF GroupInv
        <4> QED
          BY <2>0, <4>1 DEF GroupInv
      <3> QED
        BY <2>1, <3>1, <3>2, EmptyList DEF Seen, Listing
    <2>3. Grouped \subseteq tasks_done
      <3> SUFFICES ASSUME NEW t \in Grouped PROVE HandedOut(t)
        BY <2>0, <2>2 DEF SeenInv
      <3>1. GroupOf(t) \in 1..Len(project.groups)
        BY <2>0, InItsGroup DEF Groups
      <3> QED
        BY <2>0, <2>1, <3>1 DEF HandedOut, GroupInv
    <2>4. Created \subseteq tasks_done
      BY <2>2 DEF Created, GoodInv, CreatedInv
    <2>5. \A t \in tasks_done : hasrun[t] \in {"SUCCESS", "SKIPPED"}
      BY <2>1 DEF GoodInv, FineInv, Fine
    <2> QED
      BY <2>1, <2>3, <2>4, <2>5
  <1> QED
    BY <1>1, PlacesTheorem, GoodAlways, PTL

\* What is over keeps its status.
LEMMA DoneKeepsStatus ==
  ASSUME PlacesInv, UnrunInv, [Next]_vars, NEW t \in tasks_done
  PROVE  hasrun'[t] = hasrun[t]
  <1>g. ListsInv /\ ApartInv /\ HandsInv /\ hasrun \in [Tasks -> Statuses]
    BY DEF PlacesInv, UnrunInv
  <1>1. CASE StatusRaises \/ Skip
    <2>u. PICK u : u = NextTask
      OBVIOUS
    <2>1. Take /\ \E s \in {"EXCEPTION", "SKIPPED"} : hasrun' = [hasrun EXCEPT ![u] = s]
      BY <1>1, <2>u DEF StatusRaises, Skip
    <2>2. u \in ToSet(outstanding)
      BY <1>g, <2>u, <2>1, TailList DEF Take, NextTask, ListsInv
    <2>3. u # t
      BY <1>g, <2>2 DEF ApartInv, Listing
    <2> QED
      BY <1>g, <2>1, <2>3
  <1>2. CASE Main /\ ~StatusRaises /\ ~Skip
    BY <1>2 DEF Main, Finish, flagVars,
         Loop, Throttle, EndThrottle, FillGetOut, FillIdle, Filled, PrepareGroup, NextSet,
         NextGroup, RaiseCircular, NoMoreGroups, NothingLeft, HasRun,
         Postpone, PutReady, Collect, Leave
  <1>3. ASSUME NEW c \in Consumers, Run(c) PROVE hasrun'[t] = hasrun[t]
    <2>1. tsk[c] \in InHands
      BY <1>3, <1>g, InItsHands DEF Run, Holding
    <2>2. tsk[c] # t
      BY <1>g, <2>1 DEF ApartInv
    <2>3. \E s : hasrun' = [hasrun EXCEPT ![tsk[c]] = s]
      BY <1>3 DEF Run
    <2> QED
      BY <1>g, <2>2, <2>3
  <1>4. ASSUME NEW c \in Consumers, Consumer(c), ~Run(c) PROVE hasrun'[t] = hasrun[t]
    BY <1>4 DEF Consumer, Get, Check, SetStop, SetError, PutOut, flagVars
  <1>5. CASE Done \/ UNCHANGED vars
    BY <1>5 DEF Done, vars, flagVars
  <1> QED
    BY <1>1, <1>2, <1>3, <1>4, <1>5 DEF Next

\* A consumer that runs a task looked at stop first.
LEMMA RunStarts ==
  ASSUME PlacesInv, [Next]_vars, NEW c \in Consumers, pc'[c] = "run"
  PROVE  tsk'[c] = tsk[c] /\ (pc[c] = "run" \/ (~stop /\ pc[c] = "check"))
  <1>0. pc \in [Consumers -> PCs] /\ tsk \in [Consumers -> Tasks \cup {NoTask}]
    BY DEF PlacesInv, CountInv, HandsInv
  <1>1. CASE PutReady
    BY <1>0, <1>1 DEF PutReady
  <1>2. CASE Main /\ ~PutReady
    BY <1>2 DEF Main, Finish, consVars,
         Loop, Throttle, EndThrottle, FillGetOut, FillIdle, Filled, PrepareGroup, NextSet,
         NextGroup, RaiseCircular, NoMoreGroups, NothingLeft, HasRun, StatusRaises, Skip,
         Postpone, Collect, Leave
  <1>3. ASSUME NEW d \in Consumers, Get(d) \/ PutOut(d)
        PROVE  tsk'[c] = tsk[c] /\ pc[c] = "run"
    <2>1. PICK p \in {"check", "get"} :
            /\ pc' = [pc EXCEPT ![d] = p]
            /\ \E t : tsk' = [tsk EXCEPT ![d] = t]
      BY <1>3 DEF Get, PutOut, ConsGoto
    <2> QED
      BY <1>0, <2>1
  <1>4. ASSUME NEW d \in Consumers, Run(d) \/ SetStop(d) \/ SetError(d)
        PROVE  tsk'[c] = tsk[c] /\ pc[c] = "run"
    <2>1. PICK p \in {"put", "error", "stop"} : pc' = [pc EXCEPT ![d] = p] /\ tsk' = tsk
      BY <1>4 DEF Run, SetStop, SetError, ConsGoto
    <2> QED
      BY <1>0, <2>1
  <1>5. ASSUME NEW d \in Consumers, Check(d)
        PROVE  tsk'[c] = tsk[c] /\ (pc[c] = "run" \/ (~stop /\ pc[c] = "check"))
    <2>1. /\ tsk' = tsk /\ pc[d] = "check"
          /\ pc' = [pc EXCEPT ![d] = IF stop THEN "put" ELSE "run"]
      BY <1>5 DEF Check, ConsGoto
    <2> QED
      BY <1>0, <2>1
  <1>6. CASE Done \/ UNCHANGED vars
    BY <1>6 DEF Done, vars, consVars
  <1> QED
    BY <1>1, <1>2, <1>3, <1>4, <1>5, <1>6 DEF Next, Consumer



(* ----- the predecessors of a task that runs ----- *)

\* Whoever precedes a task that was handed out, in a build that orders whole
\* classes, is over.
LEMMA PredecessorOver ==
  ASSUME PlacesInv, OrderInv, NEW t \in Grouped, NEW u \in Grouped, t \in Seen, Precedes(u, t)
  PROVE  u \in tasks_done \/ (project.algotype = "MAXPARALLEL" /\ u \in run_after[t])
  <1>1. GroupOf(u) < GroupOf(t) \/
        (GroupOf(u) = GroupOf(t) /\ Compare(project.cstr[u], project.cstr[t]) > 0)
    BY DEF Precedes
  <1> QED
    BY <1>1 DEF OrderInv

\* Without -k, what went well before a task is run is over and went well when it
\* is: the consumer looked at stop, and what is over keeps its status.
LEMMA PredecessorFine ==
  ASSUME PlacesInv, UnrunInv, FlagsInv, GoodInv, [Next]_vars, ~project.keep,
         NEW c \in Consumers, pc'[c] = "run", NEW u \in tasks_done,
         pc[c] = "run" => hasrun[u] \in Fine
  PROVE  u \in tasks_done' /\ hasrun'[u] \in Fine
  <1>1. pc[c] = "run" \/ ~stop
    BY RunStarts
  <1>2. ~stop => ~error
    BY DEF FlagsInv
  <1>3. hasrun[u] \in Fine
    BY <1>1, <1>2 DEF GoodInv, FineInv
  <1> QED
    BY <1>3, DoneGrows, DoneKeepsStatus

\* A task that runs was in the hands of its consumer.
LEMMA RunWasHeld ==
  ASSUME PlacesInv, [Next]_vars, NEW c \in Consumers, pc'[c] = "run"
  PROVE  tsk'[c] = tsk[c] /\ tsk[c] \in Seen
  BY RunStarts, InItsHands DEF PlacesInv, Holding, Seen

\* Without -k, a task that runs has only predecessors that went well: they were
\* over when it was handed out.
LEMMA FailNext ==
  ASSUME PlacesInv, OrderInv, UnrunInv, FlagsInv, GoodInv, FailInv, [Next]_vars
  PROVE  FailInv'
  <1>1. project' = project /\ Grouped' = Grouped /\ \A t \in Grouped : GroupOf(t)' = GroupOf(t)
    BY ProjectKept
  <1> SUFFICES ASSUME ~project.keep, project.algotype # "MAXPARALLEL", NEW c \in Consumers,
                      pc'[c] = "run", NEW t \in Grouped, tsk'[c] = t,
                      NEW u \in Grouped, Precedes(u, t)'
               PROVE  u \in tasks_done' /\ hasrun'[u] \in Fine
    BY <1>1 DEF FailInv, Precedes
  <1>2. tsk[c] = t /\ t \in Seen
    BY RunWasHeld
  <1>3. Precedes(u, t)
    <2>1. GroupOf(t)' = GroupOf(t) /\ GroupOf(u)' = GroupOf(u)
      BY <1>1
    <2> QED
      BY <1>1, <2>1 DEF Precedes
  <1>4. u \in tasks_done
    BY <1>2, <1>3, PredecessorOver
  <1>5. pc[c] = "run" => hasrun[u] \in Fine
    BY <1>2, <1>3 DEF FailInv
  <1> QED
    BY <1>4, <1>5, PredecessorFine

\* Without -k, no task is run when one that precedes it has failed, unless two
\* classes each ask to precede the other.
THEOREM FailureTheorem ==
  ASSUME Consistent
  PROVE  Spec => []FailureStops
  <1>1. Init => FailInv
    BY DEF Init, FailInv
  <1>2. PlacesInv /\ OrderInv /\ UnrunInv /\ FlagsInv /\ GoodInv /\ FailInv /\ [Next]_vars => FailInv'
    BY FailNext
  <1>3. FailInv => FailureStops
    <2> SUFFICES ASSUME FailInv, NEW t \in Grouped, Running(t), ~project.keep,
                        project.algotype # "MAXPARALLEL", NEW u \in Grouped, Precedes(u, t)
                 PROVE  hasrun[u] \in {"SUCCESS", "SKIPPED"}
      BY DEF FailureStops
    <2>1. PICK c \in Consumers : pc[c] = "run" /\ tsk[c] = t
      BY DEF Running
    <2> QED
      BY <2>1 DEF FailInv, Fine
  <1> QED
    BY <1>1, <1>2, <1>3, PlacesTheorem, OrderAlways, UnrunAlways, FlagsAlways, GoodAlways, PTL DEF Spec

\* A task is run after all the tasks that precede it were tried, and after those
\* it was made to run_after, unless two classes each ask to precede the other.
THEOREM OrderTheorem ==
  ASSUME Consistent
  PROVE  Spec => []OrderRespected
  <1>1. PlacesInv /\ OrderInv /\ UnrunInv /\ WaitInv => OrderRespected
    <2> SUFFICES ASSUME PlacesInv, OrderInv, UnrunInv, WaitInv, NEW t \in Grouped, Running(t)
                 PROVE  /\ \A u \in Grouped : Precedes(u, t) => u \in tasks_done \/ hasrun[u] # "NOT_RUN"
                        /\ \A u \in project.after[t] : hasrun[u] # "NOT_RUN"
      BY DEF OrderRespected
    <2>1. t \in Tasks /\ t \in Seen /\ \A u \in run_after[t] : hasrun[u] # "NOT_RUN"
      BY RunningTask
    <2>2. \A u \in Grouped : Precedes(u, t) => u \in tasks_done \/ hasrun[u] # "NOT_RUN"
      BY <2>1, PredecessorOver
    <2>3. \A u \in project.after[t] : hasrun[u] # "NOT_RUN"
      BY <2>1 DEF WaitInv
    <2> QED
      BY <2>2, <2>3
  <1> QED
    BY <1>1, PlacesTheorem, OrderAlways, UnrunAlways, WaitAlways, PTL



-----------------------------------------------------------------------------
(* ----- meguro's own build ----- *)

MeguroBuild == project = MeguroProject("NORMAL", FALSE)
Headers == {Nspr, SpiderMonkey, TokyoCabinet, VersionHeader}

\* The substitution is in the first set, for nothing orders it; a source in none
\* that Tokyo Cabinet's class has yet to be in.
HeadersInv ==
  MeguroBuild =>
    /\ \A q \in order : q[2] # Subst
    /\ prepared /\ Subst \in ToSet(keys) => project.cstr[TokyoCabinet] \in ToSet(keys)
    /\ Sources \cap Seen # {} => VersionHeader \in tasks_done
    /\ \A c \in Consumers : pc[c] = "run" /\ tsk[c] \in Sources =>
         \A u \in Headers : hasrun[u] \in Fine

LEMMA MeguroFacts ==
  ASSUME MeguroBuild
  PROVE  /\ project.cstr = MeguroClasses /\ project.algotype = "NORMAL" /\ ~project.keep
         /\ Len(project.groups) = 1 /\ ToSet(project.groups[1]) = MeguroTaskSet
         /\ Grouped = MeguroTaskSet /\ \A t \in Grouped : GroupOf(t) = 1
  <1>1. /\ project.cstr = MeguroClasses /\ project.algotype = "NORMAL" /\ ~project.keep
        /\ project.groups = <<[t \in MeguroTaskSet |-> t]>>
    BY DEF MeguroBuild, MeguroProject
  <1>2. Len(project.groups) = 1 /\ project.groups[1] = [t \in MeguroTaskSet |-> t]
    BY <1>1
  <1>3. ToSet(project.groups[1]) = MeguroTaskSet
    BY <1>2 DEF ToSet
  <1>4. Grouped = MeguroTaskSet
    BY <1>2, <1>3 DEF Grouped
  <1>5. \A t \in Grouped : GroupOf(t) = 1
    BY <1>2, <1>3, <1>4 DEF GroupOf
  <1> QED
    BY <1>1, <1>2, <1>3, <1>4, <1>5

LEMMA FirstGroup ==
  ASSUME MeguroBuild, GroupInv, group <= Len(project.groups)
  PROVE  group = 1
  <1>1. Len(project.groups) = 1
    BY MeguroFacts
  <1>2. PICK n : n = Len(project.groups)
    OBVIOUS
  <1>3. group \in 1..(n + 1) /\ group <= n
    BY <1>2 DEF GroupInv
  <1> QED
    BY <1>1, <1>2, <1>3

LEMMA MeguroOrder ==
  /\ Compare(MeguroClasses[Nspr], MeguroClasses[SpiderMonkey]) > 0
  /\ \A t \in Sources : Compare(MeguroClasses[SpiderMonkey], MeguroClasses[t]) > 0
  /\ \A t \in Sources : Compare(MeguroClasses[TokyoCabinet], MeguroClasses[t]) > 0
  /\ MeguroClasses[VersionHeader] = Subst
  /\ \A t \in MeguroTaskSet : Compare(MeguroClasses[t], Subst) = 0 /\ Compare(Subst, MeguroClasses[t]) = 0
  <1>1. Compare(MeguroClasses[Nspr], MeguroClasses[SpiderMonkey]) > 0
    BY DEF Compare, CompareExts, ComparePartial, MeguroClasses, Rule, Class, Nspr, SpiderMonkey
  <1>2. \A t \in Sources : MeguroClasses[t] = Cxx
    BY DEF MeguroClasses, Sources
  <1>3. Compare(MeguroClasses[SpiderMonkey], Cxx) > 0
    BY DEF Compare, CompareExts, ComparePartial, MeguroClasses, Rule, Class, SpiderMonkey, Cxx
  <1>4. Compare(MeguroClasses[TokyoCabinet], Cxx) > 0
    BY DEF Compare, CompareExts, ComparePartial, MeguroClasses, Rule, Class, TokyoCabinet, Cxx
  <1>5. MeguroClasses[VersionHeader] = Subst
    BY DEF MeguroClasses, VersionHeader
  <1>6. ASSUME NEW t \in MeguroTaskSet
        PROVE  Compare(MeguroClasses[t], Subst) = 0 /\ Compare(Subst, MeguroClasses[t]) = 0
    <2>1. PICK c : c = MeguroClasses[t]
      OBVIOUS
    <2>2. c.after = {} /\ "copy" \notin c.before
      <3>1. t \in {1, 2, 3, 4, 5, 6, 7}
        BY DEF MeguroTaskSet
      <3>2. c \in {Rule("nspr", {"spidermonkey"}), Rule("spidermonkey", {"cxx"}),
                  Rule("tokyocabinet", {"cxx"}), Subst, Cxx, CxxLink}
        BY <2>1, <3>1 DEF MeguroClasses
      <3>3. /\ Subst.after = {} /\ Subst.before = {} /\ Cxx.after = {} /\ Cxx.before = {}
            /\ CxxLink.after = {} /\ CxxLink.before = {}
        BY DEF Class, Subst, Cxx, CxxLink
      <3>4. \A n, b : Rule(n, b).after = {} /\ Rule(n, b).before = b
        BY DEF Rule, Class
      <3> QED
        BY <3>2, <3>3, <3>4
    <2>3. Subst.name = "copy" /\ Subst.before = {} /\ Subst.after = {} /\ Subst.ext_in = {} /\ Subst.ext_out = {}
      BY DEF Subst, Class
    <2> QED
      BY <2>1, <2>2, <2>3 DEF Compare, CompareExts, ComparePartial
  <1> QED
    BY <1>1, <1>2, <1>3, <1>4, <1>5, <1>6

\* Nothing is ordered before the substitution.
LEMMA SubstFree ==
  ASSUME PlacesInv, HeadersInv, [Next]_vars, MeguroBuild
  PROVE  /\ \A q \in order' : q[2] # Subst
         /\ prepared' /\ Subst \in ToSet(keys') => project.cstr[TokyoCabinet] \in ToSet(keys')
  <1>0. project \in Projects /\ GroupInv
    BY DEF PlacesInv, GroupInv
  <1>1. CASE PrepareGroup
    <2>0. Prepare /\ group <= Len(project.groups)
      BY <1>1 DEF PrepareGroup
    <2>1. Building /\ Prepare /\ group = 1
      <3>1. group = 1 /\ Len(project.groups) = 1
        BY <1>0, <2>0, FirstGroup, MeguroFacts
      <3> QED
        BY <1>0, <2>0, <3>1 DEF Building, Groups
    <2>2. keys' \in Seq(Classes) /\ ToSet(keys') = Classes
      BY <2>1, GroupList, SetListed DEF Prepare
    <2>3. Classes = {MeguroClasses[t] : t \in MeguroTaskSet}
      BY <2>1, MeguroFacts DEF Classes, GroupTasks
    <2>4. project.cstr[TokyoCabinet] \in ToSet(keys')
      BY <2>2, <2>3, MeguroFacts DEF TokyoCabinet, MeguroTaskSet
    <2>5. PICK k : k = keys'
      OBVIOUS
    <2>6. order' = ExtractConstraints(k)
      BY <2>1, <2>5 DEF Prepare
    <2>7. \A i \in 1..Len(k) : Compare(k[i], Subst) = 0 /\ Compare(Subst, k[i]) = 0
      <3>1. \A i \in 1..Len(k) : k[i] \in Classes
        BY <2>2, <2>5
      <3> QED
        BY <2>3, <3>1, MeguroOrder
    <2>8. ASSUME NEW q \in ExtractConstraints(k) PROVE q[2] # Subst
      <3>1. PICK i \in 1..Len(k), j \in 1..Len(k) :
               \/ q = <<k[i], k[j]>> /\ Compare(k[i], k[j]) > 0
               \/ q = <<k[j], k[i]>> /\ Compare(k[i], k[j]) < 0
        BY <2>8 DEF ExtractConstraints
      <3>2. CASE q = <<k[i], k[j]>> /\ Compare(k[i], k[j]) > 0
        BY <2>7, <3>2
      <3>3. CASE q = <<k[j], k[i]>> /\ Compare(k[i], k[j]) < 0
        BY <2>7, <3>3
      <3> QED
        BY <3>1, <3>2, <3>3
    <2> QED
      BY <2>4, <2>6, <2>8
  <1>2. CASE NextSet
    <2>1. HandOut /\ prepared /\ temp_tasks = <<>>
      BY <1>0, <1>2, MeguroFacts DEF NextSet, GroupInv
    <2>2. keys' = Remainder(keys, order) /\ order' = RemainingOrder(keys, order)
      BY <2>1, MeguroFacts DEF HandOut, DropUnconnected
    <2>3. ToSet(keys') = {c \in ToSet(keys) : Connected(order, c)}
      BY <1>0, <2>2, RemainderList DEF GroupInv
    <2>4. Subst \notin ToSet(keys')
      BY <2>3 DEF HeadersInv, Connected
    <2> QED
      BY <2>2, <2>4 DEF HeadersInv, RemainingOrder
  <1>3. CASE NextGroup
    BY <1>3 DEF NextGroup
  <1>4. CASE ~PrepareGroup /\ ~NextSet /\ ~NextGroup
    BY <1>4, GroupKept DEF groupVars, HeadersInv
  <1> QED
    BY <1>1, <1>2, <1>3, <1>4

\* What a source needs is over when the source is handed out.
LEMMA HeadersOver ==
  ASSUME PlacesInv, OrderInv, HeadersInv, MeguroBuild, NEW t \in Sources, t \in Seen
  PROVE  Headers \subseteq tasks_done
  <1>1. t \in Grouped /\ {Nspr, SpiderMonkey, TokyoCabinet} \subseteq Grouped
    BY MeguroFacts DEF Sources, MeguroTaskSet, Nspr, SpiderMonkey, TokyoCabinet
  <1>2. ASSUME NEW x \in Grouped, NEW u \in Grouped, x \in Seen,
               Compare(MeguroClasses[u], MeguroClasses[x]) > 0
        PROVE  u \in tasks_done
    BY <1>2, MeguroFacts DEF OrderInv
  <1>3. SpiderMonkey \in tasks_done /\ TokyoCabinet \in tasks_done
    BY <1>1, <1>2, MeguroOrder
  <1>4. Nspr \in tasks_done
    BY <1>1, <1>2, <1>3, MeguroOrder DEF Seen
  <1>5. VersionHeader \in tasks_done
    BY DEF HeadersInv
  <1> QED
    BY <1>3, <1>4, <1>5 DEF Headers

LEMMA HeadersNext ==
  ASSUME PlacesInv, PlacesInv', OrderInv, UnrunInv, FlagsInv, GoodInv, HeadersInv, [Next]_vars
  PROVE  HeadersInv'
  <1>1. project' = project
    BY ProjectKept
  <1> SUFFICES ASSUME MeguroBuild PROVE HeadersInv'
    BY <1>1 DEF HeadersInv, MeguroBuild
  <1>2. Sources \subseteq Grouped /\ VersionHeader \in Grouped
    BY MeguroFacts DEF Sources, MeguroTaskSet, VersionHeader
  <1>3. ASSUME NEW t \in Sources, t \in Seen' PROVE VersionHeader \in tasks_done'
    <2>1. CASE t \in Seen
      BY <2>1, DoneGrows DEF HeadersInv
    <2>2. CASE t \notin Seen
      <3>1. NextSet /\ t \in NewOnes
        BY <1>2, <1>3, <2>2, SeenAnew
      <3>2. prepared /\ ~inner /\ temp_tasks = <<>> /\ group = 1 /\ main = "nextset"
        <4>1. main = "nextset" /\ group <= Len(project.groups) /\ prepared
          BY <3>1 DEF NextSet
        <4>3. ~inner /\ temp_tasks = <<>>
          BY MeguroFacts DEF PlacesInv, GroupInv
        <4>4. group = 1
          BY <4>1, FirstGroup DEF PlacesInv
        <4> QED
          BY <4>1, <4>3, <4>4
      <3>3. project.cstr[t] \in ToSet(keys) /\ ~Connected(order, project.cstr[t])
        BY <3>1, <3>2, MeguroFacts DEF NewOnes, Fresh, Unconnected
      <3>4. project.cstr[TokyoCabinet] \notin ToSet(keys)
        <4>1. Compare(project.cstr[TokyoCabinet], project.cstr[t]) > 0
          BY MeguroFacts, MeguroOrder
        <4>2. <<project.cstr[TokyoCabinet], project.cstr[t]>> \notin order
          BY <3>3 DEF Connected
        <4> QED
          BY <3>2, <3>3, <4>1, <4>2 DEF OrderInv
      <3>5. HandedOut(VersionHeader)
        BY <1>2, <3>2, <3>4, MeguroFacts, MeguroOrder DEF HandedOut, HeadersInv
      <3> QED
        BY <1>2, <3>2, <3>5, HandedOutDone, EmptyList, DoneGrows
    <2> QED
      BY <2>1, <2>2
  <1>4. ASSUME NEW c \in Consumers, pc'[c] = "run", tsk'[c] \in Sources, NEW u \in Headers
        PROVE  hasrun'[u] \in Fine
    <2>1. tsk[c] = tsk'[c] /\ tsk[c] \in Seen
      BY <1>4, RunWasHeld
    <2>2. u \in tasks_done
      BY <1>4, <2>1, HeadersOver
    <2>3. pc[c] = "run" => hasrun[u] \in Fine
      BY <1>4, <2>1 DEF HeadersInv
    <2> QED
      BY <1>4, <2>2, <2>3, MeguroFacts, PredecessorFine
  <1> QED
    BY <1>1, <1>3, <1>4, SubstFree DEF HeadersInv

\* No source of meguro is compiled before the header with the version is written
\* and the libraries it includes are made, although nothing orders the header.
THEOREM HeadersTheorem ==
  ASSUME Consistent, OnlyMeguro
  PROVE  Spec => []HeadersFirst
  <1>1. Init => HeadersInv
    <2> SUFFICES ASSUME Init PROVE HeadersInv
      OBVIOUS
    <2>1. Seen = {} /\ order = {} /\ ~prepared /\ \A c \in Consumers : pc[c] # "run"
      BY EmptyList DEF Init, Seen, Listing, InHands, InFlight, Holding
    <2> QED
      BY <2>1 DEF HeadersInv
  <1>2. PlacesInv /\ PlacesInv' /\ OrderInv /\ UnrunInv /\ FlagsInv /\ GoodInv /\ HeadersInv
          /\ [Next]_vars => HeadersInv'
    BY HeadersNext
  <1>3. PlacesInv /\ HeadersInv => HeadersFirst
    <2> SUFFICES ASSUME PlacesInv, HeadersInv, project.cstr = MeguroClasses, NEW t \in Sources,
                        Running(t), NEW u \in Headers
                 PROVE  hasrun[u] \in Fine
      BY DEF HeadersFirst, Headers, Fine
    <2>1. MeguroBuild
      BY DEF PlacesInv, GroupInv, OnlyMeguro, MeguroBuild
    <2>2. PICK c \in Consumers : pc[c] = "run" /\ tsk[c] = t
      BY DEF Running
    <2> QED
      BY <2>1, <2>2 DEF HeadersInv
  <1> QED
    BY <1>1, <1>2, <1>3, PlacesTheorem, OrderAlways, UnrunAlways, FlagsAlways, GoodAlways, PTL DEF Spec

\* Nothing runs before what it needs, whichever way that was said, where no two
\* classes each ask to precede the other.
THEOREM PredecessorsTheorem ==
  ASSUME Consistent, OnlyMeguro
  PROVE  Spec => []PredecessorsFirst
  <1>1. OrderRespected /\ WritersFirst /\ HeadersFirst => PredecessorsFirst
    BY DEF PredecessorsFirst
  <1> QED
    BY <1>1, OrderTheorem, WritersTheorem, HeadersTheorem, PTL

=============================================================================
