-------------------------- MODULE ReducePhase_proofs --------------------------
(***************************************************************************)
(* Proofs about ReducePhase, for any number of workers, any shadow key map *)
(* and map output and any reduce function: every reduce call gets its      *)
(* whole group while the output is open, the output holds at exit what     *)
(* OutputAtExit says, and the queue is used as a channel.                  *)
(***************************************************************************)
EXTENDS ReducePhase, FiniteSetTheorems, FunctionTheorems, SequenceTheorems, TLAPS

\* The shadow key map is a list, and each reduce call saves a list of keys.
ProperRoots ==
  /\ \E S : Roots \in Seq(S)
  /\ \A root \in ToSet(Roots) : \E S : SavesOf[root.key] \in Seq(S)

\* Before the output is open, and where a worker has no pair.
Early == {"create", "open_map", "open_out"}
Waiting == {"unborn", "failed", "start", "idle", "ended"}

\* The pairs of this run.
Paired(root) == PairOf(root, mapOpen, env.cap_amount)
Current == {Paired(root) : root \in ToSet(Roots)}

ShapeInv ==
  /\ pc \in [Workers -> WorkerPC]
  /\ job = [w \in Workers |-> job[w]]
  /\ at \in [Workers -> Nat \ {0}]
  /\ elem \in Nat \ {0}
  /\ queue \in Seq(Current)
  /\ \A w \in Workers : pc[w] = "reduce" => job[w] \in Current

\* What the order of the main thread's steps leaves true.
OrderInv ==
  /\ main \in Early =>
       /\ queue = <<>> /\ elem = 1
       /\ \A w \in Workers : pc[w] \in Waiting
       /\ out = IF Existing = NoFile THEN EmptyOut ELSE Existing
  /\ main \notin Early \cup {"exited"} => outOpen
  /\ main \in {"end", "exited"} => \A w \in Workers : pc[w] \in {"ended", "failed"}
  /\ qdone => main \in {"join", "end", "exited"} /\ elem > Len(Roots)
  /\ \A w \in Workers : pc[w] = "ended" => queue = <<>> /\ qdone

\* A save under the key succeeded in this run, or failed.
Written(key) == key \in lost \/ (key \in DOMAIN out /\ out[key] \in ListsFor(key))

Reduced(root) ==
  \A n \in DOMAIN SavesOf[root.key] : Written(SavesOf[root.key][n])

\* A root that was enqueued is on its way, or reduced.
OnItsWay(root) ==
  \/ Paired(root) \in ToSet(queue)
  \/ \E w \in Workers : pc[w] = "reduce" /\ job[w] = Paired(root)
  \/ Reduced(root)

\* What a worker has saved of its pair so far.
SavedSoFar(w) ==
  pc[w] = "reduce" =>
    \A n \in DOMAIN SavesOf[job[w].key] :
      n < at[w] => Written(SavesOf[job[w].key][n])

CarriedInv ==
  /\ \A i \in DOMAIN Roots : i < elem => OnItsWay(Roots[i])
  /\ \A w \in Workers : SavedSoFar(w)

\* The output holds what reduce calls saved and what was there before.
OutInv ==
  main \notin Early =>
    /\ DOMAIN out \ SavedKeys = DOMAIN Kept \ SavedKeys
    /\ \A key \in DOMAIN out :
         \/ key \in SavedKeys /\ out[key] \in ListsFor(key)
         \/ key \in DOMAIN Kept /\ out[key] = Kept[key]

ThreadInv == ShapeInv /\ OrderInv

PhaseInv == ThreadInv /\ CarriedInv /\ OutInv

------------------------------------------------------------------------------
(* Sequences as sets                                                       *)

LEMMA ToSetAppend ==
  ASSUME NEW S, NEW q \in Seq(S), NEW e \in S
  PROVE  ToSet(Append(q, e)) = ToSet(q) \cup {e}
  <1>1. DOMAIN Append(q, e) = DOMAIN q \cup {Len(q) + 1}
    OBVIOUS
  <1>2. \A i \in DOMAIN q : Append(q, e)[i] = q[i]
    OBVIOUS
  <1>3. Append(q, e)[Len(q) + 1] = e
    OBVIOUS
  <1> QED
    BY <1>1, <1>2, <1>3 DEF ToSet

LEMMA ToSetHeadTail ==
  ASSUME NEW S, NEW q \in Seq(S), q # <<>>
  PROVE  /\ Head(q) \in S
         /\ Tail(q) \in Seq(S)
         /\ ToSet(q) \subseteq {Head(q)} \cup ToSet(Tail(q))
  <1>1. Head(q) \in S /\ Tail(q) \in Seq(S)
    OBVIOUS
  <1>2. ASSUME NEW i \in DOMAIN q PROVE q[i] = Head(q) \/ q[i] \in ToSet(Tail(q))
    <2>1. CASE i = 1
      BY <2>1
    <2>2. CASE i # 1
      <3>1. i - 1 \in DOMAIN Tail(q) /\ Tail(q)[i - 1] = q[i]
        BY <2>2
      <3> QED
        BY <3>1 DEF ToSet
    <2> QED
      BY <2>1, <2>2
  <1> QED
    BY <1>1, <1>2 DEF ToSet

------------------------------------------------------------------------------
\* The pairs of a run do not change once the map output is open.
LEMMA SamePairs ==
  ASSUME UNCHANGED <<env, mapOpen>>
  PROVE  /\ \A root : Paired(root)' = Paired(root)
         /\ Current' = Current
         /\ \A key : ListsFor(key)' = ListsFor(key)
  <1>1. \A root : Paired(root)' = Paired(root)
    BY DEF Paired
  <1>2. Current' = Current
    BY <1>1 DEF Current
  <1>3. ASSUME NEW key PROVE ListsFor(key)' = ListsFor(key)
    BY <1>1 DEF ListsFor, Paired
  <1> QED
    BY <1>1, <1>2, <1>3

\* A worker that takes no pair moves on; its job stays or is dropped.
LEMMA WorkerShape ==
  ASSUME ShapeInv, NEW w \in Workers, NEW to \in Waiting,
         pc' = [pc EXCEPT ![w] = to], UNCHANGED <<env, mapOpen, elem, queue, at>>,
         \E p \in {job[w], NoPair} : job' = [job EXCEPT ![w] = p]
  PROVE  ShapeInv'
  <1>1. pc' \in [Workers -> WorkerPC] /\ pc'[w] # "reduce"
    BY DEF ShapeInv, WorkerPC, Waiting
  <1>2. job' = [v \in Workers |-> job'[v]]
    BY DEF ShapeInv
  <1>3. Current' = Current
    BY SamePairs
  <1>4. ASSUME NEW v \in Workers, pc'[v] = "reduce" PROVE job'[v] \in Current
    BY <1>1, <1>4 DEF ShapeInv
  <1> QED
    BY <1>1, <1>2, <1>3, <1>4 DEF ShapeInv

\* The main thread's steps that leave the queue and the workers alone.
LEMMA MainShape ==
  ASSUME ShapeInv, UNCHANGED <<env, mapOpen, queue, workerVars>>,
         elem' \in Nat \ {0}
  PROVE  ShapeInv'
  BY SamePairs DEF ShapeInv, workerVars

LEMMA ShapeStep ==
  ASSUME ProperRoots, ShapeInv, OrderInv, [Next]_vars
  PROVE  ShapeInv'
  <1> USE DEF mainVars, queueVars, workerVars, outVars
  <1>1. CASE UNCHANGED vars
    BY <1>1, MainShape DEF vars, ShapeInv
  <1>2. CASE MainThread
    <2>1. ASSUME NEW w \in Workers, CreateThread(w) PROVE ShapeInv'
      <3>1. PICK born \in {"start", "failed"} : pc' = [pc EXCEPT ![w] = born]
        BY <2>1 DEF CreateThread
      <3>2. job' = [job EXCEPT ![w] = job[w]]
        BY <2>1 DEF CreateThread, ShapeInv
      <3> QED
        BY <1>2, <2>1, <3>1, <3>2, WorkerShape DEF MainThread, CreateThread, Waiting
    <2>2. CASE OpenMapOut
      <3>1. queue' = <<>> /\ \A w \in Workers : pc'[w] # "reduce"
        BY <2>2 DEF OpenMapOut, OrderInv, Early, Waiting
      <3> QED
        BY <2>2, <3>1 DEF OpenMapOut, ShapeInv
    <2>3. CASE EnqueuePair
      <3>1. Roots[elem] \in ToSet(Roots)
        BY <2>3 DEF EnqueuePair, ProperRoots, ShapeInv, ToSet
      <3>2. Paired(Roots[elem]) \in Current
        BY <3>1 DEF Current
      <3>3. queue' \in Seq(Current) /\ elem' \in Nat \ {0}
        BY <2>3, <3>2 DEF EnqueuePair, ShapeInv, Paired
      <3> QED
        BY <1>2, <2>3, <3>3, SamePairs DEF MainThread, EnqueuePair, ShapeInv
    <2>4. CASE ThreadsCreated \/ OpenReducerOut \/ OpenReducerOutFails
                 \/ CloseQueue \/ JoinWorkers
      BY <1>2, <2>4, MainShape DEF MainThread, ThreadsCreated, OpenReducerOut,
        OpenReducerOutFails, CloseQueue, JoinWorkers, ShapeInv
    <2>5. CASE JoinGarbage \/ CloseReducerOut \/ CloseReducerOutFails
      BY <1>2, <2>5, MainShape DEF MainThread, JoinGarbage, CloseReducerOut,
        CloseReducerOutFails, ShapeInv
    <2> QED
      BY <1>2, <2>1, <2>2, <2>3, <2>4, <2>5 DEF MainThread
  <1>3. ASSUME NEW w \in Workers, Worker(w) PROVE ShapeInv'
    <2>1. UNCHANGED <<env, mapOpen, elem>>
      BY <1>3 DEF Worker, Start, StartFails, TakePair, EndThread, RefuseString,
        ReduceReturns, Save, SaveFails
    <2>2. job = [job EXCEPT ![w] = job[w]]
      BY DEF ShapeInv
    <2>3. CASE Start(w) \/ EndThread(w)
      BY <2>1, <2>2, <2>3, WorkerShape DEF Start, EndThread, Goto, Waiting
    <2>4. CASE ReduceReturns(w)
      BY <2>1, <2>4, WorkerShape DEF ReduceReturns, Goto, Waiting
    <2>5. CASE StartFails(w) \/ RefuseString(w)
      BY <2>1, <2>5, MainShape DEF StartFails, RefuseString, ShapeInv
    <2>6. CASE TakePair(w)
      <3>1. Head(queue) \in Current /\ Tail(queue) \in Seq(Current)
        BY <2>6, ToSetHeadTail DEF TakePair, ShapeInv
      <3>2. pc' \in [Workers -> WorkerPC] /\ at' \in [Workers -> Nat \ {0}]
        BY <2>6 DEF TakePair, Goto, ShapeInv, WorkerPC
      <3>3. job' = [v \in Workers |-> job'[v]]
              /\ \A v \in Workers : pc'[v] = "reduce" => job'[v] \in Current
        BY <2>6, <3>1 DEF TakePair, Goto, ShapeInv
      <3> QED
        BY <2>1, <2>6, <3>1, <3>2, <3>3, SamePairs DEF TakePair, ShapeInv
    <2>7. ASSUME NEW key, Save(w, key) \/ SaveFails(w, key) PROVE ShapeInv'
      <3>1. at' \in [Workers -> Nat \ {0}]
        BY <2>7 DEF Save, SaveFails, SavesNext, ShapeInv
      <3> QED
        BY <2>1, <2>7, <3>1, SamePairs DEF Save, SaveFails, ShapeInv
    <2> QED
      BY <1>3, <2>3, <2>4, <2>5, <2>6, <2>7 DEF Worker
  <1> QED
    BY <1>1, <1>2, <1>3 DEF Next, Terminated

\* The output is opened before the first pair is enqueued and closed after the
\* last worker ended; a worker ends when the closed queue is empty.
LEMMA OrderStep ==
  ASSUME ProperRoots, ShapeInv, OrderInv, [Next]_vars
  PROVE  OrderInv'
  <1> USE DEF mainVars, queueVars, workerVars, outVars, Early, Waiting
  <1>1. pc \in [Workers -> WorkerPC] /\ elem \in Nat \ {0}
    BY DEF ShapeInv
  <1>2. CASE UNCHANGED vars
    BY <1>2 DEF vars, OrderInv
  <1>3. CASE MainThread
    <2>1. CASE \E w \in Workers : CreateThread(w)
      BY <1>1, <2>1 DEF CreateThread, OrderInv
    <2>2. CASE ThreadsCreated \/ OpenMapOut
      <3>1. main \in Early /\ main' \in Early
              /\ UNCHANGED <<queue, qdone, elem, pc, out>>
        BY <2>2 DEF ThreadsCreated, OpenMapOut
      <3> QED
        BY <3>1 DEF OrderInv
    <2>3. CASE OpenReducerOut
      <3>1. ~qdone /\ \A w \in Workers : pc[w] # "ended"
        BY <2>3 DEF OpenReducerOut, OrderInv
      <3>2. main' = "walk" /\ outOpen' /\ qdone' = qdone /\ pc' = pc
        BY <2>3 DEF OpenReducerOut
      <3> QED
        BY <3>1, <3>2 DEF OrderInv
    <2>9. CASE OpenReducerOutFails
      BY <2>9 DEF OpenReducerOutFails, OrderInv
    <2>4. CASE EnqueuePair
      BY <2>4 DEF EnqueuePair, OrderInv
    <2>5. CASE CloseQueue
      BY <2>5 DEF CloseQueue, OrderInv
    <2>6. CASE JoinWorkers
      BY <2>6 DEF JoinWorkers, OrderInv
    <2>7. CASE JoinGarbage \/ CloseReducerOutFails
      BY <2>7 DEF JoinGarbage, CloseReducerOutFails, OrderInv
    <2>8. CASE CloseReducerOut
      BY <2>8 DEF CloseReducerOut, OrderInv
    <2> QED
      BY <1>3, <2>1, <2>2, <2>3, <2>4, <2>5, <2>6, <2>7, <2>8, <2>9
      DEF MainThread
  <1>4. ASSUME NEW w \in Workers, Worker(w) PROVE OrderInv'
    <2>1. CASE Start(w)
      BY <1>1, <2>1 DEF Start, Goto, OrderInv
    <2>2. CASE StartFails(w) \/ RefuseString(w)
      BY <2>2 DEF StartFails, RefuseString, OrderInv
    <2>3. CASE TakePair(w)
      BY <1>1, <2>3 DEF TakePair, Goto, OrderInv
    <2>4. CASE EndThread(w)
      BY <1>1, <2>4 DEF EndThread, Goto, OrderInv
    <2>5. CASE ReduceReturns(w)
      BY <1>1, <2>5 DEF ReduceReturns, Goto, OrderInv
    <2>6. ASSUME NEW key, Save(w, key) \/ SaveFails(w, key) PROVE OrderInv'
      BY <2>6 DEF Save, SaveFails, SavesNext, OrderInv
    <2> QED
      BY <1>4, <2>1, <2>2, <2>3, <2>4, <2>5, <2>6 DEF Worker
  <1> QED
    BY <1>2, <1>3, <1>4 DEF Next, Terminated

------------------------------------------------------------------------------
\* A key that was written stays written.
LEMMA WrittenStays ==
  ASSUME UNCHANGED <<env, mapOpen>>, NEW key, Written(key),
         \/ UNCHANGED <<out, lost>>
         \/ \E k : out' = out /\ lost' = lost \cup {k}
         \/ \E k, v : /\ out' = Put(out, k, v) /\ lost' = lost
                      /\ v \in ListsFor(k)
  PROVE  Written(key)'
  <1>1. ListsFor(key)' = ListsFor(key)
    BY SamePairs
  <1>2. CASE key \in lost
    BY <1>2 DEF Written
  <1>3. CASE key \in DOMAIN out /\ out[key] \in ListsFor(key)
    <2>1. key \in DOMAIN out' /\ out'[key] \in ListsFor(key)
      BY <1>3 DEF Put
    <2> QED
      BY <1>1, <2>1 DEF Written
  <1> QED
    BY <1>2, <1>3 DEF Written

\* A step that writes nothing keeps what is on its way, if the pairs of the
\* workers and of the queue are where they were.
LEMMA StillCarried ==
  ASSUME CarriedInv, UNCHANGED <<env, mapOpen, elem, out, lost, queue>>,
         \A v \in Workers : pc[v] = "reduce" =>
            pc'[v] = "reduce" /\ UNCHANGED <<job[v], at[v]>>,
         \A v \in Workers : pc'[v] = "reduce" => pc[v] = "reduce"
  PROVE  CarriedInv'
  <1>1. \A key : Written(key) => Written(key)'
    BY WrittenStays
  <1>2. ASSUME NEW root, OnItsWay(root) PROVE OnItsWay(root)'
    BY <1>1, <1>2, SamePairs DEF OnItsWay, Reduced, Paired
  <1>3. ASSUME NEW v \in Workers PROVE SavedSoFar(v)'
    BY <1>1 DEF CarriedInv, SavedSoFar
  <1> QED
    BY <1>2, <1>3 DEF CarriedInv

LEMMA SaveWrites ==
  ASSUME ProperRoots, ShapeInv, NEW w \in Workers, NEW key \in SavedKeys,
         UNCHANGED env, Save(w, key) \/ SaveFails(w, key)
  PROVE  /\ UNCHANGED <<mapOpen, elem, queue, pc, job>>
         /\ pc[w] = "reduce" /\ at' = [at EXCEPT ![w] = @ + 1]
         /\ key = SavesOf[job[w].key][at[w]]
         /\ job[w].values \in ListsFor(key)
         /\ \A k : Written(k) => Written(k)'
         /\ Written(key)'
  <1> USE DEF mainVars, queueVars
  <1>1. /\ UNCHANGED <<mapOpen, elem, queue, pc, job>>
        /\ pc[w] = "reduce" /\ at' = [at EXCEPT ![w] = @ + 1]
        /\ at[w] <= Len(SavesOf[job[w].key])
        /\ key = SavesOf[job[w].key][at[w]]
    BY DEF Save, SaveFails, SavesNext
  <1>2. PICK root \in ToSet(Roots) : job[w] = Paired(root)
    BY <1>1 DEF ShapeInv, Current
  <1>3. job[w].key = root.key
    BY <1>2 DEF Paired, PairOf
  <1>4. at[w] \in DOMAIN SavesOf[root.key]
    BY <1>1, <1>3 DEF ProperRoots, ShapeInv
  <1>5. key \in ToSet(SavesOf[root.key])
    BY <1>1, <1>3, <1>4 DEF ToSet
  <1>6. job[w].values \in ListsFor(key)
    BY <1>2, <1>5 DEF ListsFor, Paired
  <1>7. \A k : Written(k) => Written(k)'
    BY <1>1, <1>6, WrittenStays DEF Save, SaveFails
  <1>8. Written(key)'
    <2>1. CASE Save(w, key)
      <3>1. key \in DOMAIN out' /\ out'[key] = job[w].values
        BY <2>1 DEF Save, Put
      <3> QED
        BY <1>1, <1>6, <3>1, SamePairs DEF Written
    <2>2. CASE SaveFails(w, key)
      BY <2>2 DEF SaveFails, Written
    <2> QED
      BY <2>1, <2>2
  <1> QED
    BY <1>1, <1>6, <1>7, <1>8

\* Every pair goes from the walk to the queue, to a worker, to its saves.
LEMMA CarriedStep ==
  ASSUME ProperRoots, ShapeInv, OrderInv, CarriedInv, [Next]_vars
  PROVE  CarriedInv'
  <1> USE DEF mainVars, queueVars, workerVars, outVars
  <1>1. pc \in [Workers -> WorkerPC] /\ at \in [Workers -> Nat \ {0}]
          /\ elem \in Nat \ {0} /\ job = [v \in Workers |-> job[v]]
    BY DEF ShapeInv
  <1>2. CASE UNCHANGED vars
    BY <1>2, StillCarried DEF vars
  <1>3. CASE MainThread
    <2>1. CASE \E w \in Workers : CreateThread(w)
      BY <1>1, <1>3, <2>1, StillCarried DEF MainThread, CreateThread
    <2>2. CASE OpenMapOut \/ OpenReducerOut
      <3>1. elem' = 1 /\ \A v \in Workers : pc'[v] # "reduce"
        BY <2>2 DEF OpenMapOut, OpenReducerOut, OrderInv, Early, Waiting
      <3>2. \A i \in DOMAIN Roots : i \in Nat \ {0}
        BY DEF ProperRoots
      <3> QED
        BY <3>1, <3>2 DEF CarriedInv, SavedSoFar
    <2>3. CASE EnqueuePair
      <3>1. /\ UNCHANGED <<env, mapOpen, out, lost, pc, job, at>>
            /\ elem' = elem + 1
            /\ queue' = Append(queue, Paired(Roots[elem]))
            /\ elem <= Len(Roots)
        BY <1>3, <2>3 DEF MainThread, EnqueuePair, Paired
      <3>2. elem \in DOMAIN Roots
        BY <1>1, <3>1 DEF ProperRoots
      <3>3. Paired(Roots[elem]) \in Current
        BY <3>2 DEF Current, ToSet
      <3>4. ToSet(queue') = ToSet(queue) \cup {Paired(Roots[elem])}
        BY <3>1, <3>3, ToSetAppend DEF ShapeInv
      <3>5. \A key : Written(key) => Written(key)'
        BY <3>1, WrittenStays
      <3>6. \A root : Paired(root)' = Paired(root)
        BY <3>1 DEF Paired
      <3>7. ASSUME NEW root, OnItsWay(root) \/ root = Roots[elem] PROVE OnItsWay(root)'
        BY <3>1, <3>4, <3>5, <3>6, <3>7 DEF OnItsWay, Reduced
      <3>8. \A i \in DOMAIN Roots : i < elem + 1 => i < elem \/ i = elem
        BY <1>1 DEF ProperRoots
      <3>9. \A v \in Workers : SavedSoFar(v)'
        BY <3>1, <3>5 DEF CarriedInv, SavedSoFar
      <3> QED
        BY <3>1, <3>7, <3>8, <3>9 DEF CarriedInv
    <2>4. CASE ThreadsCreated \/ OpenReducerOutFails \/ CloseQueue \/ JoinWorkers
                 \/ JoinGarbage \/ CloseReducerOut \/ CloseReducerOutFails
      <3>1. UNCHANGED <<env, mapOpen, elem, queue, pc, job, at, out, lost>>
        BY <1>3, <2>4 DEF MainThread, ThreadsCreated, OpenReducerOutFails, CloseQueue,
          JoinWorkers, JoinGarbage, CloseReducerOut, CloseReducerOutFails
      <3> QED
        BY <3>1, StillCarried
    <2> QED
      BY <1>3, <2>1, <2>2, <2>3, <2>4 DEF MainThread
  <1>4. ASSUME NEW w \in Workers, Worker(w) PROVE CarriedInv'
    <2>1. UNCHANGED <<env, mapOpen, elem>>
      BY <1>4 DEF Worker, Start, StartFails, TakePair, EndThread, RefuseString,
        ReduceReturns, Save, SaveFails
    <2>2. CASE Start(w) \/ EndThread(w)
      BY <1>1, <2>1, <2>2, StillCarried DEF Start, EndThread, Goto
    <2>3. CASE StartFails(w) \/ RefuseString(w)
      BY <2>1, <2>3, StillCarried DEF StartFails, RefuseString
    <2>4. CASE TakePair(w)
      <3>1. /\ pc[w] = "idle" /\ pc'[w] = "reduce" /\ job'[w] = Head(queue)
            /\ at'[w] = 1 /\ queue # <<>> /\ queue' = Tail(queue)
            /\ UNCHANGED <<out, lost>>
            /\ \A v \in Workers \ {w} :
                 pc'[v] = pc[v] /\ job'[v] = job[v] /\ at'[v] = at[v]
        BY <1>1, <2>4 DEF TakePair, Goto
      <3>2. ToSet(queue) \subseteq {Head(queue)} \cup ToSet(Tail(queue))
              /\ Head(queue) \in Current
        BY <3>1, ToSetHeadTail DEF ShapeInv
      <3>3. \A key : Written(key) => Written(key)'
        BY <2>1, <3>1, WrittenStays
      <3>4. \A root : Paired(root)' = Paired(root)
        BY <2>1 DEF Paired
      <3>5. ASSUME NEW root, OnItsWay(root) PROVE OnItsWay(root)'
        <4>1. CASE Paired(root) = Head(queue)
          BY <3>1, <3>4, <4>1 DEF OnItsWay
        <4>2. CASE Paired(root) \in ToSet(Tail(queue))
          BY <3>1, <3>4, <4>2 DEF OnItsWay
        <4>3. CASE \E v \in Workers : pc[v] = "reduce" /\ job[v] = Paired(root)
          BY <3>1, <3>4, <4>3 DEF OnItsWay
        <4>4. CASE Reduced(root)
          BY <3>3, <4>4 DEF OnItsWay, Reduced
        <4> QED
          BY <3>2, <3>5, <4>1, <4>2, <4>3, <4>4 DEF OnItsWay
      <3>6. SavedSoFar(w)'
        <4>1. PICK root \in ToSet(Roots) : Head(queue) = Paired(root)
          BY <3>2 DEF Current
        <4>2. \A n \in DOMAIN SavesOf[Head(queue).key] : n \in Nat \ {0}
          BY <4>1 DEF ProperRoots, Paired, PairOf
        <4> QED
          BY <3>1, <4>2 DEF SavedSoFar
      <3>7. ASSUME NEW v \in Workers \ {w} PROVE SavedSoFar(v)'
        BY <3>1, <3>3 DEF CarriedInv, SavedSoFar
      <3> QED
        BY <2>1, <3>5, <3>6, <3>7 DEF CarriedInv
    <2>5. CASE ReduceReturns(w)
      <3>1. /\ pc[w] = "reduce" /\ pc'[w] = "idle"
            /\ at[w] > Len(SavesOf[job[w].key])
            /\ UNCHANGED <<queue, at, out, lost>>
            /\ \A v \in Workers \ {w} : pc'[v] = pc[v] /\ job'[v] = job[v]
        BY <1>1, <2>5 DEF ReduceReturns, Goto
      <3>2. \A key : Written(key) => Written(key)'
        BY <2>1, <3>1, WrittenStays
      <3>3. \A root : Paired(root)' = Paired(root)
        BY <2>1 DEF Paired
      <3>4. ASSUME NEW root \in ToSet(Roots), job[w] = Paired(root) PROVE Reduced(root)
        <4>1. job[w].key = root.key
          BY <3>4 DEF Paired, PairOf
        <4>2. \A n \in DOMAIN SavesOf[root.key] : n < at[w]
          BY <1>1, <3>1, <4>1 DEF ProperRoots
        <4> QED
          BY <3>1, <4>1, <4>2 DEF CarriedInv, SavedSoFar, Reduced
      <3>5. ASSUME NEW root \in ToSet(Roots), OnItsWay(root) PROVE OnItsWay(root)'
        <4>1. CASE Paired(root) \in ToSet(queue)
          BY <3>1, <3>3, <4>1 DEF OnItsWay
        <4>2. CASE Reduced(root)
          BY <3>2, <4>2 DEF OnItsWay, Reduced
        <4>3. ASSUME NEW v \in Workers, v # w, pc[v] = "reduce", job[v] = Paired(root)
              PROVE  OnItsWay(root)'
          BY <3>1, <3>3, <4>3 DEF OnItsWay
        <4> QED
          BY <3>4, <3>5, <4>1, <4>2, <4>3 DEF OnItsWay
      <3>6. \A i \in DOMAIN Roots : Roots[i] \in ToSet(Roots)
        BY DEF ToSet
      <3>7. ASSUME NEW v \in Workers PROVE SavedSoFar(v)'
        BY <3>1, <3>2 DEF CarriedInv, SavedSoFar
      <3> QED
        BY <2>1, <3>5, <3>6, <3>7 DEF CarriedInv
    <2>6. ASSUME NEW key \in SavedKeys, Save(w, key) \/ SaveFails(w, key)
          PROVE  CarriedInv'
      <3>1. /\ UNCHANGED <<mapOpen, elem, queue, pc, job>>
            /\ pc[w] = "reduce" /\ at' = [at EXCEPT ![w] = @ + 1]
            /\ key = SavesOf[job[w].key][at[w]]
            /\ \A k : Written(k) => Written(k)'
            /\ Written(key)'
        BY <2>1, <2>6, SaveWrites
      <3>2. \A root : Paired(root)' = Paired(root)
        BY <2>1 DEF Paired
      <3>3. ASSUME NEW root, OnItsWay(root) PROVE OnItsWay(root)'
        BY <3>1, <3>2, <3>3 DEF OnItsWay, Reduced
      <3>4. ASSUME NEW v \in Workers, v # w PROVE SavedSoFar(v)'
        BY <1>1, <3>1, <3>4 DEF CarriedInv, SavedSoFar
      <3>5. SavedSoFar(w)'
        <4>1. PICK root \in ToSet(Roots) : job[w] = Paired(root)
          BY <3>1 DEF ShapeInv, Current
        <4>2. \A n \in DOMAIN SavesOf[job[w].key] : n \in Nat
          BY <4>1 DEF ProperRoots, Paired, PairOf
        <4>3. at'[w] = at[w] + 1 /\ at[w] \in Nat
          BY <1>1, <3>1
        <4>4. \A n \in DOMAIN SavesOf[job[w].key] : n < at'[w] => n < at[w] \/ n = at[w]
          BY <4>2, <4>3
        <4> QED
          BY <3>1, <4>4 DEF CarriedInv, SavedSoFar
      <3> QED
        BY <2>1, <3>3, <3>4, <3>5 DEF CarriedInv
    <2> QED
      BY <1>4, <2>2, <2>3, <2>4, <2>5, <2>6 DEF Worker
  <1> QED
    BY <1>2, <1>3, <1>4 DEF Next, Terminated

\* Nothing but the opening and the saves touches the output.
LEMMA OutStep ==
  ASSUME ProperRoots, ShapeInv, OrderInv, OutInv, [Next]_vars
  PROVE  OutInv'
  <1> USE DEF mainVars, queueVars, workerVars, outVars
  <1>1. ASSUME UNCHANGED <<env, mapOpen, out>>, main \in Early => main' \in Early
        PROVE  OutInv'
    <2>1. Kept' = Kept /\ \A key : ListsFor(key)' = ListsFor(key)
      BY <1>1, SamePairs DEF Kept
    <2> QED
      BY <1>1, <2>1 DEF OutInv
  <1>2. CASE UNCHANGED vars
    BY <1>1, <1>2 DEF vars
  <1>3. CASE MainThread
    <2>1. CASE (\E w \in Workers : CreateThread(w)) \/ ThreadsCreated
      BY <1>1, <1>3, <2>1 DEF MainThread, CreateThread, ThreadsCreated, Early
    <2>2. CASE OpenMapOut
      BY <2>2 DEF OpenMapOut, OutInv, Early
    <2>3. CASE OpenReducerOut
      <3>1. out' = Kept /\ env' = env
        BY <1>3, <2>3 DEF MainThread, OpenReducerOut, OrderInv, Early, Kept
      <3>2. Kept' = Kept
        BY <3>1 DEF Kept
      <3> QED
        BY <3>1, <3>2 DEF OutInv
    <2>4. CASE OpenReducerOutFails \/ EnqueuePair \/ CloseQueue \/ JoinWorkers
      BY <1>1, <1>3, <2>4 DEF MainThread, OpenReducerOutFails, EnqueuePair,
        CloseQueue, JoinWorkers, Early
    <2>5. CASE JoinGarbage \/ CloseReducerOut \/ CloseReducerOutFails
      BY <1>1, <1>3, <2>5 DEF MainThread, JoinGarbage, CloseReducerOut,
        CloseReducerOutFails, Early
    <2> QED
      BY <1>3, <2>1, <2>2, <2>3, <2>4, <2>5 DEF MainThread
  <1>4. ASSUME NEW w \in Workers, Worker(w) PROVE OutInv'
    <2>1. UNCHANGED <<env, main, mapOpen>>
      BY <1>4 DEF Worker, Start, StartFails, TakePair, EndThread, RefuseString,
        ReduceReturns, Save, SaveFails
    <2>2. CASE Start(w) \/ StartFails(w) \/ TakePair(w) \/ EndThread(w)
                 \/ RefuseString(w) \/ ReduceReturns(w)
      BY <1>1, <2>1, <2>2 DEF Start, StartFails, TakePair, EndThread, RefuseString,
        ReduceReturns
    <2>3. ASSUME NEW key \in SavedKeys, SaveFails(w, key) PROVE OutInv'
      BY <1>1, <2>1, <2>3 DEF SaveFails
    <2>4. ASSUME NEW key \in SavedKeys, Save(w, key) PROVE OutInv'
      <3>1. job[w].values \in ListsFor(key)
        BY <2>1, <2>4, SaveWrites
      <3>2. DOMAIN out' = DOMAIN out \cup {key} /\ out'[key] = job[w].values
              /\ \A k \in DOMAIN out \ {key} : out'[k] = out[k]
        BY <2>4 DEF Save, Put
      <3>3. Kept' = Kept /\ \A k : ListsFor(k)' = ListsFor(k)
        BY <2>1, SamePairs DEF Kept
      <3> QED
        BY <2>1, <3>1, <3>2, <3>3 DEF OutInv
    <2> QED
      BY <1>4, <2>2, <2>3, <2>4 DEF Worker
  <1> QED
    BY <1>2, <1>3, <1>4 DEF Next, Terminated

------------------------------------------------------------------------------
(* The type invariant.                                                     *)

LEMMA RootsInOrder ==
  ASSUME ProperRoots, NEW i \in 1..Len(Roots)
  PROVE  Roots[i] \in ToSet(Roots)
  BY DEF ProperRoots, ToSet

LEMMA TypeStep == ProperRoots /\ TypeOK /\ [Next]_vars => TypeOK'
  <1> SUFFICES ASSUME ProperRoots, TypeOK, [Next]_vars PROVE TypeOK'
    OBVIOUS
  <1> DEFINE Taking == [by : Workers, item : Pairs]
  <1> USE DEF mainVars, queueVars, workerVars, outVars
  <1>0. Len(Roots) \in Nat
    BY DEF ProperRoots
  <1>1. ASSUME UNCHANGED env PROVE Pairs' = Pairs
    BY <1>1 DEF Pairs
  <1>2. CASE UNCHANGED vars
    BY <1>1, <1>2 DEF vars, TypeOK
  <1>3. CASE MainThread
    <2>0. Pairs' = Pairs /\ env' \in Environments
      BY <1>1, <1>3 DEF MainThread, TypeOK
    <2> HIDE DEF Pairs
    <2>1. CASE \E w \in Workers : CreateThread(w)
      <3>1. pc' \in [Workers -> WorkerPC]
        BY <2>1 DEF CreateThread, TypeOK, WorkerPC
      <3> QED
        BY <2>0, <2>1, <3>1 DEF CreateThread, TypeOK
    <2>2. CASE ThreadsCreated
      BY <2>0, <2>2 DEF ThreadsCreated, TypeOK
    <2>3. CASE OpenMapOut
      <3>1. mapOpen' \in BOOLEAN
        BY <2>3 DEF OpenMapOut
      <3> QED
        BY <2>0, <2>3, <3>1 DEF OpenMapOut, TypeOK
    <2>4. CASE OpenReducerOut
      BY <2>0, <2>4 DEF OpenReducerOut, TypeOK
    <2>5. CASE OpenReducerOutFails \/ JoinGarbage \/ CloseReducerOutFails
      BY <2>0, <2>5 DEF OpenReducerOutFails, JoinGarbage, CloseReducerOutFails, Abort, TypeOK
    <2>6. CASE EnqueuePair
      <3> DEFINE pair == PairOf(Roots[elem], mapOpen, env.cap_amount)
      <3>1. elem \in 1..Len(Roots) /\ elem' \in 1..Len(Roots) + 1
        BY <1>0, <2>6 DEF EnqueuePair, TypeOK
      <3>2. pair \in Pairs
        BY <3>1, RootsInOrder DEF Pairs, TypeOK
      <3> HIDE DEF pair
      <3>3. queue' = Append(queue, pair) /\ queue \in Seq(Pairs)
        BY <2>6 DEF EnqueuePair, TypeOK, pair
      <3>4. queue' \in Seq(Pairs)
        BY <3>2, <3>3
      <3> QED
        BY <2>0, <2>6, <3>1, <3>4 DEF EnqueuePair, TypeOK
    <2>7. CASE CloseQueue
      BY <2>0, <2>7 DEF CloseQueue, TypeOK
    <2>8. CASE JoinWorkers
      BY <2>0, <2>8 DEF JoinWorkers, TypeOK
    <2>9. CASE CloseReducerOut
      BY <2>0, <2>9 DEF CloseReducerOut, TypeOK
    <2> QED
      BY <1>3, <2>1, <2>2, <2>3, <2>4, <2>5, <2>6, <2>7, <2>8, <2>9 DEF MainThread
  <1>4. ASSUME NEW w \in Workers, Worker(w) PROVE TypeOK'
    <2>0. Pairs' = Pairs /\ env' \in Environments
      BY <1>1, <1>4 DEF Worker, TypeOK
    <2>1. ASSUME NEW to \in WorkerPC, pc' = [pc EXCEPT ![w] = to] PROVE pc' \in [Workers -> WorkerPC]
      BY <2>1 DEF TypeOK
    <2> HIDE DEF Pairs
    <2>2. CASE Start(w) \/ EndThread(w)
      <3>1. pc' \in [Workers -> WorkerPC]
        BY <2>1, <2>2 DEF Start, EndThread, Goto, WorkerPC
      <3> QED
        BY <2>0, <2>2, <3>1 DEF Start, EndThread, TypeOK
    <2>3. CASE StartFails(w) \/ RefuseString(w)
      BY <2>0, <2>3 DEF StartFails, RefuseString, Abort, TypeOK
    <2>4. CASE TakePair(w)
      <3>1. pc' \in [Workers -> WorkerPC]
        BY <2>1, <2>4 DEF TakePair, Goto, WorkerPC
      <3>2. queue \in Seq(Pairs) /\ taken \in Seq(Taking) /\ queue # <<>>
        BY <2>4 DEF TakePair, TypeOK
      <3>3. Head(queue) \in Pairs /\ Tail(queue) \in Seq(Pairs)
        BY <3>2
      <3>4. [by |-> w, item |-> Head(queue)] \in Taking
        BY <3>3
      <3>5. taken' \in Seq(Taking)
        <4> DEFINE entry == [by |-> w, item |-> Head(queue)]
        <4>1. taken' = Append(taken, entry)
          BY <2>4 DEF TakePair
        <4> HIDE DEF Taking, entry
        <4>2. entry \in Taking /\ taken \in Seq(Taking)
          BY <3>2, <3>4 DEF entry
        <4> QED
          BY <4>1, <4>2
      <3>6. job' \in [Workers -> Pairs \cup {NoPair}] /\ at' \in [Workers -> Nat \ {0}]
        BY <2>4, <3>3 DEF TakePair, TypeOK
      <3>7. taken' \in Seq([by : Workers, item : Pairs'])
        BY <2>0, <3>5
      <3> QED
        BY <2>0, <2>4, <3>1, <3>3, <3>6, <3>7 DEF TakePair, TypeOK
    <2>5. CASE ReduceReturns(w)
      <3>1. pc' \in [Workers -> WorkerPC]
        BY <2>1, <2>5 DEF ReduceReturns, Goto, WorkerPC
      <3>2. job' \in [Workers -> Pairs \cup {NoPair}]
        BY <2>5 DEF ReduceReturns, TypeOK
      <3> QED
        BY <2>0, <2>5, <3>1, <3>2 DEF ReduceReturns, TypeOK
    <2>6. ASSUME NEW key \in SavedKeys, Save(w, key) \/ SaveFails(w, key) PROVE TypeOK'
      <3>0. at' = [at EXCEPT ![w] = at[w] + 1]
        BY <2>6 DEF Save, SaveFails, SavesNext
      <3>1. at' \in [Workers -> Nat \ {0}]
        <4>1. at \in [Workers -> Nat \ {0}]
          BY DEF TypeOK
        <4> QED
          BY <3>0, <4>1
      <3>2. lost' \subseteq SavedKeys
        BY <2>6 DEF Save, SaveFails, TypeOK
      <3> QED
        BY <2>0, <2>6, <3>1, <3>2 DEF Save, SaveFails, TypeOK
    <2> QED
      BY <1>4, <2>2, <2>3, <2>4, <2>5, <2>6 DEF Worker
  <1> QED
    BY <1>2, <1>3, <1>4 DEF Next, Terminated

------------------------------------------------------------------------------
(* What was taken from the queue.                                          *)

\* What was taken so far: pairs of this run, and every enqueued pair is taken
\* or still in the queue.
TakenInv ==
  /\ taken \in Seq([by : Workers, item : Current])
  /\ main \in Early => taken = <<>>
  /\ elem = Len(taken) + Len(queue) + 1

LEMMA TakenStep ==
  ASSUME ProperRoots, ShapeInv, OrderInv, TakenInv, [Next]_vars
  PROVE  TakenInv'
  <1> DEFINE Taking == [by : Workers, item : Current]
  <1> USE DEF mainVars, queueVars, workerVars, outVars
  <1>1. ASSUME UNCHANGED <<env, mapOpen, elem, queue, taken>>,
               main' \in Early => main \in Early
        PROVE  TakenInv'
    BY <1>1, SamePairs DEF TakenInv
  <1>2. CASE UNCHANGED vars
    BY <1>1, <1>2 DEF vars
  <1>3. CASE MainThread
    <2>0. env' = env
      BY <1>3 DEF MainThread
    <2>1. CASE (\E w \in Workers : CreateThread(w)) \/ ThreadsCreated \/ OpenReducerOut
                 \/ OpenReducerOutFails
      BY <1>1, <2>0, <2>1 DEF CreateThread, ThreadsCreated, OpenReducerOut,
        OpenReducerOutFails, Early
    <2>2. CASE OpenMapOut
      <3>1. taken' = <<>> /\ queue' = <<>> /\ elem' = 1
        BY <2>2 DEF OpenMapOut, TakenInv, OrderInv, Early
      <3> QED
        BY <3>1 DEF TakenInv
    <2>3. CASE EnqueuePair
      <3> DEFINE pair == PairOf(Roots[elem], mapOpen, env.cap_amount)
      <3>1. /\ queue' = Append(queue, pair) /\ elem' = elem + 1
            /\ UNCHANGED <<main, mapOpen, taken>>
            /\ main \notin Early
        BY <2>3 DEF EnqueuePair, Early
      <3> HIDE DEF pair
      <3>2. Len(queue') = Len(queue) + 1
        BY <3>1 DEF ShapeInv
      <3>3. Current' = Current
        BY <2>0, <3>1, SamePairs
      <3>4. Len(taken) \in Nat /\ Len(queue) \in Nat
        BY DEF TakenInv, ShapeInv
      <3> QED
        BY <3>1, <3>2, <3>3, <3>4 DEF TakenInv
    <2>4. CASE CloseQueue \/ JoinWorkers \/ JoinGarbage \/ CloseReducerOut
                 \/ CloseReducerOutFails
      BY <1>1, <2>0, <2>4 DEF CloseQueue, JoinWorkers, JoinGarbage, CloseReducerOut,
        CloseReducerOutFails, Early
    <2> QED
      BY <1>3, <2>1, <2>2, <2>3, <2>4 DEF MainThread
  <1>4. ASSUME NEW w \in Workers, Worker(w) PROVE TakenInv'
    <2>1. UNCHANGED <<env, main, mapOpen, elem>>
      BY <1>4 DEF Worker, Start, StartFails, TakePair, EndThread, RefuseString,
        ReduceReturns, Save, SaveFails
    <2>2. CASE TakePair(w)
      <3> DEFINE entry == [by |-> w, item |-> Head(queue)]
      <3>1. /\ taken' = Append(taken, entry) /\ queue' = Tail(queue)
            /\ queue # <<>> /\ main \notin Early
        BY <2>2 DEF TakePair, OrderInv
      <3>2. queue \in Seq(Current) /\ taken \in Seq(Taking)
        BY DEF ShapeInv, TakenInv
      <3>3. Head(queue) \in Current /\ Len(Tail(queue)) = Len(queue) - 1
              /\ Len(queue) \in Nat
        BY <3>1, <3>2
      <3>4. entry \in Taking
        BY <3>3
      <3> HIDE DEF entry, Taking
      <3>5. taken' \in Seq(Taking) /\ Len(taken') = Len(taken) + 1 /\ Len(taken) \in Nat
        BY <3>1, <3>2, <3>4
      <3>6. Current' = Current
        BY <2>1, SamePairs
      <3>7. taken' \in Seq([by : Workers, item : Current'])
        BY <3>5, <3>6 DEF Taking
      <3> QED
        BY <2>1, <3>1, <3>3, <3>5, <3>7 DEF TakenInv
    <2>3. CASE Start(w) \/ StartFails(w) \/ EndThread(w) \/ RefuseString(w)
                 \/ ReduceReturns(w)
      BY <1>1, <2>1, <2>3 DEF Start, StartFails, EndThread, RefuseString, ReduceReturns
    <2>4. ASSUME NEW key \in SavedKeys, Save(w, key) \/ SaveFails(w, key)
          PROVE  TakenInv'
      BY <1>1, <2>1, <2>4 DEF Save, SaveFails
    <2> QED
      BY <1>4, <2>2, <2>3, <2>4 DEF Worker
  <1> QED
    BY <1>2, <1>3, <1>4 DEF Next, Terminated

------------------------------------------------------------------------------
(* The groups of values.                                                   *)

\* The shadow key map numbers the values of a key from 0 without a gap up to
\* its count, as Meguro.emit does for keys without "|m" that it meets less than
\* CountMod times (Increment, and the theorems of Meguro_proofs about it).
Numbered ==
  \A root \in ToSet(Roots) :
    /\ \E name : root.key = Key(name, <<>>)
    /\ root.count \in 0..CountMod - 1
    /\ \A k \in DOMAIN MapOut :
         RootOf(k) = root.key => \E n \in 0..root.count : k = GenerateShadowKey(root.key, n)

\* With a cap, it fits into 32 bits and every number has its value in the file:
\* no emit failed.
CapsFit ==
  \A e \in Environments : e.cap_amount > 0 =>
    /\ e.cap_amount < CountMod
    /\ \A root \in ToSet(Roots) : \A n \in 0..root.count :
         GenerateShadowKey(root.key, n) \in DOMAIN MapOut

\* A shadow key of a key without "|m" belongs to it, and no two numbers give
\* the same one.
LEMMA ShadowKeyOf ==
  ASSUME NEW name, NEW n \in Nat, NEW m \in Nat
  PROVE  /\ RootOf(GenerateShadowKey(Key(name, <<>>), n)) = Key(name, <<>>)
         /\ GenerateShadowKey(Key(name, <<>>), n) = GenerateShadowKey(Key(name, <<>>), m)
              => n = m
  <1>1. \A i \in Nat : i # 0 =>
          GenerateShadowKey(Key(name, <<>>), i) = [name |-> name, marks |-> <<i>>]
    BY DEF GenerateShadowKey, Key
  <1>2. GenerateShadowKey(Key(name, <<>>), 0) = [name |-> name, marks |-> <<>>]
    BY DEF GenerateShadowKey, Key
  <1>3. RootOf(GenerateShadowKey(Key(name, <<>>), n)) = Key(name, <<>>)
    <2>1. CASE n = 0
      BY <1>2, <2>1 DEF RootOf, Key
    <2>2. CASE n # 0
      <3>1. GenerateShadowKey(Key(name, <<>>), n) = [name |-> name, marks |-> <<n>>]
        BY <1>1, <2>2
      <3> QED
        BY <3>1 DEF RootOf, Key
    <2> QED
      BY <2>1, <2>2
  <1>4. \A i, j : <<i>> # <<>> /\ (<<i>> = <<j>> => i = j)
    OBVIOUS
  <1> QED
    BY <1>1, <1>2, <1>3, <1>4

\* The least of two numbers.
LEMMA MinOfTwo ==
  ASSUME NEW a \in Nat, NEW b \in Nat
  PROVE  Min({a, b}) = IF a <= b THEN a ELSE b
  <1> DEFINE m == IF a <= b THEN a ELSE b
  <1>1. m \in {a, b} /\ \A y \in {a, b} : m <= y
    OBVIOUS
  <1>2. \A x \in {a, b} : (\A y \in {a, b} : x <= y) => x = m
    OBVIOUS
  <1> QED
    BY <1>1, <1>2 DEF Min

\* The numbers of the values begin finds for a root.
Numbers(root, cap) ==
  {n \in 0..MaxKeyCount(root.count, cap) : GenerateShadowKey(root.key, n) \in DOMAIN MapOut}

LEMMA ValuesFound ==
  ASSUME NEW root, NEW cap
  PROVE  /\ DOMAIN ValueList(root, TRUE, cap) = Numbers(root, cap)
         /\ Range(ValueList(root, TRUE, cap)) =
              {MapOut[GenerateShadowKey(root.key, n)] : n \in Numbers(root, cap)}
  BY DEF ValueList, Numbers, Range

\* As many keys as numbers they are generated from.
LEMMA AsManyKeys ==
  ASSUME NEW name, NEW N \in SUBSET Nat, IsFiniteSet(N), NEW S,
         S = {GenerateShadowKey(Key(name, <<>>), n) : n \in N}
  PROVE  IsFiniteSet(S) /\ Cardinality(S) = Cardinality(N)
  <1> DEFINE f == [n \in N |-> GenerateShadowKey(Key(name, <<>>), n)]
  <1>1. f \in [N -> S]
    OBVIOUS
  <1>2. \A a, b \in N : f[a] = f[b] => a = b
    BY ShadowKeyOf
  <1>3. \A k \in S : \E n \in N : f[n] = k
    OBVIOUS
  <1> HIDE DEF f
  <1>4. f \in Bijection(N, S)
    BY <1>1, <1>2, <1>3, Fun_IsBij
  <1>5. ExistsBijection(N, S)
    BY <1>4, Fun_ExistsBij
  <1> QED
    BY <1>5, FS_Bijection

\* The group of a root.
LEMMA GroupOf ==
  ASSUME Numbered, NEW root \in ToSet(Roots)
  PROVE  LET there == {n \in 0..root.count : GenerateShadowKey(root.key, n) \in DOMAIN MapOut}
         IN  /\ SlotsOf(root.key) = {GenerateShadowKey(root.key, n) : n \in there}
             /\ IsFiniteSet(there)
             /\ Cardinality(SlotsOf(root.key)) = Cardinality(there)
  <1> DEFINE there == {n \in 0..root.count : GenerateShadowKey(root.key, n) \in DOMAIN MapOut}
  <1>1. PICK name : root.key = Key(name, <<>>)
    BY DEF Numbered
  <1>2. root.count \in Nat
    BY ReduceAssumption DEF Numbered
  <1>3. there \in SUBSET Nat /\ there \in SUBSET (0..root.count)
    BY <1>2
  <1>4. IsFiniteSet(there)
    <2>1. IsFiniteSet(0..root.count)
      BY <1>2, FS_Interval
    <2> QED
      BY <1>3, <2>1, FS_Subset
  <1>5. SlotsOf(root.key) = {GenerateShadowKey(root.key, n) : n \in there}
    <2>1. \A n \in there : RootOf(GenerateShadowKey(root.key, n)) = root.key
      BY <1>1, <1>3, ShadowKeyOf
    <2>2. \A k \in DOMAIN MapOut : RootOf(k) = root.key =>
            \E n \in there : k = GenerateShadowKey(root.key, n)
      BY DEF Numbered
    <2> QED
      BY <2>1, <2>2 DEF SlotsOf
  <1> HIDE DEF there
  <1>6. Cardinality(SlotsOf(root.key)) = Cardinality(there)
    BY <1>1, <1>3, <1>4, <1>5, AsManyKeys
  <1> QED
    BY <1>4, <1>5, <1>6 DEF there

\* What WholeGroups says of the list of one root.
LEMMA WholeGroup ==
  ASSUME Numbered, CapsFit, NEW root \in ToSet(Roots), NEW e \in Environments
  PROVE  LET values == ValueList(root, TRUE, e.cap_amount)
             group  == SlotsOf(root.key)
             wanted == {MapOut[k] : k \in group}
         IN  /\ Range(values) \subseteq wanted
             /\ e.cap_amount = 0 =>
                  /\ Cardinality(DOMAIN values) = Cardinality(group)
                  /\ wanted \subseteq Range(values)
             /\ e.cap_amount > 0 =>
                  Cardinality(DOMAIN values) >= Min({e.cap_amount, Cardinality(group)})
  <1> DEFINE cap    == e.cap_amount
             there  == {n \in 0..root.count :
                          GenerateShadowKey(root.key, n) \in DOMAIN MapOut}
             values == ValueList(root, TRUE, cap)
             group  == SlotsOf(root.key)
             wanted == {MapOut[k] : k \in group}
             Goal   == /\ Range(values) \subseteq wanted
                       /\ cap = 0 => /\ Cardinality(DOMAIN values) = Cardinality(group)
                                    /\ wanted \subseteq Range(values)
                       /\ cap > 0 => Cardinality(DOMAIN values) >= Min({cap, Cardinality(group)})
  <1> SUFFICES Goal
    OBVIOUS
  <1>1. cap \in Nat /\ root.count \in Nat /\ root.count < CountMod /\ CountMod \in Nat \ {0}
    BY ReduceAssumption DEF Numbered
  <1>2. /\ group = {GenerateShadowKey(root.key, n) : n \in there}
        /\ IsFiniteSet(there)
        /\ Cardinality(group) = Cardinality(there)
    BY GroupOf
  <1>3. /\ DOMAIN values = Numbers(root, cap)
        /\ Range(values) = {MapOut[GenerateShadowKey(root.key, n)] : n \in Numbers(root, cap)}
    BY ValuesFound
  <1>4. wanted = {MapOut[GenerateShadowKey(root.key, n)] : n \in there}
    BY <1>2
  <1> HIDE DEF cap, there, values, group, wanted
  <1>5. CASE cap = 0
    <2>1. MaxKeyCount(root.count, cap) = root.count
      BY <1>5 DEF MaxKeyCount
    <2>2. Numbers(root, cap) = there
      BY <2>1 DEF Numbers, there
    <2> QED
      BY <1>2, <1>3, <1>4, <1>5, <2>2
  <1>6. CASE cap > 0
    <2> DEFINE last == IF root.count <= cap THEN root.count ELSE cap
    <2>1. cap < CountMod /\ cap % CountMod = cap
      BY <1>1, <1>6 DEF CapsFit, cap
    <2>2. MaxKeyCount(root.count, cap) = last
      BY <1>1, <1>6, <2>1, MinOfTwo DEF MaxKeyCount
    <2>3. there = 0..root.count
      BY <1>6 DEF CapsFit, there, cap
    <2>4. Numbers(root, cap) = 0..last
      BY <1>1, <2>2, <2>3 DEF Numbers, there
    <2>5. last \in Nat /\ last <= root.count /\ last <= cap
            /\ (last = root.count \/ last = cap)
      BY <1>1
    <2> HIDE DEF last
    <2>6. Range(values) \subseteq wanted
      <3>1. 0..last \subseteq 0..root.count
        BY <1>1, <2>5
      <3> QED
        BY <1>3, <1>4, <2>3, <2>4, <3>1
    <2>7. Cardinality(0..root.count) = root.count + 1 /\ Cardinality(0..last) = last + 1
      <3>1. \A n \in Nat : Cardinality(0..n) = n + 1
        <4> TAKE n \in Nat
        <4>1. Cardinality(0..n) = IF 0 > n THEN 0 ELSE n - 0 + 1
          BY FS_Interval
        <4> QED
          BY <4>1
      <3> QED
        BY <1>1, <2>5, <3>1
    <2>8. Cardinality(group) = root.count + 1 /\ Cardinality(DOMAIN values) = last + 1
      BY <1>2, <1>3, <2>3, <2>4, <2>7
    <2>9. Min({cap, Cardinality(group)}) = IF cap <= root.count + 1 THEN cap ELSE root.count + 1
      BY <1>1, <2>8, MinOfTwo
    <2>10. Cardinality(DOMAIN values) >= Min({cap, Cardinality(group)})
      BY <1>1, <2>5, <2>8, <2>9
    <2> QED
      BY <1>1, <1>6, <2>6, <2>10
  <1>7. cap = 0 \/ cap > 0
    BY <1>1
  <1> QED
    BY <1>5, <1>6, <1>7

\* What the pairs taken so far hold.
LEMMA GroupsTaken ==
  ASSUME Numbered, CapsFit, TypeOK, TakenInv
  PROVE  WholeGroups
  <1> SUFFICES ASSUME NEW i \in DOMAIN taken, mapOpen
               PROVE  LET values == taken[i].item.values
                          group  == SlotsOf(taken[i].item.key)
                          wanted == {MapOut[k] : k \in group}
                      IN  /\ Range(values) \subseteq wanted
                          /\ env.cap_amount = 0 =>
                               /\ Cardinality(DOMAIN values) = Cardinality(group)
                               /\ wanted \subseteq Range(values)
                          /\ env.cap_amount > 0 =>
                               Cardinality(DOMAIN values)
                                 >= Min({env.cap_amount, Cardinality(group)})
    BY DEF WholeGroups
  <1>1. taken[i].item \in Current
    <2> DEFINE Taking == [by : Workers, item : Current]
    <2>1. taken \in Seq(Taking)
      BY DEF TakenInv
    <2> HIDE DEF Taking
    <2>2. taken[i] \in Taking
      BY <2>1
    <2> QED
      BY <2>2 DEF Taking
  <1>2. PICK root \in ToSet(Roots) : taken[i].item = Paired(root)
    BY <1>1 DEF Current
  <1>3. mapOpen = TRUE /\ env \in Environments
    BY DEF TypeOK
  <1>4. /\ taken[i].item.values = ValueList(root, TRUE, env.cap_amount)
        /\ taken[i].item.key = root.key
    BY <1>2, <1>3 DEF Paired, PairOf
  <1> QED
    BY <1>3, <1>4, WholeGroup

------------------------------------------------------------------------------
(* The queue as a channel.                                                 *)

\* KeysOf and KeysTaken of the sequences the operations make.
LEMMA KeysAppend ==
  ASSUME NEW S, NEW q \in Seq(S), NEW e \in S
  PROVE  /\ KeysOf(Append(q, e)) = Append(KeysOf(q), e.key)
         /\ Len(KeysOf(q)) = Len(q)
  <1> DEFINE long == Append(q, e)
             left == KeysOf(long)
             right == Append(KeysOf(q), e.key)
             T == {s.key : s \in S}
  <1>1. long \in Seq(S) /\ Len(long) = Len(q) + 1 /\ DOMAIN q = 1..Len(q) /\ Len(q) \in Nat
    OBVIOUS
  <1>2. \A i \in 1..Len(q) + 1 : long[i] = IF i = Len(q) + 1 THEN e ELSE q[i]
    OBVIOUS
  <1>3. DOMAIN long = 1..Len(q) + 1
    BY <1>1
  <1> HIDE DEF long
  <1>4. KeysOf(q) \in Seq(T) /\ Len(KeysOf(q)) = Len(q)
          /\ \A i \in 1..Len(q) : KeysOf(q)[i] = q[i].key
    BY <1>1 DEF KeysOf
  <1>5. left \in Seq(T) /\ Len(left) = Len(q) + 1
          /\ \A i \in 1..Len(q) + 1 : left[i] = long[i].key
    <2>1. left = [i \in 1..Len(q) + 1 |-> long[i].key]
      BY <1>3 DEF KeysOf
    <2>2. \A i \in 1..Len(q) + 1 : long[i].key \in T
      BY <1>1, <1>3
    <2> QED
      BY <1>1, <2>1, <2>2
  <1> HIDE DEF left, T
  <1>6. e.key \in T
    BY DEF T
  <1>7. right \in Seq(T) /\ Len(right) = Len(q) + 1
          /\ \A i \in 1..Len(q) + 1 :
               right[i] = IF i = Len(q) + 1 THEN e.key ELSE KeysOf(q)[i]
    BY <1>1, <1>4, <1>6
  <1>8. \A i \in 1..Len(q) + 1 : left[i] = right[i]
    BY <1>1, <1>2, <1>4, <1>5, <1>7
  <1> HIDE DEF right
  <1>9. left = right
    BY <1>5, <1>7, <1>8, SeqEqual
  <1> QED
    BY <1>4, <1>9 DEF left, right, long

LEMMA KeysTail ==
  ASSUME NEW S, NEW q \in Seq(S), q # <<>>
  PROVE  /\ KeysOf(q) # <<>>
         /\ Head(KeysOf(q)) = Head(q).key
         /\ KeysOf(Tail(q)) = Tail(KeysOf(q))
  <1> DEFINE T == {s.key : s \in S}
             short == Tail(q)
             left == KeysOf(short)
             right == Tail(KeysOf(q))
             m == Len(q) - 1
  <1>1. Len(q) \in Nat \ {0} /\ DOMAIN q = 1..Len(q) /\ m \in Nat /\ m + 1 = Len(q)
    OBVIOUS
  <1>2. short \in Seq(S) /\ Len(short) = m /\ DOMAIN short = 1..m
          /\ \A i \in 1..m : short[i] = q[i + 1]
    OBVIOUS
  <1>3. KeysOf(q) \in Seq(T) /\ Len(KeysOf(q)) = Len(q)
          /\ \A i \in 1..Len(q) : KeysOf(q)[i] = q[i].key
    BY <1>1 DEF KeysOf
  <1> HIDE DEF short, m
  <1>4. left = [i \in 1..m |-> short[i].key] /\ \A i \in 1..m : short[i].key \in T
    BY <1>2 DEF KeysOf
  <1> HIDE DEF left, T
  <1>5. left \in Seq(T) /\ Len(left) = m /\ \A i \in 1..m : left[i] = short[i].key
    BY <1>1, <1>4
  <1>6. KeysOf(q) # <<>> /\ Head(KeysOf(q)) = Head(q).key
    BY <1>1, <1>3
  <1>7. right \in Seq(T) /\ Len(right) = m
          /\ \A i \in 1..m : right[i] = KeysOf(q)[i + 1]
    BY <1>1, <1>3, <1>6
  <1>8. \A i \in 1..m : left[i] = right[i]
    BY <1>1, <1>2, <1>3, <1>5, <1>7
  <1> HIDE DEF right
  <1>9. left = right
    BY <1>5, <1>7, <1>8, SeqEqual
  <1> QED
    BY <1>6, <1>9 DEF left, right, short

LEMMA TakenAppend ==
  ASSUME NEW R, NEW q \in Seq(R), NEW e \in R
  PROVE  /\ KeysTaken(Append(q, e))
              = Append(KeysTaken(q), [by |-> e.by, item |-> e.item.key])
         /\ Len(KeysTaken(q)) = Len(q)
  <1> DEFINE Short(x) == [by |-> x.by, item |-> x.item.key]
             long == Append(q, e)
             left == KeysTaken(long)
             right == Append(KeysTaken(q), Short(e))
             T == {Short(s) : s \in R}
  <1>1. \A s \in R : Short(s) \in T
    OBVIOUS
  <1>2. long \in Seq(R) /\ Len(long) = Len(q) + 1 /\ DOMAIN q = 1..Len(q) /\ Len(q) \in Nat
    OBVIOUS
  <1>4. \A i \in 1..Len(q) + 1 : long[i] = IF i = Len(q) + 1 THEN e ELSE q[i]
    OBVIOUS
  <1>5. DOMAIN long = 1..Len(q) + 1
    BY <1>2
  <1> HIDE DEF long
  <1>6. KeysTaken(q) = [i \in 1..Len(q) |-> Short(q[i])]
    BY <1>2 DEF KeysTaken
  <1>7. left = [i \in 1..Len(q) + 1 |-> Short(long[i])]
    BY <1>5 DEF KeysTaken
  <1> HIDE DEF T, Short, left
  <1>8. (\A i \in 1..Len(q) : Short(q[i]) \in T)
          /\ (\A i \in 1..Len(q) + 1 : Short(long[i]) \in T) /\ Short(e) \in T
    BY <1>1, <1>2, <1>5
  <1>9. KeysTaken(q) \in Seq(T) /\ Len(KeysTaken(q)) = Len(q)
          /\ \A i \in 1..Len(q) : KeysTaken(q)[i] = Short(q[i])
    BY <1>2, <1>6, <1>8
  <1>10. left \in Seq(T) /\ Len(left) = Len(q) + 1
          /\ \A i \in 1..Len(q) + 1 : left[i] = Short(long[i])
    BY <1>2, <1>7, <1>8
  <1>11. right \in Seq(T) /\ Len(right) = Len(q) + 1
          /\ \A i \in 1..Len(q) + 1 :
               right[i] = IF i = Len(q) + 1 THEN Short(e) ELSE KeysTaken(q)[i]
    BY <1>2, <1>8, <1>9
  <1>12. \A i \in 1..Len(q) + 1 : left[i] = right[i]
    BY <1>2, <1>4, <1>9, <1>10, <1>11
  <1> HIDE DEF right
  <1>13. left = right
    BY <1>10, <1>11, <1>12, SeqEqual
  <1> QED
    BY <1>9, <1>13 DEF left, right, long, Short

\* Each step is a step of the channel, or one it does not see.
LEMMA ChannelStep ==
  ASSUME ProperRoots, ShapeInv, OrderInv, TypeOK, TakenInv, [Next]_vars
  PROVE  [Channel!Next]_(Channel!channelVars)
  <1> DEFINE Ended == {w \in Workers : pc[w] = "ended"}
  <1> USE DEF mainVars, queueVars, workerVars, outVars
  <1>1. ASSUME UNCHANGED queueVars, Ended' = Ended
        PROVE  UNCHANGED Channel!channelVars
    BY <1>1 DEF Channel!channelVars
  <1>2. /\ Channel!Sent = elem - 1
        /\ Len(KeysOf(queue)) = Len(queue) /\ Len(KeysOf(Roots)) = Len(Roots)
        /\ Len(Roots) \in Nat /\ elem \in Nat \ {0}
    <2>1. PICK S : Roots \in Seq(S)
      BY DEF ProperRoots
    <2>2. Len(KeysOf(Roots)) = Len(Roots) /\ Len(Roots) \in Nat
      BY <2>1 DEF KeysOf
    <2>3. Len(KeysOf(queue)) = Len(queue) /\ Len(queue) \in Nat
      BY DEF KeysOf, ShapeInv
    <2>4. Len(KeysTaken(taken)) = Len(taken) /\ Len(taken) \in Nat
      BY DEF KeysTaken, TakenInv
    <2> QED
      BY <2>2, <2>3, <2>4 DEF Channel!Sent, TakenInv, ShapeInv
  <1>3. CASE UNCHANGED vars
    BY <1>1, <1>3 DEF vars
  <1>4. CASE MainThread
    <2>1. CASE \E w \in Workers : CreateThread(w)
      <3>1. Ended' = Ended /\ UNCHANGED queueVars
        BY <2>1 DEF CreateThread, ShapeInv
      <3> QED
        BY <1>1, <3>1
    <2>2. CASE ThreadsCreated \/ OpenMapOut \/ OpenReducerOut \/ OpenReducerOutFails
      BY <1>1, <2>2 DEF ThreadsCreated, OpenMapOut, OpenReducerOut, OpenReducerOutFails
    <2>3. CASE JoinWorkers \/ JoinGarbage \/ CloseReducerOut \/ CloseReducerOutFails
      BY <1>1, <2>3 DEF JoinWorkers, JoinGarbage, CloseReducerOut, CloseReducerOutFails
    <2>4. CASE EnqueuePair
      <3> DEFINE pair == PairOf(Roots[elem], mapOpen, env.cap_amount)
      <3>1. /\ elem \in 1..Len(Roots) /\ ~qdone /\ Len(queue) # Capacity
            /\ queue' = Append(queue, pair) /\ UNCHANGED <<qdone, taken, pc>>
        BY <1>2, <2>4 DEF EnqueuePair, OrderInv
      <3>2. pair \in Current /\ queue \in Seq(Current)
        BY <3>1, RootsInOrder DEF Current, Paired, ShapeInv
      <3>3. pair.key = KeysOf(Roots)[elem]
        BY <3>1 DEF PairOf, KeysOf, ProperRoots
      <3> HIDE DEF pair
      <3>4. KeysOf(queue)' = Append(KeysOf(queue), KeysOf(Roots)[elem])
        BY <3>1, <3>2, <3>3, KeysAppend
      <3>5. Channel!Send
        BY <1>2, <3>1, <3>4 DEF Channel!Send, Channel!HasRoom
      <3> QED
        BY <3>5 DEF Channel!Next
    <2>5. CASE CloseQueue
      <3>1. elem = Len(Roots) + 1 /\ ~qdone /\ qdone' = TRUE
              /\ UNCHANGED <<queue, taken, pc>>
        BY <1>2, <2>5 DEF CloseQueue, OrderInv, TypeOK
      <3>2. Channel!Close
        BY <1>2, <3>1 DEF Channel!Close
      <3> QED
        BY <3>2 DEF Channel!Next
    <2> QED
      BY <1>4, <2>1, <2>2, <2>3, <2>4, <2>5 DEF MainThread
  <1>5. ASSUME NEW w \in Workers, Worker(w)
        PROVE  [Channel!Next]_(Channel!channelVars)
    <2>1. ASSUME NEW to \in WorkerPC \ {"ended"}, pc[w] # "ended",
                 pc' = [pc EXCEPT ![w] = to]
          PROVE  Ended' = Ended
      BY <2>1 DEF ShapeInv
    <2>2. CASE Start(w)
      <3>1. Ended' = Ended
        BY <2>1, <2>2 DEF Start, Goto, WorkerPC
      <3> QED
        BY <1>1, <2>2, <3>1 DEF Start
    <2>3. CASE ReduceReturns(w)
      <3>1. Ended' = Ended
        BY <2>1, <2>3 DEF ReduceReturns, Goto, WorkerPC
      <3> QED
        BY <1>1, <2>3, <3>1 DEF ReduceReturns
    <2>4. CASE StartFails(w) \/ RefuseString(w)
      BY <1>1, <2>4 DEF StartFails, RefuseString
    <2>5. ASSUME NEW key \in SavedKeys, Save(w, key) \/ SaveFails(w, key)
          PROVE  [Channel!Next]_(Channel!channelVars)
      BY <1>1, <2>5 DEF Save, SaveFails
    <2>6. CASE EndThread(w)
      <3>1. /\ queue = <<>> /\ qdone /\ UNCHANGED queueVars
            /\ w \notin Ended /\ Ended' = Ended \cup {w}
        BY <2>6 DEF EndThread, Goto, ShapeInv
      <3>2. KeysOf(queue) = <<>>
        BY <3>1 DEF KeysOf
      <3>3. Channel!Finish(w)
        BY <3>1, <3>2 DEF Channel!Finish
      <3> QED
        BY <3>3 DEF Channel!Next
    <2>7. CASE TakePair(w)
      <3>1. /\ queue # <<>> /\ queue' = Tail(queue) /\ UNCHANGED qdone
            /\ taken' = Append(taken, [by |-> w, item |-> Head(queue)])
            /\ w \notin Ended
        BY <2>7 DEF TakePair, Goto
      <3>2. Ended' = Ended
        BY <2>1, <2>7 DEF TakePair, Goto, WorkerPC
      <3>3. queue \in Seq(Current) /\ Head(queue) \in Current
              /\ taken \in Seq([by : Workers, item : Current])
        BY <3>1 DEF ShapeInv, TakenInv
      <3>4. /\ KeysOf(queue) # <<>>
            /\ Head(KeysOf(queue)) = Head(queue).key
            /\ KeysOf(queue)' = Tail(KeysOf(queue))
        BY <3>1, <3>3, KeysTail
      <3>5. KeysTaken(taken)' = Append(KeysTaken(taken), [by |-> w, item |-> Head(queue).key])
        <4> DEFINE entry == [by |-> w, item |-> Head(queue)]
                   Taking == [by : Workers, item : Current]
        <4>1. entry \in Taking /\ taken \in Seq(Taking) /\ taken' = Append(taken, entry)
          BY <3>1, <3>3
        <4>2. entry.by = w /\ entry.item = Head(queue)
          OBVIOUS
        <4> HIDE DEF entry, Taking
        <4>3. KeysTaken(Append(taken, entry))
                = Append(KeysTaken(taken), [by |-> entry.by, item |-> entry.item.key])
          BY <4>1, TakenAppend
        <4> QED
          BY <4>1, <4>2, <4>3
      <3>6. Channel!Receive(w)
        BY <3>1, <3>2, <3>4, <3>5 DEF Channel!Receive
      <3> QED
        BY <3>6 DEF Channel!Next
    <2> QED
      BY <1>5, <2>2, <2>3, <2>4, <2>5, <2>6, <2>7 DEF Worker
  <1> QED
    BY <1>3, <1>4, <1>5 DEF Next, Terminated

------------------------------------------------------------------------------
LEMMA ReduceInit == ProperRoots /\ Init => PhaseInv
  <1> SUFFICES ASSUME ProperRoots, Init PROVE PhaseInv
    OBVIOUS
  <1>1. ShapeInv
    BY DEF Init, ShapeInv, WorkerPC
  <1>2. OrderInv
    BY DEF Init, OrderInv, Early, Waiting
  <1>3. \A i \in DOMAIN Roots : ~(i < 1)
    BY DEF ProperRoots
  <1>4. CarriedInv
    BY <1>3 DEF Init, CarriedInv, SavedSoFar
  <1>5. OutInv
    BY DEF Init, OutInv, Early
  <1> QED
    BY <1>1, <1>2, <1>4, <1>5 DEF PhaseInv, ThreadInv

\* At exit every pair was reduced, if there was a worker to reduce it.
LEMMA AllReduced ==
  ASSUME ProperRoots, PhaseInv, main = "exited", \E w \in Workers : pc[w] = "ended"
  PROVE  \A key \in SavedKeys : Written(key)
  <1>1. queue = <<>> /\ qdone /\ elem > Len(Roots)
          /\ \A w \in Workers : pc[w] # "reduce"
    BY DEF PhaseInv, ThreadInv, OrderInv
  <1>2. ToSet(queue) = {}
    BY <1>1 DEF ToSet
  <1>3. ASSUME NEW i \in DOMAIN Roots PROVE Reduced(Roots[i])
    <2>1. i < elem
      BY <1>1 DEF ProperRoots, PhaseInv, ThreadInv, ShapeInv
    <2> QED
      BY <1>1, <1>2, <2>1 DEF PhaseInv, CarriedInv, OnItsWay
  <1>4. ASSUME NEW root \in ToSet(Roots), NEW key \in ToSet(SavesOf[root.key])
        PROVE  Written(key)
    BY <1>3 DEF ToSet, Reduced
  <1> QED
    BY <1>4 DEF SavedKeys

------------------------------------------------------------------------------
\* The inductive invariant of the reduce phase: the order of the main thread's
\* steps, every enqueued pair on its way or reduced, and what the output holds.
THEOREM ReduceInvariant ==
  ASSUME ProperRoots
  PROVE  Spec => []PhaseInv
  <1>1. Init => PhaseInv
    BY ReduceInit
  <1>2. PhaseInv /\ [Next]_vars => PhaseInv'
    BY ShapeStep, OrderStep, CarriedStep, OutStep DEF PhaseInv, ThreadInv
  <1> QED
    BY <1>1, <1>2, PTL DEF Spec

\* reduce_out_db_ is opened and closed by the main thread without a lock; no
\* reduce call runs before or after, for any input and any failure.
THEOREM ReduceWhileOpenTheorem ==
  ASSUME ProperRoots
  PROVE  Spec => []ReduceWhileOpen
  <1>1. PhaseInv => ReduceWhileOpen
    BY DEF PhaseInv, ThreadInv, OrderInv, ReduceWhileOpen, Early, Waiting
  <1> QED
    BY <1>1, ReduceInvariant, PTL

\* reduce_master: when it ends normally the output holds, under every key some
\* reduce call saved and no failure left out, the whole list of one of these
\* calls, and under the other keys what was there before.
THEOREM OutputTheorem ==
  ASSUME ProperRoots
  PROVE  Spec => []OutputAtExit
  <1>1. PhaseInv => OutputAtExit
    <2> SUFFICES ASSUME PhaseInv, main = "exited", \E w \in Workers : pc[w] = "ended"
                 PROVE  /\ SavedKeys \ lost \subseteq DOMAIN out
                        /\ DOMAIN out \ SavedKeys = DOMAIN Kept \ SavedKeys
                        /\ \A key \in DOMAIN out :
                             \/ key \in SavedKeys /\ out[key] \in ListsFor(key)
                             \/ /\ key \in (DOMAIN Kept \ SavedKeys)
                                         \cup (DOMAIN Kept \cap lost)
                                /\ out[key] = Kept[key]
      BY DEF OutputAtExit
    <2>1. \A key \in SavedKeys : Written(key)
      BY AllReduced
    <2>2. /\ DOMAIN out \ SavedKeys = DOMAIN Kept \ SavedKeys
          /\ \A key \in DOMAIN out :
               \/ key \in SavedKeys /\ out[key] \in ListsFor(key)
               \/ key \in DOMAIN Kept /\ out[key] = Kept[key]
      BY DEF PhaseInv, OutInv, Early
    <2> QED
      BY <2>1, <2>2 DEF Written
  <1> QED
    BY <1>1, ReduceInvariant, PTL

\* What TypeOK and the history of the queue add to it.
TypedInv == PhaseInv /\ TypeOK /\ TakenInv

LEMMA TypedInvariant ==
  ASSUME ProperRoots
  PROVE  Spec => []TypedInv
  <1>1. Init => TypedInv
    <2> SUFFICES ASSUME Init PROVE TypeOK /\ TakenInv
      BY ReduceInit DEF TypedInv
    <2>1. Len(Roots) \in Nat
      BY DEF ProperRoots
    <2>2. pc \in [Workers -> WorkerPC]
      BY DEF Init, WorkerPC
    <2>3. job \in [Workers -> Pairs \cup {NoPair}] /\ at \in [Workers -> Nat \ {0}]
      BY DEF Init
    <2>4. TypeOK
      <3>1. env \in Environments /\ main = "create" /\ elem \in 1..Len(Roots) + 1
        BY <2>1 DEF Init
      <3>2. /\ mapOpen \in BOOLEAN /\ qdone \in BOOLEAN /\ outOpen \in BOOLEAN
            /\ dead \in BOOLEAN /\ lost \subseteq SavedKeys
        BY DEF Init
      <3>3. queue = <<>> /\ taken = <<>>
        BY DEF Init
      <3>4. queue \in Seq(Pairs) /\ taken \in Seq([by : Workers, item : Pairs])
        BY <3>3
      <3> QED
        BY <2>2, <2>3, <3>1, <3>2, <3>4 DEF TypeOK
    <2>5. TakenInv
      BY DEF Init, TakenInv
    <2> QED
      BY <2>4, <2>5
  <1>2. TypedInv /\ [Next]_vars => TypedInv'
    <2> SUFFICES ASSUME TypedInv, [Next]_vars PROVE TypedInv'
      OBVIOUS
    <2>1. PhaseInv'
      BY ShapeStep, OrderStep, CarriedStep, OutStep DEF TypedInv, PhaseInv, ThreadInv
    <2>2. TypeOK'
      BY TypeStep DEF TypedInv
    <2>3. TakenInv'
      BY TakenStep DEF TypedInv, PhaseInv, ThreadInv
    <2> QED
      BY <2>1, <2>2, <2>3 DEF TypedInv
  <1> QED
    BY <1>1, <1>2, PTL DEF Spec

\* Reducer::begin: every call of reduce gets the whole group of its key, or with
\* -c as many of its values as the cap asks for, while the output is open.
THEOREM WholeGroupsTheorem ==
  ASSUME ProperRoots, Numbered, CapsFit
  PROVE  Spec => []ReduceInv
  <1>1. TypedInv => ReduceInv
    BY GroupsTaken DEF TypedInv, PhaseInv, ThreadInv, OrderInv, ReduceWhileOpen, Early,
      Waiting, ReduceInv
  <1> QED
    BY <1>1, TypedInvariant, PTL

\* The walk over the shadow key map and the workers use the queue as the channel
\* that ThreadSafeQueue implements: every key goes to one worker, in order, and no
\* worker ends before all of them are taken.
THEOREM ReduceUsesChannel ==
  ASSUME ProperRoots
  PROVE  Spec => ImplementsChannel
  <1>1. Init => Channel!Init
    <2> SUFFICES ASSUME Init PROVE Channel!Init
      OBVIOUS
    <2>1. KeysOf(queue) = <<>> /\ KeysTaken(taken) = <<>>
      BY DEF Init, KeysOf, KeysTaken
    <2>2. {w \in Workers : pc[w] = "ended"} = {}
      BY DEF Init
    <2> QED
      BY <2>1, <2>2 DEF Init, Channel!Init
  <1>2. TypedInv /\ [Next]_vars => [Channel!Next]_(Channel!channelVars)
    BY ChannelStep DEF TypedInv, PhaseInv, ThreadInv
  <1> QED
    BY <1>1, <1>2, TypedInvariant, PTL DEF Spec, ImplementsChannel, Channel!Spec
=============================================================================
