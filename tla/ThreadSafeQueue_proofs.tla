----------------------- MODULE ThreadSafeQueue_proofs -----------------------
(***************************************************************************)
(* Proofs about ThreadSafeQueue, for every set of workers, every input,    *)
(* every capacity and every number of spurious wakeups: its safety         *)
(* invariants, and that it implements BoundedChannel.                      *)
(*                                                                         *)
(* The invariants of ThreadSafeQueue are not inductive by themselves.      *)
(* IInv adds what the code relies on without saying it: who is between     *)
(* lock and unlock owns the mutex, who sleeps is inside pthread_cond_wait, *)
(* and the Master's place in its program tells how much it has pushed and  *)
(* whether done_ is set.                                                   *)
(***************************************************************************)
EXTENDS ThreadSafeQueue, TLAPS

\* The places between pthread_mutex_lock and pthread_mutex_unlock.
Critical == {"enq_test", "enq_unlock", "done_set", "done_unlock",
             "deq_test", "deq_unlock"}

OwnerIsCritical == \A t \in Threads : pc[t] \in Critical <=> owner = t

AsleepInWait ==
  /\ Master \in waitFull => pc[Master] = "enq_wait"
  /\ \A w \in waitEmpty : pc[w] = "deq_wait"

MasterProgress ==
  /\ pc[Master] \in {"enq_lock", "enq_test", "enq_wait"} => sent < Len(Input)
  /\ pc[Master] \in {"done_lock", "done_set", "done_unlock", "done_bcast",
                     "finished"} => sent = Len(Input)
  /\ done_ <=> pc[Master] \in {"done_unlock", "done_bcast", "finished"}

IInv ==
  /\ TypeOK
  /\ OwnerIsCritical
  /\ AsleepInWait
  /\ MasterProgress
  /\ FifoExactlyOnce
  /\ WithinCapacity
  /\ EndedMeansDrained
  /\ NoLostWakeup

------------------------------------------------------------------------------
\* The constructor of the queue and the threads' first calls establish IInv.
LEMMA InitIInv == Init => IInv
<1> SUFFICES ASSUME Init PROVE IInv
  OBVIOUS
<1> USE QueueAssumption DEF Init, Threads, NextCall
<1>1. TypeOK
  <2>1. pc \in [Threads -> MasterPC \cup WorkerPC]
    BY DEF MasterPC, WorkerPC
  <2>2. pc[Master] \in MasterPC /\ \A w \in Workers : pc[w] \in WorkerPC
    BY DEF MasterPC, WorkerPC
  <2>3. data \in Seq(Items) /\ taken \in Seq([by : Workers, item : Items])
    OBVIOUS
  <2> QED
    BY <2>1, <2>2, <2>3 DEF TypeOK
<1>2. OwnerIsCritical
  BY DEF OwnerIsCritical, Critical
<1>3. AsleepInWait /\ MasterProgress
  BY DEF AsleepInWait, MasterProgress
<1>4. FifoExactlyOnce /\ WithinCapacity
  BY DEF FifoExactlyOnce, WithinCapacity
<1>5. EndedMeansDrained /\ NoLostWakeup
  BY DEF EndedMeansDrained, NoLostWakeup
<1> QED
  BY <1>1, <1>2, <1>3, <1>4, <1>5 DEF IInv

------------------------------------------------------------------------------
(* One lemma per conjunct that needs more than its own action.             *)

\* Every step keeps the type of the state, Master and Workers apart.
LEMMA TypeStep == IInv /\ [Next]_vars => TypeOK'
<1> SUFFICES ASSUME IInv, [Next]_vars PROVE TypeOK'
  OBVIOUS
<1> USE QueueAssumption DEF IInv, TypeOK, Threads, MasterPC, WorkerPC, Goto
<1>1. CASE Enqueue
  <2>1. CASE EnqLock \/ EnqRelock \/ EnqUnlock
    BY <2>1 DEF EnqLock, EnqRelock, EnqUnlock, Lock, Unlock
  <2>2. CASE EnqWait
    BY <2>2 DEF EnqWait
  <2>3. CASE EnqPush
    <3>1. sent + 1 \in 1..Len(Input)
      BY <2>3 DEF EnqPush, MasterProgress
    <3>2. Input[sent + 1] \in Items
      BY <3>1
    <3> QED
      BY <2>3, <3>2 DEF EnqPush
  <2>4. CASE EnqBroadcast
    BY <2>4 DEF EnqBroadcast, NextCall
  <2> QED
    BY <1>1, <2>1, <2>2, <2>3, <2>4 DEF Enqueue
<1>2. CASE Done
  BY <1>2 DEF Done, DoneLock, DoneSet, DoneUnlock, DoneBroadcast, Lock, Unlock
<1>3. ASSUME NEW w \in Workers, Dequeue(w) PROVE TypeOK'
  <2>1. CASE DeqLock(w) \/ DeqRelock(w) \/ DeqThrow(w) \/ DeqUnlock(w)
    BY <2>1 DEF DeqLock, DeqRelock, DeqThrow, DeqUnlock, Lock, Unlock
  <2>2. CASE DeqWait(w)
    BY <2>2 DEF DeqWait
  <2>3. CASE DeqPop(w)
    BY <2>3 DEF DeqPop
  <2>4. CASE DeqBroadcast(w)
    BY <2>4 DEF DeqBroadcast
  <2> QED
    BY <1>3, <2>1, <2>2, <2>3, <2>4 DEF Dequeue
<1>4. ASSUME NEW t \in Threads, SpuriousWakeup(t) PROVE TypeOK'
  BY <1>4 DEF SpuriousWakeup
<1>5. CASE Terminated \/ UNCHANGED vars
  BY <1>5 DEF Terminated, vars
<1> QED
  BY <1>1, <1>2, <1>3, <1>4, <1>5 DEF Next

\* Only the thread that locked the mutex is between its lock and its unlock:
\* lock needs a free mutex, and wait and unlock leave the critical places.
LEMMA OwnerStep == IInv /\ [Next]_vars => OwnerIsCritical'
<1> SUFFICES ASSUME IInv, [Next]_vars PROVE OwnerIsCritical'
  OBVIOUS
<1> USE QueueAssumption DEF IInv, TypeOK, OwnerIsCritical, Critical, Threads, Goto
<1>1. CASE Enqueue
  BY <1>1 DEF Enqueue, EnqLock, EnqWait, EnqRelock, EnqPush, EnqUnlock,
              EnqBroadcast, Lock, Unlock, NextCall
<1>2. CASE Done
  BY <1>2 DEF Done, DoneLock, DoneSet, DoneUnlock, DoneBroadcast, Lock, Unlock
<1>3. ASSUME NEW w \in Workers, Dequeue(w) PROVE OwnerIsCritical'
  <2>1. CASE DeqLock(w) \/ DeqRelock(w)
    BY <2>1 DEF DeqLock, DeqRelock, Lock
  <2>2. CASE DeqThrow(w) \/ DeqUnlock(w)
    BY <2>2 DEF DeqThrow, DeqUnlock, Unlock
  <2>3. CASE DeqWait(w)
    BY <2>3 DEF DeqWait
  <2>4. CASE DeqPop(w)
    BY <2>4 DEF DeqPop
  <2>5. CASE DeqBroadcast(w)
    BY <2>5 DEF DeqBroadcast
  <2> QED
    BY <1>3, <2>1, <2>2, <2>3, <2>4, <2>5 DEF Dequeue
<1>4. ASSUME NEW t \in Threads, SpuriousWakeup(t) PROVE OwnerIsCritical'
  BY <1>4 DEF SpuriousWakeup
<1>5. CASE Terminated \/ UNCHANGED vars
  BY <1>5 DEF Terminated, vars
<1> QED
  BY <1>1, <1>2, <1>3, <1>4, <1>5 DEF Next

\* Who is in a wait set is inside pthread_cond_wait, and the Master's place
\* tells whether it has pushed everything and called done(true).
LEMMA PlaceStep == IInv /\ [Next]_vars => AsleepInWait' /\ MasterProgress'
<1> SUFFICES ASSUME IInv, [Next]_vars PROVE AsleepInWait' /\ MasterProgress'
  OBVIOUS
<1> USE QueueAssumption
    DEF IInv, TypeOK, AsleepInWait, MasterProgress, Threads, Goto
<1>1. CASE Enqueue
  <2>1. CASE EnqLock \/ EnqRelock \/ EnqUnlock
    BY <2>1 DEF EnqLock, EnqRelock, EnqUnlock, Lock, Unlock
  <2>2. CASE EnqWait \/ EnqPush
    BY <2>2 DEF EnqWait, EnqPush
  <2>3. CASE EnqBroadcast
    <3>1. sent <= Len(Input)
      BY DEF FifoExactlyOnce
    <3> QED
      BY <2>3, <3>1 DEF EnqBroadcast, NextCall
  <2> QED
    BY <1>1, <2>1, <2>2, <2>3 DEF Enqueue
<1>2. CASE Done
  BY <1>2 DEF Done, DoneLock, DoneSet, DoneUnlock, DoneBroadcast, Lock, Unlock
<1>3. ASSUME NEW w \in Workers, Dequeue(w) PROVE AsleepInWait' /\ MasterProgress'
  <2>1. w # Master /\ UNCHANGED <<done_, sent>> /\ pc'[Master] = pc[Master]
    BY <1>3 DEF Dequeue, DeqLock, DeqWait, DeqRelock, DeqThrow, DeqPop,
                DeqUnlock, DeqBroadcast, Lock, Unlock
  <2>2. MasterProgress'
    BY <2>1
  <2>3. AsleepInWait'
    BY <1>3, <2>1 DEF Dequeue, DeqLock, DeqWait, DeqRelock, DeqThrow, DeqPop,
                DeqUnlock, DeqBroadcast, Lock, Unlock
  <2> QED
    BY <2>2, <2>3
<1>4. ASSUME NEW t \in Threads, SpuriousWakeup(t)
      PROVE  AsleepInWait' /\ MasterProgress'
  BY <1>4 DEF SpuriousWakeup
<1>5. CASE Terminated \/ UNCHANGED vars
  BY <1>5 DEF Terminated, vars
<1> QED
  BY <1>1, <1>2, <1>3, <1>4, <1>5 DEF Next

\* The step that takes the head of the queue shifts both halves of the input.
LEMMA FifoStep == IInv /\ [Next]_vars => FifoExactlyOnce'
<1> SUFFICES ASSUME IInv, [Next]_vars PROVE FifoExactlyOnce'
  OBVIOUS
<1> USE QueueAssumption DEF IInv, TypeOK, FifoExactlyOnce
<1>1. CASE EnqPush
  <2>1. sent < Len(Input)
    BY <1>1 DEF EnqPush, Goto, MasterProgress
  <2> QED
    BY <1>1, <2>1 DEF EnqPush
<1>2. ASSUME NEW w \in Workers, DeqPop(w) PROVE FifoExactlyOnce'
  <2> DEFINE n == Len(taken)
  <2>1. /\ data # <<>>
        /\ taken' = Append(taken, [by |-> w, item |-> Head(data)])
        /\ data' = Tail(data)
        /\ sent' = sent
    BY <1>2 DEF DeqPop
  <2>2. Len(taken') = n + 1 /\ Len(data') = Len(data) - 1 /\ Len(data) > 0
    BY <2>1
  <2>3. \A i \in 1..Len(taken') : taken'[i].item = Input[i]
    <3>1. Head(data) = Input[n + 1]
      BY <2>1, <2>2
    <3> QED
      BY <2>1, <2>2, <3>1
  <2>4. \A i \in 1..Len(data') : data'[i] = data[i + 1]
    BY <2>1, <2>2
  <2>5. \A i \in 1..Len(data') : data'[i] = Input[Len(taken') + i]
    <3> SUFFICES ASSUME NEW i \in 1..Len(data') PROVE data'[i] = Input[n + 1 + i]
      BY <2>2
    <3>1. i + 1 \in 1..Len(data)
      BY <2>2
    <3>2. data[i + 1] = Input[n + (i + 1)]
      BY <3>1
    <3>3. n + (i + 1) = n + 1 + i
      OBVIOUS
    <3> QED
      BY <2>4, <3>2, <3>3
  <2> QED
    BY <2>1, <2>2, <2>3, <2>5
<1>3. CASE UNCHANGED <<data, sent, taken>>
  BY <1>3
<1> QED
  BY <1>1, <1>2, <1>3
  DEF Next, Enqueue, Done, Dequeue, SpuriousWakeup, Terminated, vars,
      EnqLock, EnqWait, EnqRelock, EnqUnlock, EnqBroadcast,
      DoneLock, DoneSet, DoneUnlock, DoneBroadcast,
      DeqLock, DeqWait, DeqRelock, DeqThrow, DeqUnlock, DeqBroadcast,
      Lock, Unlock

\* Only enqueue adds a value, right after it tested the size under the mutex.
LEMMA CapacityStep == IInv /\ [Next]_vars => WithinCapacity'
<1> SUFFICES ASSUME IInv, [Next]_vars PROVE WithinCapacity'
  OBVIOUS
<1> USE QueueAssumption DEF IInv, TypeOK, WithinCapacity
<1>1. CASE EnqPush
  BY <1>1 DEF EnqPush, IsFull
<1>2. ASSUME NEW w \in Workers, DeqPop(w) PROVE WithinCapacity'
  BY <1>2 DEF DeqPop
<1>3. CASE UNCHANGED data
  BY <1>3
<1> QED
  BY <1>1, <1>2, <1>3
  DEF Next, Enqueue, Done, Dequeue, SpuriousWakeup, Terminated, vars,
      EnqLock, EnqWait, EnqRelock, EnqUnlock, EnqBroadcast,
      DoneLock, DoneSet, DoneUnlock, DoneBroadcast,
      DeqLock, DeqWait, DeqRelock, DeqThrow, DeqUnlock, DeqBroadcast,
      Lock, Unlock

\* done_ says that everything was pushed; with an empty queue it was popped too.
LEMMA DrainedStep == IInv /\ [Next]_vars => EndedMeansDrained'
<1> SUFFICES ASSUME IInv, [Next]_vars PROVE EndedMeansDrained'
  OBVIOUS
<1> USE QueueAssumption DEF IInv, TypeOK, EndedMeansDrained, Threads, Goto
<1>1. done_ => sent = Len(Input)
  BY DEF MasterProgress
<1>2. ASSUME NEW w \in Workers, Dequeue(w) PROVE EndedMeansDrained'
  <2>1. CASE DeqThrow(w)
    BY <2>1, <1>1 DEF DeqThrow, Unlock, FifoExactlyOnce
  <2>2. CASE DeqPop(w)
    <3>1. Len(data) > 0
      BY <2>2 DEF DeqPop
    <3>2. \A v \in Workers : pc[v] # "ended"
      BY <3>1, <1>1 DEF FifoExactlyOnce
    <3> QED
      BY <2>2, <3>2 DEF DeqPop
  <2>3. CASE DeqLock(w) \/ DeqRelock(w) \/ DeqUnlock(w)
    BY <2>3 DEF DeqLock, DeqRelock, DeqUnlock, Lock, Unlock
  <2>4. CASE DeqWait(w) \/ DeqBroadcast(w)
    BY <2>4 DEF DeqWait, DeqBroadcast
  <2> QED
    BY <1>2, <2>1, <2>2, <2>3, <2>4 DEF Dequeue
<1>3. CASE Enqueue
  BY <1>3 DEF Enqueue, EnqLock, EnqWait, EnqRelock, EnqPush, EnqUnlock,
              EnqBroadcast, Lock, Unlock
<1>4. CASE Done
  BY <1>4 DEF Done, DoneLock, DoneSet, DoneUnlock, DoneBroadcast, Lock, Unlock
<1>5. ASSUME NEW t \in Threads, SpuriousWakeup(t) PROVE EndedMeansDrained'
  BY <1>5 DEF SpuriousWakeup
<1>6. CASE Terminated \/ UNCHANGED vars
  BY <1>6 DEF Terminated, vars
<1> QED
  BY <1>2, <1>3, <1>4, <1>5, <1>6 DEF Next

\* The thread that makes a sleeper's condition true has its broadcast ahead,
\* and a thread falls asleep only while its condition is false.
LEMMA WakeupStep == IInv /\ [Next]_vars => NoLostWakeup'
<1> SUFFICES ASSUME IInv, [Next]_vars PROVE NoLostWakeup'
  OBVIOUS
<1> USE QueueAssumption DEF IInv, TypeOK, NoLostWakeup, Threads, Goto, IsFull
<1>1. CASE Enqueue
  <2>1. CASE EnqPush
    BY <2>1 DEF EnqPush, AsleepInWait
  <2>2. CASE EnqWait
    BY <2>2 DEF EnqWait
  <2>3. CASE EnqBroadcast
    BY <2>3 DEF EnqBroadcast
  <2>4. CASE EnqLock \/ EnqRelock \/ EnqUnlock
    BY <2>4 DEF EnqLock, EnqRelock, EnqUnlock, Lock, Unlock
  <2> QED
    BY <1>1, <2>1, <2>2, <2>3, <2>4 DEF Enqueue
<1>2. CASE Done
  BY <1>2 DEF Done, DoneLock, DoneSet, DoneUnlock, DoneBroadcast, Lock, Unlock
<1>3. ASSUME NEW w \in Workers, Dequeue(w) PROVE NoLostWakeup'
  <2>1. CASE DeqPop(w)
    BY <2>1 DEF DeqPop
  <2>2. CASE DeqWait(w)
    BY <2>2 DEF DeqWait
  <2>3. CASE DeqBroadcast(w)
    BY <2>3 DEF DeqBroadcast
  <2>4. CASE DeqLock(w) \/ DeqRelock(w) \/ DeqThrow(w) \/ DeqUnlock(w)
    BY <2>4 DEF DeqLock, DeqRelock, DeqThrow, DeqUnlock, Lock, Unlock
  <2> QED
    BY <1>3, <2>1, <2>2, <2>3, <2>4 DEF Dequeue
<1>4. ASSUME NEW t \in Threads, SpuriousWakeup(t) PROVE NoLostWakeup'
  BY <1>4 DEF SpuriousWakeup
<1>5. CASE Terminated \/ UNCHANGED vars
  BY <1>5 DEF Terminated, vars
<1> QED
  BY <1>1, <1>2, <1>3, <1>4, <1>5 DEF Next

------------------------------------------------------------------------------
\* IInv holds in every reachable state of the queue.
THEOREM QueueInvariant == Spec => []IInv
<1>1. IInv /\ [Next]_vars => IInv'
  BY TypeStep, OwnerStep, PlaceStep, FifoStep, CapacityStep, DrainedStep,
     WakeupStep DEF IInv
<1> QED
  BY InitIInv, <1>1, PTL DEF Spec

\* However many workers compete, whatever the capacity and the wakeups: the
\* values popped so far and the values queued are the input pushed so far.
THEOREM QueueFifoExactlyOnce == Spec => []FifoExactlyOnce
<1>1. IInv => FifoExactlyOnce
  BY DEF IInv
<1> QED
  BY <1>1, QueueInvariant, PTL

\* The queue never outgrows its capacity.
THEOREM QueueWithinCapacity == Spec => []WithinCapacity
<1>1. IInv => WithinCapacity
  BY DEF IInv
<1> QED
  BY <1>1, QueueInvariant, PTL

\* A worker that got QueueEmptyException left nothing behind.
THEOREM QueueEndedMeansDrained == Spec => []EndedMeansDrained
<1>1. IInv => EndedMeansDrained
  BY DEF IInv
<1> QED
  BY <1>1, QueueInvariant, PTL

\* No thread sleeps through the event it waits for.
THEOREM QueueNoLostWakeup == Spec => []NoLostWakeup
<1>1. IInv => NoLostWakeup
  BY DEF IInv
<1> QED
  BY <1>1, QueueInvariant, PTL

------------------------------------------------------------------------------
\* Every step of the queue is a step of the channel or leaves it alone.
LEMMA ChannelStep ==
  IInv /\ [Next]_vars => [Channel!Next]_(Channel!channelVars)
<1> SUFFICES ASSUME IInv, [Next]_vars
             PROVE  Channel!Next \/ UNCHANGED Channel!channelVars
  OBVIOUS
<1> USE QueueAssumption
    DEF IInv, TypeOK, Threads, Goto, Channel!Next, Channel!channelVars
<1> DEFINE over == {w \in Workers : pc[w] = "ended"}
<1>1. CASE EnqPush
  <2>1. sent < Len(Input) /\ ~done_
    BY <1>1 DEF EnqPush, MasterProgress
  <2>2. UNCHANGED over
    BY <1>1 DEF EnqPush
  <2> QED
    BY <1>1, <2>1, <2>2
    DEF EnqPush, FifoExactlyOnce, Channel!Send, Channel!Sent, Channel!HasRoom,
        IsFull
<1>2. CASE DoneSet
  <2>1. sent = Len(Input) /\ ~done_
    BY <1>2 DEF DoneSet, MasterProgress
  <2>2. UNCHANGED over
    BY <1>2 DEF DoneSet
  <2> QED
    BY <1>2, <2>1, <2>2
    DEF DoneSet, FifoExactlyOnce, Channel!Close, Channel!Sent
<1>3. ASSUME NEW w \in Workers, DeqPop(w) PROVE Channel!Next
  <2>1. w \notin over /\ UNCHANGED over
    BY <1>3 DEF DeqPop
  <2> QED
    BY <1>3, <2>1 DEF DeqPop, Channel!Receive
<1>4. ASSUME NEW w \in Workers, DeqThrow(w) PROVE Channel!Next
  <2>1. w \notin over /\ over' = over \cup {w}
    BY <1>4 DEF DeqThrow, Unlock
  <2> QED
    BY <1>4, <2>1 DEF DeqThrow, Unlock, Channel!Finish
<1>5. CASE EnqLock \/ EnqWait \/ EnqRelock \/ EnqUnlock \/ EnqBroadcast
  <2>1. UNCHANGED over
    BY <1>5 DEF EnqLock, EnqWait, EnqRelock, EnqUnlock, EnqBroadcast, Lock,
                Unlock
  <2> QED
    BY <1>5, <2>1 DEF EnqLock, EnqWait, EnqRelock, EnqUnlock, EnqBroadcast,
                      Lock, Unlock
<1>6. CASE DoneLock \/ DoneUnlock \/ DoneBroadcast
  <2>1. UNCHANGED over
    BY <1>6 DEF DoneLock, DoneUnlock, DoneBroadcast, Lock, Unlock
  <2> QED
    BY <1>6, <2>1 DEF DoneLock, DoneUnlock, DoneBroadcast, Lock, Unlock
<1>7. ASSUME NEW w \in Workers,
             \/ DeqLock(w) \/ DeqWait(w) \/ DeqRelock(w)
             \/ DeqUnlock(w) \/ DeqBroadcast(w)
      PROVE  UNCHANGED Channel!channelVars
  <2>1. UNCHANGED over
    BY <1>7 DEF DeqLock, DeqWait, DeqRelock, DeqUnlock, DeqBroadcast, Lock,
                Unlock
  <2> QED
    BY <1>7, <2>1 DEF DeqLock, DeqWait, DeqRelock, DeqUnlock, DeqBroadcast,
                      Lock, Unlock
<1>8. CASE (\E t \in Threads : SpuriousWakeup(t)) \/ Terminated \/ UNCHANGED vars
  BY <1>8 DEF SpuriousWakeup, Terminated, vars
<1> QED
  BY <1>1, <1>2, <1>3, <1>4, <1>5, <1>6, <1>7, <1>8
  DEF Next, Enqueue, Done, Dequeue

\* ThreadSafeQueue implements the bounded channel the two phases are written
\* against: enqueue, dequeue and done are atomic to their callers.
THEOREM QueueImplementsChannel == Spec => ImplementsChannel
<1>1. Init => Channel!Init
  BY QueueAssumption DEF Init, Channel!Init, Threads, NextCall
<1> QED
  BY <1>1, ChannelStep, QueueInvariant, PTL
  DEF Spec, ImplementsChannel, Channel!Spec
=============================================================================
