--------------------------- MODULE ThreadSafeQueue ---------------------------
(***************************************************************************)
(* ThreadSafeQueue<T> at the grain of its POSIX calls: one mutex, the      *)
(* condition variables cond_full (the filling thread waits there for room) *)
(* and cond_empty (the workers wait there for a value or for the end), and *)
(* a flag done_.  Every operation unlocks the mutex before it broadcasts.  *)
(*                                                                         *)
(* The threads are the ones that share a queue in meguro: the Master runs  *)
(* Mapper::begin or Reducer::begin, which enqueues every element of Input  *)
(* and then calls done(true); the Workers run threaded_map or              *)
(* threaded_reduce, which call dequeue until it throws.  What a worker     *)
(* does with a value between two calls is left out: it may take any time.  *)
(***************************************************************************)
EXTENDS Naturals, Sequences

CONSTANTS
  Master,       \* the thread that enqueues and then calls done(true)
  Workers,      \* the threads that dequeue
  NoThread,     \* the owner of a free mutex
  Items,        \* the values that can be enqueued
  Input,        \* what the Master enqueues, in order
  Capacity,     \* the queue's capacity; 0 is a queue without bound
  MaxSpurious   \* bound on spurious returns of pthread_cond_wait

Threads == Workers \cup {Master}

ASSUME QueueAssumption ==
  /\ Master \notin Workers
  /\ NoThread \notin Threads
  /\ Input \in Seq(Items)
  /\ Capacity \in Nat
  /\ MaxSpurious \in Nat

VARIABLES
  data,         \* queue<T> data
  done_,        \* the flag done(true) sets
  owner,        \* the thread that holds the mutex
  waitFull,     \* the threads asleep on cond_full
  waitEmpty,    \* the threads asleep on cond_empty
  pc,           \* where each thread is
  sent,         \* how many elements of Input were pushed
  taken,        \* history: who popped which value, in order
  spurious      \* how many spurious wakeups there were

vars == <<data, done_, owner, waitFull, waitEmpty, pc, sent, taken, spurious>>

MasterPC == {"enq_lock", "enq_test", "enq_wait", "enq_unlock", "enq_bcast",
             "done_lock", "done_set", "done_unlock", "done_bcast", "finished"}

WorkerPC == {"deq_lock", "deq_test", "deq_wait", "deq_unlock", "deq_bcast",
             "ended"}

Goto(t, from, to) ==
  /\ pc[t] = from
  /\ pc' = [pc EXCEPT ![t] = to]

\* What the Master calls next: enqueue while Input has values left, then done.
NextCall(n) == IF n < Len(Input) THEN "enq_lock" ELSE "done_lock"

Init ==
  /\ data = <<>>
  /\ done_ = FALSE
  /\ owner = NoThread
  /\ waitFull = {}
  /\ waitEmpty = {}
  /\ pc = [t \in Threads |-> IF t = Master THEN NextCall(0) ELSE "deq_lock"]
  /\ sent = 0
  /\ taken = <<>>
  /\ spurious = 0

------------------------------------------------------------------------------
(* pthread calls *)

\* pthread_mutex_lock returned to t.
Lock(t, from, to) ==
  /\ Goto(t, from, to)
  /\ owner = NoThread
  /\ owner' = t
  /\ UNCHANGED <<data, done_, waitFull, waitEmpty, sent, taken, spurious>>

\* pthread_mutex_unlock.
Unlock(t, from, to) ==
  /\ Goto(t, from, to)
  /\ owner' = NoThread
  /\ UNCHANGED <<data, done_, waitFull, waitEmpty, sent, taken, spurious>>

\* pthread_cond_wait may return although nobody broadcast.
SpuriousWakeup(t) ==
  /\ t \in waitFull \cup waitEmpty
  /\ spurious < MaxSpurious
  /\ spurious' = spurious + 1
  /\ waitFull' = waitFull \ {t}
  /\ waitEmpty' = waitEmpty \ {t}
  /\ UNCHANGED <<data, done_, owner, pc, sent, taken>>

------------------------------------------------------------------------------
(* enqueue *)

IsFull(q) == Capacity > 0 /\ Len(q) = Capacity

EnqLock == Lock(Master, "enq_lock", "enq_test")

\* pthread_cond_wait(&cond_full, &mutex): sleep and release the mutex at once.
EnqWait ==
  /\ IsFull(data)
  /\ Goto(Master, "enq_test", "enq_wait")
  /\ owner' = NoThread
  /\ waitFull' = waitFull \cup {Master}
  /\ UNCHANGED <<data, done_, waitEmpty, sent, taken, spurious>>

\* Awake, pthread_cond_wait takes the mutex again and the loop tests again.
EnqRelock ==
  /\ Master \notin waitFull
  /\ Lock(Master, "enq_wait", "enq_test")

\* Mutant of EnqPush: the new value goes to the front.
EnqPushFront ==
  /\ ~IsFull(data)
  /\ Goto(Master, "enq_test", "enq_unlock")
  /\ data' = <<Input[sent + 1]>> \o data
  /\ sent' = sent + 1
  /\ UNCHANGED <<done_, owner, waitFull, waitEmpty, taken, spurious>>

EnqPush ==
  /\ ~IsFull(data)
  /\ Goto(Master, "enq_test", "enq_unlock")
  /\ data' = Append(data, Input[sent + 1])
  /\ sent' = sent + 1
  /\ UNCHANGED <<done_, owner, waitFull, waitEmpty, taken, spurious>>

EnqUnlock == Unlock(Master, "enq_unlock", "enq_bcast")

EnqBroadcast ==
  /\ Goto(Master, "enq_bcast", NextCall(sent))
  /\ waitEmpty' = {}
  /\ UNCHANGED <<data, done_, owner, waitFull, sent, taken, spurious>>

------------------------------------------------------------------------------
(* done(true) *)

DoneLock == Lock(Master, "done_lock", "done_set")

DoneSet ==
  /\ Goto(Master, "done_set", "done_unlock")
  /\ done_' = TRUE
  /\ UNCHANGED <<data, owner, waitFull, waitEmpty, sent, taken, spurious>>

DoneUnlock == Unlock(Master, "done_unlock", "done_bcast")

\* Mutant of DoneBroadcast: done(true) wakes nobody.
DoneSilently ==
  /\ Goto(Master, "done_bcast", "finished")
  /\ UNCHANGED <<data, done_, owner, waitFull, waitEmpty, sent, taken, spurious>>

DoneBroadcast ==
  /\ Goto(Master, "done_bcast", "finished")
  /\ waitEmpty' = {}
  /\ UNCHANGED <<data, done_, owner, waitFull, sent, taken, spurious>>

------------------------------------------------------------------------------
(* dequeue *)

DeqLock(w) == Lock(w, "deq_lock", "deq_test")

\* while(data.size() == 0 && !done_) pthread_cond_wait(&cond_empty, &mutex)
DeqWait(w) ==
  /\ data = <<>>
  /\ ~done_
  /\ Goto(w, "deq_test", "deq_wait")
  /\ owner' = NoThread
  /\ waitEmpty' = waitEmpty \cup {w}
  /\ UNCHANGED <<data, done_, waitFull, sent, taken, spurious>>

DeqRelock(w) ==
  /\ w \notin waitEmpty
  /\ Lock(w, "deq_wait", "deq_test")

\* Closed and empty: unlock and throw QueueEmptyException, which ends the
\* worker's loop.
DeqThrow(w) ==
  /\ data = <<>>
  /\ done_
  /\ Unlock(w, "deq_test", "ended")

DeqPop(w) ==
  /\ data # <<>>
  /\ Goto(w, "deq_test", "deq_unlock")
  /\ taken' = Append(taken, [by |-> w, item |-> Head(data)])
  /\ data' = Tail(data)
  /\ UNCHANGED <<done_, owner, waitFull, waitEmpty, sent, spurious>>

DeqUnlock(w) == Unlock(w, "deq_unlock", "deq_bcast")

\* Broadcast to cond_full and return the value; the worker uses it and calls
\* dequeue again.
DeqBroadcast(w) ==
  /\ Goto(w, "deq_bcast", "deq_lock")
  /\ waitFull' = {}
  /\ UNCHANGED <<data, done_, owner, waitEmpty, sent, taken, spurious>>

------------------------------------------------------------------------------
Enqueue == EnqLock \/ EnqWait \/ EnqRelock \/ EnqPush \/ EnqUnlock \/ EnqBroadcast

Done == DoneLock \/ DoneSet \/ DoneUnlock \/ DoneBroadcast

Dequeue(w) ==
  \/ DeqLock(w) \/ DeqWait(w) \/ DeqRelock(w) \/ DeqThrow(w)
  \/ DeqPop(w) \/ DeqUnlock(w) \/ DeqBroadcast(w)

AllReturned ==
  /\ pc[Master] = "finished"
  /\ \A w \in Workers : pc[w] = "ended"

\* The program stops using the queue; only then may the system stand still.
Terminated == AllReturned /\ UNCHANGED vars

Next ==
  \/ Enqueue
  \/ Done
  \/ \E w \in Workers : Dequeue(w)
  \/ \E t \in Threads : SpuriousWakeup(t)
  \/ Terminated

Spec == Init /\ [][Next]_vars

\* Every thread is scheduled.  Weak fairness is enough: a thread that waits
\* for the mutex can be overtaken only as often as the others call lock, and
\* they call it a bounded number of times.
FairSpec ==
  /\ Spec
  /\ WF_vars(Enqueue)
  /\ WF_vars(Done)
  /\ \A w \in Workers : WF_vars(Dequeue(w))

------------------------------------------------------------------------------
TypeOK ==
  /\ data \in Seq(Items)
  /\ done_ \in BOOLEAN
  /\ owner \in Threads \cup {NoThread}
  /\ waitFull \in SUBSET {Master}
  /\ waitEmpty \in SUBSET Workers
  /\ pc \in [Threads -> MasterPC \cup WorkerPC]
  /\ pc[Master] \in MasterPC
  /\ \A w \in Workers : pc[w] \in WorkerPC
  /\ sent \in Nat
  /\ taken \in Seq([by : Workers, item : Items])
  /\ spurious \in Nat

\* The values popped so far, by whichever worker, followed by the values still
\* queued are the values pushed, in the order they were pushed: no value is
\* lost, popped twice or overtaken, whatever the wakeups and the contention.
FifoExactlyOnce ==
  /\ sent = Len(taken) + Len(data)
  /\ sent <= Len(Input)
  /\ \A i \in 1..Len(taken) : taken[i].item = Input[i]
  /\ \A i \in 1..Len(data) : data[i] = Input[Len(taken) + i]

\* A queue built with a capacity never holds more values than that, although
\* the test is data.size() == capacity and wakeups may be spurious.
WithinCapacity == Capacity > 0 => Len(data) <= Capacity

\* QueueEmptyException means that there is nothing left and that nothing will
\* come: when a worker leaves its loop, every input was popped by some worker.
EndedMeansDrained ==
  \A w \in Workers : pc[w] = "ended" => done_ /\ Len(taken) = Len(Input)

\* The broadcasts come after the unlock, so a thread may be asleep although
\* what it waits for is already true - but then the broadcast that wakes it
\* is still to come from a thread that is past its change.
NoLostWakeup ==
  /\ waitEmpty # {} /\ (data # <<>> \/ done_)
       => pc[Master] \in {"enq_unlock", "enq_bcast", "done_unlock", "done_bcast"}
  /\ waitFull # {} /\ ~IsFull(data)
       => \E w \in Workers : pc[w] \in {"deq_unlock", "deq_bcast"}

\* The queue is a bounded FIFO channel whose operations are atomic: enqueue
\* takes effect at the push, dequeue at the pop or at the throw.
Channel == INSTANCE BoundedChannel WITH
  buf <- data, closed <- done_, ended <- {w \in Workers : pc[w] = "ended"}

ImplementsChannel == Channel!Spec
ImplementsFairChannel == Channel!FairSpec
=============================================================================
