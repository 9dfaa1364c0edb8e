--------------------------- MODULE BoundedChannel ---------------------------
(***************************************************************************)
(* What ThreadSafeQueue<T> promises the map and the reduce phase: a        *)
(* bounded FIFO that one thread (the one running Mapper::begin or          *)
(* Reducer::begin) fills and then closes with done(true), and that worker  *)
(* threads drain until QueueEmptyException tells them to stop.             *)
(*                                                                         *)
(* Each operation is one step here; ThreadSafeQueue.tla has the mutex and  *)
(* the two condition variables and implements this module.  MapPhase and   *)
(* ReducePhase use the queue at this grain.                                *)
(***************************************************************************)
EXTENDS Naturals, Sequences

CONSTANTS
  Workers,   \* the threads that dequeue
  Items,     \* the values that can be enqueued
  Input,     \* the values the filling thread enqueues, in order
  Capacity   \* the queue's capacity, 0 for a queue without bound

VARIABLES
  buf,       \* the queued values, oldest first
  closed,    \* done(true) was called
  taken,     \* history: who dequeued which value, in order
  ended      \* the workers that got QueueEmptyException

channelVars == <<buf, closed, taken, ended>>

Init ==
  /\ buf = <<>>
  /\ closed = FALSE
  /\ taken = <<>>
  /\ ended = {}

\* How many values were enqueued so far.
Sent == Len(taken) + Len(buf)

HasRoom(q) == Capacity = 0 \/ Len(q) # Capacity

\* enqueue returned.
Send ==
  /\ Sent < Len(Input)
  /\ ~closed
  /\ HasRoom(buf)
  /\ buf' = Append(buf, Input[Sent + 1])
  /\ UNCHANGED <<closed, taken, ended>>

\* done(true), once everything was enqueued.
Close ==
  /\ Sent = Len(Input)
  /\ ~closed
  /\ closed' = TRUE
  /\ UNCHANGED <<buf, taken, ended>>

\* dequeue returned a value to w.
Receive(w) ==
  /\ w \notin ended
  /\ buf # <<>>
  /\ taken' = Append(taken, [by |-> w, item |-> Head(buf)])
  /\ buf' = Tail(buf)
  /\ UNCHANGED <<closed, ended>>

\* dequeue threw QueueEmptyException at w.
Finish(w) ==
  /\ w \notin ended
  /\ closed
  /\ buf = <<>>
  /\ ended' = ended \cup {w}
  /\ UNCHANGED <<buf, closed, taken>>

Next ==
  \/ Send
  \/ Close
  \/ \E w \in Workers : Receive(w) \/ Finish(w)

Spec == Init /\ [][Next]_channelVars

\* The filling thread and every worker keep going.
FairSpec ==
  /\ Spec
  /\ WF_channelVars(Send)
  /\ WF_channelVars(Close)
  /\ \A w \in Workers : WF_channelVars(Receive(w) \/ Finish(w))
=============================================================================
