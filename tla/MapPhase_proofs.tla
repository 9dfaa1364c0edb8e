--------------------------- MODULE MapPhase_proofs ---------------------------
(***************************************************************************)
(* Proofs about MapPhase, for any number of workers, any input and any map *)
(* function: emit_mutex_ excludes, the file is open at every put, the      *)
(* totals printed at the end are exact for the sets and not too high for   *)
(* the emits, every number increment_and_return_shadow_key hands out has   *)
(* its value in the file or is in the hands of exactly one worker, and the *)
(* phase implements what it promises: the queue is BoundedChannel over the *)
(* selected records, and the output file is GroupedOutput.  What is proved *)
(* of the numbers and of the output assumes of the run that no emitted key *)
(* holds "|m" and that no count reaches the end of its 32 bits; of the     *)
(* output also that neither Meguro.set nor the file of an incremental map  *)
(* uses the keys of emit.                                                  *)
(***************************************************************************)
EXTENDS MapPhase, FiniteSetTheorems, FunctionTheorems, TLAPS

\* The map function makes a sequence of calls, and emits keys without "|m".
PlainEmits ==
  \A r \in Records :
    /\ \E S : Calls[r] \in Seq(S)
    /\ \A i \in DOMAIN Calls[r] :
         Calls[r][i].op = "emit" => \E name : Calls[r][i].key = Key(name, <<>>)

\* The map function makes a sequence of calls, on keys and values of some size.
ProperCalls ==
  \A r \in Records :
    /\ \E S : Calls[r] \in Seq(S)
    /\ \A i \in DOMAIN Calls[r] :
         /\ \E name, marks : Calls[r][i].key = Key(name, marks)
         /\ Calls[r][i].size \in Nat

ListedCalls == \A r \in Records : \E S : Calls[r] \in Seq(S)

\* No count is about to wrap around.
NoWrap == \A k \in DOMAIN counts : counts[k] + 1 < CountMod

IsPlain(k) == \E name : k = Key(name, <<>>)

\* Where a worker is within emit and within set, and where it holds emit_mutex_.
EmitPC == {"emit_add", "emit_lock", "emit_incr", "emit_key", "emit_unlock",
           "emit_put", "size_load", "size_add"}
SetPC == {"set_load", "set_add", "set_unlock", "set_put"}
Critical == {"emit_incr", "emit_key", "emit_unlock",
             "set_load", "set_add", "set_unlock"}
Waiting == {"unborn", "failed", "start", "idle", "ended"}

ShapeInv ==
  /\ pc \in [Workers -> WorkerPC]
  /\ job \in [Workers -> Records \cup {NoRecord}]
  /\ at \in [Workers -> Nat \ {0}]
  /\ slot = [w \in Workers |-> slot[w]]
  /\ queue \in Seq(Records)
  /\ recNo \in Nat \ {0}
  /\ fileNo \in Nat \ {0}
  /\ main = "read" => fileNo <= Len(Files)

\* At most one worker is inside the critical section.
MutexInv == \A w \in Workers : pc[w] \in Critical => emitOwner = w

\* A worker within emit or set runs such a call of the record it took.
JobInv ==
  \A w \in Workers :
    /\ pc[w] \notin Waiting => job[w] \in Records
    /\ pc[w] \in EmitPC => /\ at[w] \in DOMAIN CallsOf(job[w])
                           /\ Call(w).op = "emit"
    /\ pc[w] \in SetPC => /\ at[w] \in DOMAIN CallsOf(job[w])
                          /\ Call(w).op = "set"

\* Nothing was counted before the file is opened, and truncated.
FreshInv ==
  main \in {"create", "open"} =>
    /\ queue = <<>>
    /\ \A w \in Workers : pc[w] \in Waiting
    /\ counts = EmptyMap

\* The file is open until every worker that ever started has ended.
FileInv ==
  /\ main \notin {"create", "open", "exited"} => dbOpen
  /\ main \in {"end", "exited"} => \A w \in Workers : pc[w] \in {"ended", "failed"}

\* A worker that stores a value has a number that was handed out.
HandedOut ==
  /\ counts \in [DOMAIN counts -> Nat]
  /\ \A k \in DOMAIN counts : IsPlain(k)
  /\ \A w \in Workers :
       /\ pc[w] = "emit_key" => Call(w).key \in DOMAIN counts
       /\ pc[w] \in {"emit_unlock", "emit_put"} =>
            \E k \in DOMAIN counts : \E n \in 0..counts[k] :
              slot[w] = GenerateShadowKey(k, n)

NumberInv == HandedOut /\ EveryNumberHasItsEmit

ThreadInv == ShapeInv /\ MutexInv /\ FreshInv /\ FileInv

MapInv == ThreadInv /\ JobInv /\ NumberInv

------------------------------------------------------------------------------
\* generate_shadow_key gives every number of every plain key a key of its own.
LEMMA ShadowKeysDiffer ==
  ASSUME NEW k, NEW l, IsPlain(k), IsPlain(l), NEW m \in Nat, NEW n \in Nat,
         GenerateShadowKey(k, m) = GenerateShadowKey(l, n)
  PROVE  k = l /\ m = n
  <1>1. PICK x : k = [name |-> x, marks |-> <<>>]
    BY DEF IsPlain, Key
  <1>2. PICK y : l = [name |-> y, marks |-> <<>>]
    BY DEF IsPlain, Key
  <1>3. GenerateShadowKey(k, m) =
          [name |-> x, marks |-> IF m = 0 THEN <<>> ELSE <<m>>]
    BY <1>1 DEF GenerateShadowKey
  <1>4. GenerateShadowKey(l, n) =
          [name |-> y, marks |-> IF n = 0 THEN <<>> ELSE <<n>>]
    BY <1>2 DEF GenerateShadowKey
  <1> DEFINE Marks(i) == IF i = 0 THEN <<>> ELSE <<i>>
  <1>5. [name |-> x, marks |-> Marks(m)] = [name |-> y, marks |-> Marks(n)]
    BY <1>3, <1>4
  <1> HIDE DEF Marks
  <1>6. x = [name |-> x, marks |-> Marks(m)].name
        /\ y = [name |-> y, marks |-> Marks(n)].name
        /\ Marks(m) = [name |-> x, marks |-> Marks(m)].marks
        /\ Marks(n) = [name |-> y, marks |-> Marks(n)].marks
    OBVIOUS
  <1>7. x = y /\ Marks(m) = Marks(n)
    BY <1>5, <1>6, Zenon
  <1>8. \A i, j \in Nat : Marks(i) = Marks(j) => i = j
    <2> SUFFICES ASSUME NEW i \in Nat, NEW j \in Nat, Marks(i) = Marks(j)
                 PROVE  i = j
      OBVIOUS
    <2>1. Len(Marks(i)) = (IF i = 0 THEN 0 ELSE 1) /\ (i # 0 => Marks(i)[1] = i)
      BY DEF Marks
    <2>2. Len(Marks(j)) = (IF j = 0 THEN 0 ELSE 1) /\ (j # 0 => Marks(j)[1] = j)
      BY DEF Marks
    <2> QED
      BY <2>1, <2>2
  <1> QED
    BY <1>1, <1>2, <1>7, <1>8

\* Increment hands out the number after the last one.
LEMMA IncrementNext ==
  ASSUME NoWrap, counts \in [DOMAIN counts -> Nat], NEW key
  PROVE  LET c == Increment(counts, key) IN
         /\ DOMAIN c = DOMAIN counts \cup {key}
         /\ c \in [DOMAIN c -> Nat]
         /\ \A k \in DOMAIN counts \ {key} : c[k] = counts[k]
         /\ c[key] = IF key \in DOMAIN counts THEN counts[key] + 1 ELSE 0
  <1>1. ASSUME NEW i \in Nat, i + 1 < CountMod PROVE (i + 1) % CountMod = i + 1
    <2>1. CountMod \in Nat \ {0}
      BY MapAssumption
    <2> QED
      BY <1>1, <2>1
  <1>2. key \in DOMAIN counts =>
          counts[key] \in Nat /\ (counts[key] + 1) % CountMod = counts[key] + 1
    BY <1>1 DEF NoWrap
  <1> QED
    BY <1>2 DEF Increment

LEMMA ElementOfSeq ==
  ASSUME NEW S, NEW s \in Seq(S), NEW i \in DOMAIN s
  PROVE  s[i] \in S
  OBVIOUS

\* A worker that takes no record moves on and changes what is its own.
LEMMA WorkerShape ==
  ASSUME ShapeInv, NEW w \in Workers, NEW to \in WorkerPC,
         pc' = [pc EXCEPT ![w] = to],
         UNCHANGED <<mainVars, queue>>,
         \E r \in {job[w], NoRecord} : job' = [job EXCEPT ![w] = r],
         \E i \in {at[w], at[w] + 1} : at' = [at EXCEPT ![w] = i],
         \E s : slot' = [slot EXCEPT ![w] = s]
  PROVE  ShapeInv'
  <1> USE DEF ShapeInv, mainVars
  <1>1. pc' \in [Workers -> WorkerPC]
    OBVIOUS
  <1>2. job' \in [Workers -> Records \cup {NoRecord}]
    OBVIOUS
  <1>3. at' \in [Workers -> Nat \ {0}]
    OBVIOUS
  <1>4. slot' = [v \in Workers |-> slot'[v]]
    OBVIOUS
  <1> QED
    BY <1>1, <1>2, <1>3, <1>4

LEMMA ShapeStep == ShapeInv /\ [Next]_vars => ShapeInv'
  <1> SUFFICES ASSUME ShapeInv, [Next]_vars PROVE ShapeInv'
    OBVIOUS
  <1> USE DEF mainVars, queueVars, workerVars, keyVars, fileVars, totals
  <1>1. CASE UNCHANGED vars
    BY <1>1 DEF vars, ShapeInv
  <1>2. CASE MainThread
    <2>1. CASE \E w \in Workers : CreateThread(w)
      BY <2>1 DEF CreateThread, ShapeInv, WorkerPC
    <2>2. CASE EnqueueRecord
      <3>1. Files[fileNo].records \in Seq(Records)
        <4> DEFINE InputFile == [opens : BOOLEAN, records : Seq(Records)]
        <4>1. Files \in Seq(InputFile)
          BY MapAssumption
        <4>2. fileNo \in DOMAIN Files
          BY <2>2, <4>1 DEF EnqueueRecord, ShapeInv
        <4> HIDE DEF InputFile
        <4>3. Files[fileNo] \in InputFile
          BY <4>1, <4>2, ElementOfSeq
        <4> QED
          BY <4>3 DEF InputFile
      <3>2. Files[fileNo].records[recNo] \in Records
        BY <2>2, <3>1 DEF EnqueueRecord, ShapeInv
      <3> QED
        BY <2>2, <3>2 DEF EnqueueRecord, ShapeInv
    <2>3. CASE ThreadsCreated \/ OpenMapOut \/ OpenMapOutFails \/ OpenInput
                 \/ SkipInput
      BY <2>3 DEF ThreadsCreated, OpenMapOut, OpenMapOutFails, OpenInput, SkipInput,
                  ShapeInv
    <2>4. CASE DropRecord \/ InputComplete \/ CloseQueue \/ JoinWorkers
                 \/ JoinGarbage \/ CloseMapOut
      BY <2>4 DEF DropRecord, InputComplete, CloseQueue, JoinWorkers, JoinGarbage,
                  CloseMapOut, ShapeInv
    <2> QED
      BY <1>2, <2>1, <2>2, <2>3, <2>4 DEF MainThread
  <1>3. ASSUME NEW w \in Workers, Worker(w) PROVE ShapeInv'
    <2>1. CASE StartFails(w) \/ PutFails(w)
      BY <2>1 DEF StartFails, PutFails, ShapeInv
    <2>2. CASE TakeRecord(w)
      <3>1. Head(queue) \in Records /\ Tail(queue) \in Seq(Records)
        BY <2>2 DEF TakeRecord, ShapeInv
      <3> QED
        BY <2>2, <3>1 DEF TakeRecord, Goto, ShapeInv, WorkerPC
    <2>3. job = [job EXCEPT ![w] = job[w]] /\ at = [at EXCEPT ![w] = at[w]]
            /\ slot = [slot EXCEPT ![w] = slot[w]]
      BY DEF ShapeInv
    <2>4. CASE Start(w)
      BY <2>3, <2>4, WorkerShape DEF Start, Goto, WorkerPC
    <2>5. CASE EndThread(w)
      BY <2>3, <2>5, WorkerShape DEF EndThread, Goto, WorkerPC
    <2>6. CASE MapReturns(w)
      BY <2>3, <2>6, WorkerShape DEF MapReturns, Goto, WorkerPC
    <2>7. CASE EmitLoad(w)
      BY <2>3, <2>7, WorkerShape DEF EmitLoad, WorkerPC
    <2>8. CASE EmitAdd(w)
      BY <2>3, <2>8, WorkerShape DEF EmitAdd, Goto, WorkerPC
    <2>9. CASE EmitLock(w)
      BY <2>3, <2>9, WorkerShape DEF EmitLock, Lock, Goto, WorkerPC
    <2>10. CASE EmitIncrement(w)
      BY <2>3, <2>10, WorkerShape DEF EmitIncrement, Goto, WorkerPC
    <2>11. CASE EmitKey(w)
      BY <2>3, <2>11, WorkerShape DEF EmitKey, Goto, WorkerPC
    <2>12. CASE EmitUnlock(w)
      BY <2>3, <2>12, WorkerShape DEF EmitUnlock, Unlock, Goto, WorkerPC
    <2>13. CASE EmitPut(w)
      BY <2>3, <2>13, WorkerShape DEF EmitPut, Return, Goto, WorkerPC
    <2>14. CASE SizeLoad(w)
      BY <2>3, <2>14, WorkerShape DEF SizeLoad, Goto, WorkerPC
    <2>15. CASE SizeAdd(w)
      BY <2>3, <2>15, WorkerShape DEF SizeAdd, Return, Goto, WorkerPC
    <2>16. CASE SetLock(w)
      BY <2>3, <2>16, WorkerShape DEF SetLock, Lock, Goto, WorkerPC
    <2>17. CASE SetLoad(w)
      BY <2>3, <2>17, WorkerShape DEF SetLoad, Goto, WorkerPC
    <2>18. CASE SetAdd(w)
      BY <2>3, <2>18, WorkerShape DEF SetAdd, Goto, WorkerPC
    <2>19. CASE SetUnlock(w)
      BY <2>3, <2>19, WorkerShape DEF SetUnlock, Unlock, Goto, WorkerPC
    <2>20. CASE SetPut(w)
      BY <2>3, <2>20, WorkerShape DEF SetPut, Return, Goto, WorkerPC
    <2> QED
      BY <1>3, <2>1, <2>2, <2>4, <2>5, <2>6, <2>7, <2>8, <2>9, <2>10, <2>11, <2>12,
         <2>13, <2>14, <2>15, <2>16, <2>17, <2>18, <2>19, <2>20 DEF Worker
  <1> QED
    BY <1>1, <1>2, <1>3 DEF Next, Terminated

------------------------------------------------------------------------------
\* Worker w goes to another place and leaves the other workers alone.
Moves(w, to) ==
  /\ pc' = [pc EXCEPT ![w] = to]
  /\ \A v \in Workers \ {w} : /\ job'[v] = job[v]
                              /\ at'[v] = at[v]
                              /\ slot'[v] = slot[v]

\* emit_mutex_ is taken free, and given back by who has it.
LEMMA MutexStep == ShapeInv /\ MutexInv /\ [Next]_vars => MutexInv'
  <1> SUFFICES ASSUME ShapeInv, MutexInv, [Next]_vars PROVE MutexInv'
    OBVIOUS
  <1> USE DEF MutexInv, Critical, keyVars, workerVars
  <1>1. pc \in [Workers -> WorkerPC]
    BY DEF ShapeInv
  <1>2. CASE UNCHANGED vars
    BY <1>2 DEF vars
  <1>3. CASE MainThread
    <2>1. CASE \E w \in Workers : CreateThread(w)
      BY <1>1, <2>1 DEF CreateThread
    <2>2. CASE UNCHANGED <<pc, emitOwner>>
      BY <2>2
    <2> QED
      BY <1>3, <2>1, <2>2 DEF MainThread, ThreadsCreated, OpenMapOut,
        OpenMapOutFails, OpenInput, SkipInput, EnqueueRecord, DropRecord,
        InputComplete, CloseQueue, JoinWorkers, JoinGarbage, CloseMapOut
  <1>4. ASSUME NEW w \in Workers, Worker(w) PROVE MutexInv'
    <2>1. CASE UNCHANGED <<pc, emitOwner>>
      BY <2>1
    <2>2. ASSUME NEW from, NEW to, Goto(w, from, to), UNCHANGED emitOwner,
                 to \in Critical => from \in Critical
          PROVE  MutexInv'
      BY <1>1, <2>2 DEF Goto
    <2>3. ASSUME NEW from, NEW to, Goto(w, from, to), emitOwner = NoThread,
                 emitOwner' = w
          PROVE  MutexInv'
      BY <1>1, <2>3, MapAssumption DEF Goto
    <2>4. ASSUME NEW from, NEW to, Goto(w, from, to), emitOwner' = NoThread,
                 from \in Critical, to \notin Critical
          PROVE  MutexInv'
      BY <1>1, <2>4 DEF Goto
    <2>5. CASE Start(w) \/ StartFails(w) \/ TakeRecord(w) \/ EndThread(w)
                 \/ MapReturns(w) \/ PutFails(w)
      BY <2>1, <2>2, <2>5 DEF Start, StartFails, TakeRecord, EndThread, MapReturns,
                              PutFails
    <2>6. CASE EmitLoad(w)
      BY <1>1, <2>6 DEF EmitLoad, Makes
    <2>7. CASE EmitAdd(w)
      BY <1>1, <2>7 DEF EmitAdd, Goto
    <2>8. CASE EmitLock(w) \/ SetLock(w)
      BY <2>3, <2>8 DEF EmitLock, SetLock, Lock
    <2>9. CASE EmitIncrement(w) \/ EmitKey(w) \/ EmitPut(w)
      BY <2>2, <2>9 DEF EmitIncrement, EmitKey, EmitPut, Return
    <2>10. CASE EmitUnlock(w) \/ SetUnlock(w)
      BY <2>4, <2>10 DEF EmitUnlock, SetUnlock, Unlock
    <2>11. CASE SizeLoad(w) \/ SizeAdd(w)
      BY <2>2, <2>11 DEF SizeLoad, SizeAdd, Return
    <2>12. CASE SetLoad(w) \/ SetAdd(w) \/ SetPut(w)
      BY <2>2, <2>12 DEF SetLoad, SetAdd, SetPut, Return
    <2> QED
      BY <1>4, <2>5, <2>6, <2>7, <2>8, <2>9, <2>10, <2>11, <2>12 DEF Worker
  <1> QED
    BY <1>2, <1>3, <1>4 DEF Next, Terminated, vars

\* Before the file is open nothing is enqueued, so that no worker can start.
LEMMA FreshStep == ShapeInv /\ FreshInv /\ [Next]_vars => FreshInv'
  <1> SUFFICES ASSUME ShapeInv, FreshInv, [Next]_vars PROVE FreshInv'
    OBVIOUS
  <1> USE DEF FreshInv, Waiting, mainVars, queueVars, keyVars, workerVars
  <1>1. pc \in [Workers -> WorkerPC]
    BY DEF ShapeInv
  <1>2. CASE UNCHANGED vars
    BY <1>2 DEF vars
  <1>3. CASE MainThread
    <2>1. CASE \E w \in Workers : CreateThread(w)
      BY <1>1, <2>1 DEF CreateThread
    <2>2. CASE ThreadsCreated \/ OpenMapOut \/ OpenMapOutFails
      BY <2>2 DEF ThreadsCreated, OpenMapOut, OpenMapOutFails
    <2>3. CASE JoinGarbage
      BY <2>3 DEF JoinGarbage
    <2>4. CASE main' \notin {"create", "open"}
      BY <2>4
    <2> QED
      BY <1>3, <2>1, <2>2, <2>3, <2>4 DEF MainThread, OpenInput, SkipInput,
        EnqueueRecord, DropRecord, InputComplete, CloseQueue, JoinWorkers,
        CloseMapOut
  <1>4. ASSUME NEW w \in Workers, Worker(w), main \in {"create", "open"}
        PROVE  FreshInv'
    <2>1. pc[w] \in Waiting /\ queue = <<>>
      BY <1>4
    <2>2. CASE Start(w) \/ EndThread(w)
      BY <1>1, <2>2 DEF Start, EndThread, Goto
    <2>3. CASE StartFails(w)
      BY <2>3 DEF StartFails
    <2> QED
      BY <1>4, <2>1, <2>2, <2>3 DEF Worker, TakeRecord, MapReturns, EmitLoad,
        EmitAdd, EmitLock, EmitIncrement, EmitKey, EmitUnlock, EmitPut, SizeLoad,
        SizeAdd, SetLock, SetLoad, SetAdd, SetUnlock, SetPut, PutFails, Makes,
        Lock, Unlock, Return, Goto
  <1>5. ASSUME NEW w \in Workers, Worker(w) PROVE UNCHANGED main
    BY <1>5 DEF Worker, Start, StartFails, TakeRecord, EndThread, MapReturns,
      EmitLoad, EmitAdd, EmitLock, EmitIncrement, EmitKey, EmitUnlock, EmitPut,
      SizeLoad, SizeAdd, SetLock, SetLoad, SetAdd, SetUnlock, SetPut, PutFails,
      Lock, Unlock
  <1> QED
    BY <1>2, <1>3, <1>4, <1>5 DEF Next, Terminated, vars

\* The main thread closes the file after it joined the workers.
LEMMA FileStep == ShapeInv /\ FileInv /\ [Next]_vars => FileInv'
  <1> SUFFICES ASSUME ShapeInv, FileInv, [Next]_vars PROVE FileInv'
    OBVIOUS
  <1> USE DEF FileInv, mainVars, fileVars, workerVars
  <1>1. CASE UNCHANGED vars
    BY <1>1 DEF vars
  <1>2. CASE MainThread
    <2>1. CASE (\E w \in Workers : CreateThread(w)) \/ ThreadsCreated
      BY <2>1 DEF CreateThread, ThreadsCreated
    <2>2. CASE OpenMapOut \/ OpenMapOutFails \/ OpenInput \/ SkipInput
      BY <2>2 DEF OpenMapOut, OpenMapOutFails, OpenInput, SkipInput
    <2>3. CASE EnqueueRecord \/ DropRecord \/ InputComplete \/ CloseQueue
      BY <2>3 DEF EnqueueRecord, DropRecord, InputComplete, CloseQueue
    <2>4. CASE JoinWorkers \/ JoinGarbage \/ CloseMapOut
      BY <2>4 DEF JoinWorkers, JoinGarbage, CloseMapOut
    <2> QED
      BY <1>2, <2>1, <2>2, <2>3, <2>4 DEF MainThread
  <1>3. ASSUME NEW w \in Workers, Worker(w) PROVE FileInv'
    <2>1. UNCHANGED <<main, dbOpen>>
      BY <1>3 DEF Worker, Start, StartFails, TakeRecord, EndThread, MapReturns,
        EmitLoad, EmitAdd, EmitLock, EmitIncrement, EmitKey, EmitUnlock, EmitPut,
        SizeLoad, SizeAdd, SetLock, SetLoad, SetAdd, SetUnlock, SetPut, PutFails,
        Lock, Unlock
    <2>2. ASSUME pc[w] \in {"ended", "failed"} PROVE FALSE
      BY <1>3, <2>2 DEF Worker, Start, StartFails, TakeRecord, EndThread,
        MapReturns, EmitLoad, EmitAdd, EmitLock, EmitIncrement, EmitKey,
        EmitUnlock, EmitPut, SizeLoad, SizeAdd, SetLock, SetLoad, SetAdd,
        SetUnlock, SetPut, PutFails, Makes, Lock, Unlock, Return, Goto
    <2> QED
      BY <2>1, <2>2
  <1> QED
    BY <1>1, <1>2, <1>3 DEF Next, Terminated, vars

\* The calls map makes for a record are a sequence.
LEMMA CallList ==
  ASSUME ListedCalls, NEW r \in Records
  PROVE  \E S : CallsOf(r) \in Seq(S)
  BY DEF ListedCalls, CallsOf

\* What JobInv says of one worker.
JobOf(w) ==
  /\ pc[w] \notin Waiting => job[w] \in Records
  /\ pc[w] \in EmitPC => at[w] \in DOMAIN CallsOf(job[w]) /\ Call(w).op = "emit"
  /\ pc[w] \in SetPC => at[w] \in DOMAIN CallsOf(job[w]) /\ Call(w).op = "set"

\* A step of one worker is about its own job.
LEMMA JobOfOthers ==
  ASSUME ShapeInv, JobInv, NEW w \in Workers, NEW to, Moves(w, to), JobOf(w)'
  PROVE  JobInv'
  <1>1. ASSUME NEW v \in Workers \ {w} PROVE JobOf(v)'
    <2>1. pc'[v] = pc[v] /\ job'[v] = job[v] /\ at'[v] = at[v]
      BY DEF Moves, ShapeInv
    <2> QED
      BY <2>1 DEF JobInv, JobOf, Call
  <1> QED
    BY <1>1 DEF JobInv, JobOf

\* A worker makes the calls of the record it took, one after the other.
LEMMA JobStep == ListedCalls /\ ShapeInv /\ JobInv /\ [Next]_vars => JobInv'
  <1> SUFFICES ASSUME ListedCalls, ShapeInv, JobInv, [Next]_vars PROVE JobInv'
    OBVIOUS
  <1> USE DEF Waiting, EmitPC, SetPC, workerVars, queueVars
  <1>1. pc \in [Workers -> WorkerPC] /\ job \in [Workers -> Records \cup {NoRecord}]
          /\ at \in [Workers -> Nat \ {0}]
    BY DEF ShapeInv
  <1>2. ASSUME UNCHANGED <<pc, job, at>> PROVE JobInv'
    BY <1>2 DEF JobInv, Call
  <1>3. CASE MainThread
    <2>1. ASSUME NEW w \in Workers, CreateThread(w) PROVE JobInv'
      <3>1. PICK born \in {"start", "failed"} : pc' = [pc EXCEPT ![w] = born]
        BY <2>1 DEF CreateThread
      <3>2. Moves(w, born) /\ JobOf(w)'
        BY <1>1, <2>1, <3>1 DEF CreateThread, Moves, JobOf
      <3> QED
        BY <3>2, JobOfOthers
    <2> QED
      BY <1>2, <1>3, <2>1 DEF MainThread, ThreadsCreated, OpenMapOut,
        OpenMapOutFails, OpenInput, SkipInput, EnqueueRecord, DropRecord,
        InputComplete, CloseQueue, JoinWorkers, JoinGarbage, CloseMapOut
  <1>4. ASSUME NEW w \in Workers, Worker(w) PROVE JobInv'
    <2>1. JobOf(w)
      BY DEF JobInv, JobOf
    <2>2. CASE StartFails(w) \/ PutFails(w)
      BY <1>2, <2>2 DEF StartFails, PutFails
    <2>3. CASE Start(w) \/ EndThread(w) \/ MapReturns(w)
      <3>1. PICK to \in Waiting : pc' = [pc EXCEPT ![w] = to]
        BY <2>3 DEF Start, EndThread, MapReturns, Goto
      <3>2. Moves(w, to) /\ JobOf(w)'
        BY <1>1, <2>3, <3>1 DEF Start, EndThread, MapReturns, Goto, Moves, JobOf
      <3> QED
        BY <3>2, JobOfOthers
    <2>4. CASE TakeRecord(w)
      <3>1. Head(queue) \in Records
        BY <2>4 DEF TakeRecord, ShapeInv
      <3>2. Moves(w, "map") /\ JobOf(w)'
        BY <1>1, <2>4, <3>1 DEF TakeRecord, Goto, Moves, JobOf
      <3> QED
        BY <3>2, JobOfOthers
    <2>5. CASE EmitLoad(w)
      <3>1. job[w] \in Records /\ at[w] <= Len(CallsOf(job[w])) /\ Call(w).op = "emit"
        BY <2>1, <2>5 DEF EmitLoad, Makes, JobOf
      <3>2. \E S : CallsOf(job[w]) \in Seq(S)
        BY <3>1, CallList
      <3>3. at[w] \in DOMAIN CallsOf(job[w])
        BY <1>1, <3>1, <3>2
      <3>4. Moves(w, "emit_add")
        BY <2>5 DEF EmitLoad, Moves
      <3>5. pc'[w] = "emit_add" /\ job' = job /\ at' = at
        BY <1>1, <2>5 DEF EmitLoad
      <3>6. JobOf(w)'
        BY <3>1, <3>3, <3>5 DEF JobOf, Call
      <3> QED
        BY <3>4, <3>6, JobOfOthers
    <2>6. ASSUME NEW from, NEW to, Goto(w, from, to), UNCHANGED <<job, at, slot>>,
                 from \notin Waiting, to \in EmitPC => from \in EmitPC,
                 to \in SetPC => from \in SetPC
          PROVE  JobInv'
      <3>1. Moves(w, to) /\ pc'[w] = to
        BY <1>1, <2>6 DEF Goto, Moves
      <3>2. JobOf(w)'
        BY <2>1, <2>6, <3>1 DEF Goto, JobOf, Call
      <3> QED
        BY <3>1, <3>2, JobOfOthers
    <2>7. CASE EmitAdd(w)
      BY <2>6, <2>7 DEF EmitAdd
    <2>8. CASE EmitLock(w) \/ EmitIncrement(w) \/ EmitUnlock(w)
      BY <2>6, <2>8 DEF EmitLock, EmitIncrement, EmitUnlock, Lock, Unlock
    <2>9. CASE EmitKey(w)
      <3>1. Moves(w, "emit_unlock") /\ pc'[w] = "emit_unlock" /\ job' = job /\ at' = at
        BY <1>1, <2>9 DEF EmitKey, Goto, Moves, ShapeInv
      <3>2. JobOf(w)'
        BY <2>1, <2>9, <3>1 DEF EmitKey, Goto, JobOf, Call
      <3> QED
        BY <3>1, <3>2, JobOfOthers
    <2>10. CASE SizeLoad(w) \/ SetLoad(w) \/ SetAdd(w)
      BY <2>6, <2>10 DEF SizeLoad, SetLoad, SetAdd
    <2>11. CASE SetUnlock(w)
      BY <2>6, <2>11 DEF SetUnlock, Unlock
    <2>13. CASE SetLock(w)
      <3>1. job[w] \in Records /\ at[w] <= Len(CallsOf(job[w])) /\ Call(w).op = "set"
        BY <2>1, <2>13 DEF SetLock, Makes, JobOf
      <3>2. at[w] \in DOMAIN CallsOf(job[w])
        BY <1>1, <3>1, CallList
      <3>3. Moves(w, "set_load")
        BY <2>13 DEF SetLock, Lock, Goto, Moves
      <3>4. pc'[w] = "set_load" /\ job' = job /\ at' = at
        BY <1>1, <2>13 DEF SetLock, Lock, Goto
      <3>5. JobOf(w)'
        BY <3>1, <3>2, <3>4 DEF JobOf, Call
      <3> QED
        BY <3>3, <3>5, JobOfOthers
    <2>12. CASE EmitPut(w) \/ SizeAdd(w) \/ SetPut(w)
      <3>1. Moves(w, "map") /\ pc'[w] = "map" /\ job' = job /\ pc[w] \notin Waiting
        BY <1>1, <2>12 DEF EmitPut, SizeAdd, SetPut, Return, Goto, Moves
      <3>2. JobOf(w)'
        BY <2>1, <3>1 DEF JobOf
      <3> QED
        BY <3>1, <3>2, JobOfOthers
    <2> QED
      BY <1>4, <2>2, <2>3, <2>4, <2>5, <2>7, <2>8, <2>9, <2>10, <2>11, <2>12,
         <2>13 DEF Worker
  <1> QED
    BY <1>2, <1>3, <1>4 DEF Next, Terminated, vars

------------------------------------------------------------------------------
\* Where a worker has a number of its own.
NumberPC == {"emit_key", "emit_unlock", "emit_put"}

\* What HandedOut says of one worker.
NumberOf(w) ==
  /\ pc[w] = "emit_key" => Call(w).key \in DOMAIN counts
  /\ pc[w] \in {"emit_unlock", "emit_put"} =>
       \E k \in DOMAIN counts : \E n \in 0..counts[k] : slot[w] = GenerateShadowKey(k, n)

\* The workers that do not move keep what they have in hand.
LEMMA HandsOfOthers ==
  ASSUME ShapeInv, HandedOut, NEW w \in Workers, NEW to, Moves(w, to),
         UNCHANGED counts, NEW v \in Workers \ {w}
  PROVE  InHand(v)' = InHand(v) /\ NumberOf(v)'
  <1>1. pc'[v] = pc[v] /\ job'[v] = job[v] /\ at'[v] = at[v] /\ slot'[v] = slot[v]
    BY DEF Moves, ShapeInv
  <1>2. Call(v)' = Call(v)
    BY <1>1 DEF Call
  <1>3. InHand(v)' = InHand(v)
    BY <1>1, <1>2 DEF InHand
  <1>4. NumberOf(v)'
    BY <1>1, <1>2 DEF NumberOf, HandedOut
  <1> QED
    BY <1>3, <1>4

\* A step that hands out no number and keeps the file's keys, by a worker
\* whose hand stays as it is.
LEMMA SameNumbers ==
  ASSUME ShapeInv, NumberInv, NEW w \in Workers, NEW to, Moves(w, to),
         UNCHANGED counts, DOMAIN db \subseteq DOMAIN db',
         InHand(w)' = InHand(w), NumberOf(w)'
  PROVE  NumberInv'
  <1>1. ASSUME NEW v \in Workers PROVE InHand(v)' = InHand(v) /\ NumberOf(v)'
    BY HandsOfOthers DEF NumberInv
  <1>2. HandedOut'
    BY <1>1 DEF NumberInv, HandedOut, NumberOf
  <1>3. EveryNumberHasItsEmit'
    BY <1>1 DEF NumberInv, EveryNumberHasItsEmit
  <1> QED
    BY <1>2, <1>3 DEF NumberInv

\* A worker that has no number before the step or after it.
LEMMA NoNumber ==
  ASSUME ShapeInv, NumberInv, NEW w \in Workers, NEW to, Moves(w, to),
         pc[w] \notin NumberPC, to \notin NumberPC,
         UNCHANGED counts, DOMAIN db \subseteq DOMAIN db'
  PROVE  NumberInv'
  <1>1. pc'[w] = to
    BY DEF Moves, ShapeInv
  <1>2. InHand(w)' = InHand(w) /\ NumberOf(w)'
    BY <1>1 DEF InHand, NumberOf, NumberPC
  <1> QED
    BY <1>2, SameNumbers

\* increment_and_return_shadow_key hands out a number nobody else has.
LEMMA IncrementNumbers ==
  ASSUME PlainEmits, NoWrap, ShapeInv, MutexInv, JobInv, NumberInv,
         NEW w \in Workers, EmitIncrement(w)
  PROVE  NumberInv'
  <1> DEFINE key == Call(w).key
  <1>1. /\ pc[w] = "emit_incr" /\ pc' = [pc EXCEPT ![w] = "emit_key"]
        /\ UNCHANGED <<job, at, slot, emitOwner, db>>
        /\ counts' = Increment(counts, key)
    BY DEF EmitIncrement, Goto, fileVars
  <1>2. pc'[w] = "emit_key" /\ \A v \in Workers \ {w} : pc'[v] = pc[v]
    BY <1>1 DEF ShapeInv
  <1>3. \A v \in Workers : Call(v)' = Call(v)
    BY <1>1 DEF Call
  <1>4. IsPlain(key)
    <2>1. job[w] \in Records /\ at[w] \in DOMAIN CallsOf(job[w]) /\ Call(w).op = "emit"
      BY <1>1 DEF JobInv, EmitPC, Waiting
    <2>2. CallsOf(job[w]) = Calls[job[w]]
      BY <2>1 DEF CallsOf
    <2> QED
      BY <2>1, <2>2 DEF PlainEmits, Call, IsPlain
  <1>5. /\ DOMAIN counts' = DOMAIN counts \cup {key}
        /\ counts' \in [DOMAIN counts' -> Nat]
        /\ \A k \in DOMAIN counts \ {key} : counts'[k] = counts[k]
        /\ counts'[key] = IF key \in DOMAIN counts THEN counts[key] + 1 ELSE 0
    BY <1>1, IncrementNext DEF NumberInv, HandedOut
  <1> HIDE DEF key
  <1>6. \A k \in DOMAIN counts : counts[k] \in Nat /\ IsPlain(k)
    BY DEF NumberInv, HandedOut
  <1>7. \A k \in DOMAIN counts : counts[k] <= counts'[k] /\ counts'[k] \in Nat
    BY <1>5, <1>6
  <1>8. InHand(w)' = {GenerateShadowKey(key, counts'[key])}
    BY <1>2, <1>3, <1>5 DEF InHand, CurrentShadowKey, KeyCount, key
  <1>9. ASSUME NEW v \in Workers \ {w}
        PROVE  /\ pc[v] # "emit_key" /\ pc[v] # "emit_unlock"
               /\ InHand(v)' = InHand(v)
               /\ InHand(v) = IF pc[v] = "emit_put" THEN {slot[v]} ELSE {}
    <2>1. pc[v] \notin Critical
      BY <1>1 DEF MutexInv, Critical
    <2> QED
      BY <1>1, <1>2, <1>3, <2>1 DEF InHand, Critical
  <1>10. ASSUME NEW v \in Workers \ {w}, pc[v] = "emit_put"
         PROVE  \E k \in DOMAIN counts : \E n \in 0..counts[k] :
                  slot[v] = GenerateShadowKey(k, n)
    BY <1>10 DEF NumberInv, HandedOut
  <1>11. ASSUME NEW v \in Workers \ {w} PROVE InHand(v)' \cap InHand(w)' = {}
    <2> SUFFICES ASSUME pc[v] = "emit_put",
                        slot[v] = GenerateShadowKey(key, counts'[key])
                 PROVE  FALSE
      BY <1>8, <1>9
    <2>4. PICK k \in DOMAIN counts : \E n \in 0..counts[k] :
            slot[v] = GenerateShadowKey(k, n)
      BY <1>10
    <2>1. PICK n \in 0..counts[k] : slot[v] = GenerateShadowKey(k, n)
      BY <2>4
    <2>2. n \in Nat /\ counts'[key] \in Nat /\ IsPlain(k)
      BY <1>5, <1>6, <2>1
    <2>3. k = key /\ n = counts'[key]
      <3> DEFINE number == counts'[key]
      <3>1. GenerateShadowKey(k, n) = GenerateShadowKey(key, number) /\ number \in Nat
        BY <2>1, <2>2
      <3> HIDE DEF number
      <3>2. k = key /\ n = number
        BY <1>4, <2>2, <3>1, ShadowKeysDiffer
      <3> QED
        BY <3>2 DEF number
    <2> QED
      BY <1>5, <1>6, <2>1, <2>3
  <1>12. HandedOut'
    <2>1. \A k \in DOMAIN counts' : IsPlain(k)
      BY <1>4, <1>5, <1>6
    <2>2. ASSUME NEW v \in Workers PROVE NumberOf(v)'
      <3>1. CASE v = w
        BY <1>2, <1>3, <1>5, <3>1 DEF NumberOf, key
      <3>2. CASE v # w
        <4> SUFFICES ASSUME pc[v] = "emit_put"
                     PROVE  \E k \in DOMAIN counts' : \E n \in 0..counts'[k] :
                              slot'[v] = GenerateShadowKey(k, n)
          BY <1>2, <1>9, <3>2 DEF NumberOf
        <4>3. PICK k \in DOMAIN counts : \E n \in 0..counts[k] :
                slot[v] = GenerateShadowKey(k, n)
          BY <1>10, <3>2
        <4>1. PICK n \in 0..counts[k] : slot[v] = GenerateShadowKey(k, n)
          BY <4>3
        <4>2. k \in DOMAIN counts' /\ n \in 0..counts'[k] /\ slot'[v] = slot[v]
          BY <1>1, <1>5, <1>6, <1>7, <4>1
        <4> QED
          BY <4>1, <4>2
      <3> QED
        BY <3>1, <3>2
    <2> QED
      BY <1>5, <2>1, <2>2 DEF HandedOut, NumberOf
  <1>13. ASSUME NEW k \in DOMAIN counts', NEW n \in 0..counts'[k]
         PROVE  \/ GenerateShadowKey(k, n) \in DOMAIN db'
                \/ \E v \in Workers : GenerateShadowKey(k, n) \in InHand(v)'
    <2>1. CASE k = key /\ n = counts'[key]
      BY <1>8, <2>1
    <2>2. CASE k \in DOMAIN counts /\ n \in 0..counts[k]
      <3>1. \/ GenerateShadowKey(k, n) \in DOMAIN db
            \/ \E v \in Workers : GenerateShadowKey(k, n) \in InHand(v)
        BY <2>2 DEF NumberInv, EveryNumberHasItsEmit
      <3>2. InHand(w) = {}
        BY <1>1 DEF InHand
      <3> QED
        BY <1>1, <1>9, <3>1, <3>2
    <2> QED
      BY <1>5, <1>6, <2>1, <2>2
  <1>14. ASSUME NEW u \in Workers, NEW v \in Workers, u # v
         PROVE  InHand(u)' \cap InHand(v)' = {}
    <2>1. CASE u = w \/ v = w
      BY <1>11, <1>14, <2>1
    <2>2. CASE u # w /\ v # w
      <3>1. InHand(u) \cap InHand(v) = {}
        BY <1>14 DEF NumberInv, EveryNumberHasItsEmit
      <3> QED
        BY <1>9, <2>2, <3>1
    <2> QED
      BY <2>1, <2>2
  <1>15. EveryNumberHasItsEmit'
    BY <1>13, <1>14 DEF EveryNumberHasItsEmit
  <1> QED
    BY <1>12, <1>15 DEF NumberInv

\* Every step hands out, keeps or stores the numbers one by one.
LEMMA NumberStep ==
  ASSUME PlainEmits, NoWrap, ShapeInv, MutexInv, JobInv, FreshInv, NumberInv,
         [Next]_vars
  PROVE  NumberInv'
  <1> USE DEF workerVars, keyVars, fileVars
  <1>1. ASSUME UNCHANGED <<pc, job, at, slot, counts, db>> PROVE NumberInv'
    <2>1. ASSUME NEW v \in Workers PROVE InHand(v)' = InHand(v) /\ NumberOf(v)'
      BY <1>1 DEF InHand, NumberOf, NumberInv, HandedOut, Call
    <2>2. HandedOut'
      BY <1>1, <2>1 DEF NumberInv, HandedOut, NumberOf
    <2>3. EveryNumberHasItsEmit'
      BY <1>1, <2>1 DEF NumberInv, EveryNumberHasItsEmit
    <2> QED
      BY <2>2, <2>3 DEF NumberInv
  <1>2. CASE MainThread
    <2>1. ASSUME NEW w \in Workers, CreateThread(w) PROVE NumberInv'
      <3>1. PICK born \in {"start", "failed"} : pc' = [pc EXCEPT ![w] = born]
        BY <2>1 DEF CreateThread
      <3>2. /\ Moves(w, born) /\ born \notin NumberPC /\ pc[w] \notin NumberPC
            /\ UNCHANGED <<counts, db>>
        BY <2>1, <3>1 DEF CreateThread, Moves, NumberPC
      <3> QED
        BY <3>2, NoNumber
    <2>2. CASE OpenMapOut
      <3>1. counts' = EmptyMap /\ \A v \in Workers : pc'[v] \in Waiting
        BY <2>2 DEF OpenMapOut, FreshInv
      <3>2. \A v \in Workers : InHand(v)' = {}
        BY <3>1 DEF InHand, Waiting
      <3>3. DOMAIN counts' = {} /\ counts' \in [DOMAIN counts' -> Nat]
        BY <3>1 DEF EmptyMap
      <3>4. HandedOut'
        BY <3>1, <3>3 DEF HandedOut, Waiting
      <3>5. EveryNumberHasItsEmit'
        BY <3>2, <3>3 DEF EveryNumberHasItsEmit
      <3> QED
        BY <3>4, <3>5 DEF NumberInv
    <2> QED
      BY <1>1, <1>2, <2>1, <2>2 DEF MainThread, ThreadsCreated, OpenMapOutFails,
        OpenInput, SkipInput, EnqueueRecord, DropRecord, InputComplete, CloseQueue,
        JoinWorkers, JoinGarbage, CloseMapOut
  <1>3. ASSUME NEW w \in Workers, Worker(w) PROVE NumberInv'
    <2>1. NumberOf(w)
      BY DEF NumberInv, HandedOut, NumberOf
    <2>2. ASSUME NEW from, NEW to, Goto(w, from, to), UNCHANGED <<counts, db>>,
                 from \notin NumberPC, to \notin NumberPC,
                 \A v \in Workers \ {w} : /\ job'[v] = job[v]
                                         /\ at'[v] = at[v]
                                         /\ slot'[v] = slot[v]
          PROVE  NumberInv'
      BY <2>2, NoNumber DEF Goto, Moves
    <2>3. job \in [Workers -> Records \cup {NoRecord}] /\ at \in [Workers -> Nat \ {0}]
            /\ pc \in [Workers -> WorkerPC]
      BY DEF ShapeInv
    <2>4. CASE Start(w) \/ StartFails(w) \/ EndThread(w) \/ PutFails(w)
      BY <1>1, <2>2, <2>4 DEF Start, StartFails, EndThread, PutFails, NumberPC
    <2>5. CASE TakeRecord(w) \/ MapReturns(w)
      BY <2>2, <2>3, <2>5 DEF TakeRecord, MapReturns, NumberPC
    <2>6. CASE EmitLoad(w)
      <3>1. Goto(w, "map", "emit_add")
        BY <2>6 DEF EmitLoad, Makes, Goto
      <3> QED
        BY <2>2, <2>6, <3>1 DEF EmitLoad, NumberPC
    <2>7. CASE EmitAdd(w)
      <3>1. PICK to \in {"size_load", "emit_lock"} : Goto(w, "emit_add", to)
        BY <2>7 DEF EmitAdd
      <3> QED
        BY <2>2, <2>7, <3>1 DEF EmitAdd, NumberPC
    <2>8. CASE EmitLock(w) \/ SetLock(w)
      BY <2>2, <2>8 DEF EmitLock, SetLock, Lock, NumberPC
    <2>9. CASE EmitIncrement(w)
      BY <2>9, IncrementNumbers
    <2>10. CASE EmitKey(w)
      <3>1. /\ pc[w] = "emit_key" /\ pc' = [pc EXCEPT ![w] = "emit_unlock"]
            /\ UNCHANGED <<job, at, counts, db>>
            /\ slot' = [slot EXCEPT ![w] = CurrentShadowKey(counts, Call(w).key)]
        BY <2>10 DEF EmitKey, Goto
      <3>2. pc'[w] = "emit_unlock" /\ slot'[w] = CurrentShadowKey(counts, Call(w).key)
        BY <3>1 DEF ShapeInv
      <3>3. Moves(w, "emit_unlock")
        BY <3>1 DEF Moves, ShapeInv
      <3>4. InHand(w)' = InHand(w)
        BY <3>1, <3>2 DEF InHand
      <3>5. Call(w).key \in DOMAIN counts /\ counts[Call(w).key] \in Nat
        BY <2>1, <3>1 DEF NumberOf, NumberInv, HandedOut
      <3>6. slot'[w] = GenerateShadowKey(Call(w).key, counts[Call(w).key])
        BY <3>2, <3>5 DEF CurrentShadowKey, KeyCount
      <3>7. \E k \in DOMAIN counts : \E n \in 0..counts[k] :
              slot'[w] = GenerateShadowKey(k, n)
        BY <3>5, <3>6
      <3>8. NumberOf(w)'
        BY <3>1, <3>2, <3>7 DEF NumberOf
      <3> QED
        BY <3>1, <3>3, <3>4, <3>8, SameNumbers
    <2>11. CASE EmitUnlock(w)
      <3>1. /\ pc[w] = "emit_unlock" /\ pc' = [pc EXCEPT ![w] = "emit_put"]
            /\ UNCHANGED <<job, at, slot, counts, db>>
        BY <2>11 DEF EmitUnlock, Unlock, Goto
      <3>2. Moves(w, "emit_put") /\ pc'[w] = "emit_put"
        BY <2>3, <3>1 DEF Moves
      <3>3. InHand(w)' = InHand(w) /\ NumberOf(w)'
        BY <2>1, <3>1, <3>2 DEF InHand, NumberOf
      <3> QED
        BY <3>1, <3>2, <3>3, SameNumbers
    <2>12. CASE EmitPut(w)
      <3>1. /\ pc[w] = "emit_put" /\ pc' = [pc EXCEPT ![w] = "map"]
            /\ UNCHANGED <<job, slot, counts>>
            /\ at' = [at EXCEPT ![w] = @ + 1]
            /\ DOMAIN db' = DOMAIN db \cup {slot[w]}
        BY <2>12 DEF EmitPut, Return, Goto, Put
      <3>2. Moves(w, "map") /\ pc'[w] = "map"
        BY <2>3, <3>1 DEF Moves
      <3>3. InHand(w) = {slot[w]} /\ InHand(w)' = {} /\ NumberOf(w)'
        BY <3>1, <3>2 DEF InHand, NumberOf
      <3>4. ASSUME NEW v \in Workers \ {w}
            PROVE  InHand(v)' = InHand(v) /\ NumberOf(v)'
        BY <3>1, <3>2, HandsOfOthers DEF NumberInv
      <3>5. HandedOut'
        BY <3>1, <3>3, <3>4 DEF NumberInv, HandedOut, NumberOf
      <3>6. EveryNumberHasItsEmit'
        BY <3>1, <3>3, <3>4 DEF NumberInv, EveryNumberHasItsEmit
      <3> QED
        BY <3>5, <3>6 DEF NumberInv
    <2>13. CASE SizeLoad(w) \/ SetLoad(w) \/ SetAdd(w) \/ SetUnlock(w)
      BY <2>2, <2>13 DEF SizeLoad, SetLoad, SetAdd, SetUnlock, Unlock, NumberPC
    <2>14. CASE SizeAdd(w)
      BY <2>2, <2>3, <2>14 DEF SizeAdd, Return, NumberPC
    <2>15. CASE SetPut(w)
      <3>1. /\ pc[w] = "set_put" /\ pc' = [pc EXCEPT ![w] = "map"]
            /\ UNCHANGED <<job, slot, counts>>
            /\ at' = [at EXCEPT ![w] = @ + 1]
            /\ DOMAIN db \subseteq DOMAIN db'
        BY <2>15 DEF SetPut, Return, Goto, Put
      <3>2. Moves(w, "map")
        BY <2>3, <3>1 DEF Moves
      <3> QED
        BY <3>1, <3>2, NoNumber DEF NumberPC
    <2> QED
      BY <1>3, <2>4, <2>5, <2>6, <2>7, <2>8, <2>9, <2>10, <2>11, <2>12, <2>13,
         <2>14, <2>15 DEF Worker
  <1> QED
    BY <1>1, <1>2, <1>3 DEF Next, Terminated, vars

------------------------------------------------------------------------------
(* The type invariant.                                                     *)

\* A shadow key keeps the name of the key it was made from.
LEMMA NameKept ==
  ASSUME NEW key, \E name, marks : key = Key(name, marks), NEW n \in Nat
  PROVE  GenerateShadowKey(key, n).name = key.name
  BY DEF GenerateShadowKey, Key

\* A call of emit is one of those Calls lists.
LEMMA EmitListed ==
  ASSUME JobInv, NEW w \in Workers, pc[w] \in EmitPC
  PROVE  /\ Call(w) = Calls[job[w]][at[w]]
         /\ job[w] \in Records /\ at[w] \in DOMAIN Calls[job[w]]
         /\ Call(w).key \in EmitKeys
  <1>1. /\ job[w] \in Records
        /\ at[w] \in DOMAIN CallsOf(job[w])
        /\ Call(w).op = "emit"
    BY DEF JobInv, EmitPC, Waiting
  <1>2. job[w] \notin Refused
    BY <1>1 DEF CallsOf
  <1>3. CallsOf(job[w]) = Calls[job[w]] /\ Call(w) = Calls[job[w]][at[w]]
    BY <1>2 DEF CallsOf, Call
  <1>4. Call(w) \in ToSet(CallsOf(job[w]))
    BY <1>1 DEF Call, ToSet
  <1>5. Call(w) \in CallsTo("emit")
    BY <1>1, <1>4 DEF CallsTo
  <1> QED
    BY <1>1, <1>3, <1>5 DEF EmitKeys

\* What TypeOK says beyond ShapeInv.
Types ==
  /\ env \in Environments
  /\ main \in {"create", "open", "pick", "read", "join", "end", "exited"}
  /\ fileNo \in 1..Len(Files) + 1
  /\ qdone \in BOOLEAN
  /\ emitOwner \in Workers \cup {NoThread}
  /\ dbOpen \in BOOLEAN
  /\ dead \in BOOLEAN

TotalTypes ==
  /\ reg \in [Workers -> Nat]
  /\ emit_count_ \in Nat /\ set_count_ \in Nat /\ emit_size_estimate_ \in Nat

KeyTypes ==
  /\ counts \in [DOMAIN counts -> 0..CountMod - 1]
  /\ DOMAIN counts \subseteq EmitKeys
  /\ \A w \in Workers : slot[w] = NoKey \/ slot[w].name \in {k.name : k \in EmitKeys}

TakenTypes == taken \in Seq([by : Workers, item : Records])

LEMMA TypesStep == ShapeInv /\ Types /\ [Next]_vars => Types'
  <1> SUFFICES ASSUME ShapeInv, Types, [Next]_vars PROVE Types'
    OBVIOUS
  <1> USE DEF mainVars, queueVars, workerVars, keyVars, fileVars, totals
  <1>0. Len(Files) \in Nat
    BY MapAssumption
  <1>1. CASE UNCHANGED vars
    BY <1>1 DEF vars, Types
  <1>2. CASE MainThread
    <2>1. CASE (\E w \in Workers : CreateThread(w)) \/ ThreadsCreated
      BY <1>2, <2>1 DEF MainThread, CreateThread, ThreadsCreated, Types
    <2>2. CASE OpenMapOut \/ OpenMapOutFails \/ OpenInput
      BY <1>2, <2>2 DEF MainThread, OpenMapOut, OpenMapOutFails, Abort, OpenInput, Types
    <2>3. CASE SkipInput \/ InputComplete
      <3>1. fileNo <= Len(Files) /\ fileNo' = fileNo + 1
        BY <2>3 DEF SkipInput, InputComplete, ShapeInv
      <3>2. fileNo' \in 1..Len(Files) + 1
        BY <1>0, <3>1 DEF Types
      <3> QED
        BY <1>2, <2>3, <3>2 DEF MainThread, SkipInput, InputComplete, Types
    <2>4. CASE EnqueueRecord \/ DropRecord \/ CloseQueue
      BY <1>2, <2>4 DEF MainThread, EnqueueRecord, DropRecord, CloseQueue, Types
    <2>5. CASE JoinWorkers \/ JoinGarbage \/ CloseMapOut
      BY <1>2, <2>5 DEF MainThread, JoinWorkers, JoinGarbage, Abort, CloseMapOut, Types
    <2> QED
      BY <1>2, <2>1, <2>2, <2>3, <2>4, <2>5 DEF MainThread
  <1>3. ASSUME NEW w \in Workers, Worker(w) PROVE Types'
    <2>1. /\ UNCHANGED <<env, mainVars, qdone, dbOpen>>
          /\ dead' \in {dead, TRUE}
      BY <1>3 DEF Worker, Start, StartFails, TakeRecord, EndThread, MapReturns, EmitLoad,
        EmitAdd, EmitLock, EmitIncrement, EmitKey, EmitUnlock, EmitPut, SizeLoad, SizeAdd,
        SetLock, SetLoad, SetAdd, SetUnlock, SetPut, PutFails, Abort, Lock, Unlock
    <2>2. emitOwner' \in {emitOwner, NoThread, w}
      BY <1>3 DEF Worker, Start, StartFails, TakeRecord, EndThread, MapReturns, EmitLoad,
        EmitAdd, EmitLock, EmitIncrement, EmitKey, EmitUnlock, EmitPut, SizeLoad, SizeAdd,
        SetLock, SetLoad, SetAdd, SetUnlock, SetPut, PutFails, Lock, Unlock
    <2> QED
      BY <2>1, <2>2 DEF Types
  <1> QED
    BY <1>1, <1>2, <1>3 DEF Next, Terminated

LEMMA TotalTypesStep ==
  ProperCalls /\ JobInv /\ TotalTypes /\ [Next]_vars => TotalTypes'
  <1> SUFFICES ASSUME ProperCalls, JobInv, TotalTypes, [Next]_vars PROVE TotalTypes'
    OBVIOUS
  <1> USE DEF workerVars, totals
  <1>1. ASSUME UNCHANGED <<reg, totals>> PROVE TotalTypes'
    BY <1>1 DEF TotalTypes
  <1>2. CASE UNCHANGED vars \/ MainThread
    BY <1>1, <1>2 DEF vars, MainThread, CreateThread, ThreadsCreated, OpenMapOut,
      OpenMapOutFails, OpenInput, SkipInput, EnqueueRecord, DropRecord, InputComplete,
      CloseQueue, JoinWorkers, JoinGarbage, CloseMapOut
  <1>3. ASSUME NEW w \in Workers, Worker(w) PROVE TotalTypes'
    <2>1. CASE Start(w) \/ StartFails(w) \/ TakeRecord(w) \/ EndThread(w) \/ MapReturns(w)
                 \/ EmitLock(w) \/ EmitIncrement(w) \/ EmitKey(w) \/ EmitUnlock(w)
                 \/ EmitPut(w) \/ SetLock(w) \/ SetUnlock(w) \/ SetPut(w) \/ PutFails(w)
      BY <1>1, <2>1 DEF Start, StartFails, TakeRecord, EndThread, MapReturns, EmitLock,
        EmitIncrement, EmitKey, EmitUnlock, EmitPut, SetLock, SetUnlock, SetPut, PutFails,
        Lock, Unlock
    <2>2. CASE EmitLoad(w) \/ SizeLoad(w) \/ SetLoad(w)
      BY <2>2 DEF EmitLoad, SizeLoad, SetLoad, TotalTypes
    <2>3. CASE EmitAdd(w) \/ SetAdd(w)
      BY <2>3 DEF EmitAdd, SetAdd, TotalTypes
    <2>4. CASE SizeAdd(w)
      <3>1. pc[w] \in EmitPC
        BY <2>4 DEF SizeAdd, Return, Goto, EmitPC
      <3>2. Call(w).size \in Nat
        BY <3>1, EmitListed DEF ProperCalls
      <3> QED
        BY <2>4, <3>2 DEF SizeAdd, TotalTypes
    <2> QED
      BY <1>3, <2>1, <2>2, <2>3, <2>4 DEF Worker
  <1> QED
    BY <1>2, <1>3 DEF Next, Terminated

LEMMA KeyTypesStep ==
  ProperCalls /\ ShapeInv /\ JobInv /\ KeyTypes /\ [Next]_vars => KeyTypes'
  <1> SUFFICES ASSUME ProperCalls, ShapeInv, JobInv, KeyTypes, [Next]_vars PROVE KeyTypes'
    OBVIOUS
  <1> USE DEF workerVars, keyVars
  <1>1. ASSUME UNCHANGED <<counts, slot>> PROVE KeyTypes'
    BY <1>1 DEF KeyTypes
  <1>2. CASE UNCHANGED vars \/ MainThread
    BY <1>1, <1>2 DEF vars, MainThread, CreateThread, ThreadsCreated, OpenMapOut,
      OpenMapOutFails, OpenInput, SkipInput, EnqueueRecord, DropRecord, InputComplete,
      CloseQueue, JoinWorkers, JoinGarbage, CloseMapOut
  <1>3. ASSUME NEW w \in Workers, Worker(w) PROVE KeyTypes'
    <2>1. CASE Start(w) \/ StartFails(w) \/ TakeRecord(w) \/ EndThread(w) \/ MapReturns(w)
                 \/ EmitLoad(w) \/ EmitAdd(w) \/ EmitLock(w) \/ EmitUnlock(w) \/ EmitPut(w)
                 \/ SizeLoad(w) \/ SizeAdd(w) \/ SetLock(w) \/ SetLoad(w) \/ SetAdd(w)
                 \/ SetUnlock(w) \/ SetPut(w) \/ PutFails(w)
      BY <1>1, <2>1 DEF Start, StartFails, TakeRecord, EndThread, MapReturns, EmitLoad,
        EmitAdd, EmitLock, EmitUnlock, EmitPut, SizeLoad, SizeAdd, SetLock, SetLoad, SetAdd,
        SetUnlock, SetPut, PutFails, Lock, Unlock
    <2>2. CASE EmitIncrement(w)
      <3> DEFINE key == Call(w).key
      <3>1. counts' = Increment(counts, key) /\ slot' = slot /\ pc[w] \in EmitPC
        BY <2>2 DEF EmitIncrement, Goto, EmitPC
      <3>2. key \in EmitKeys
        BY <3>1, EmitListed
      <3> HIDE DEF key
      <3>3. CountMod \in Nat \ {0} /\ \A i \in Nat : i % CountMod \in 0..CountMod - 1
        BY MapAssumption
      <3>4. \A k \in DOMAIN counts : counts[k] \in 0..CountMod - 1
        BY DEF KeyTypes
      <3>5. \A k \in DOMAIN counts : (counts[k] + 1) % CountMod \in 0..CountMod - 1
        <4> TAKE k \in DOMAIN counts
        <4>1. counts[k] + 1 \in Nat
          BY <3>3, <3>4
        <4> QED
          BY <3>3, <4>1
      <3>6. /\ DOMAIN counts' = DOMAIN counts \cup {key}
            /\ counts' \in [DOMAIN counts' -> 0..CountMod - 1]
        BY <3>1, <3>3, <3>4, <3>5 DEF Increment
      <3> QED
        BY <3>1, <3>2, <3>6 DEF KeyTypes
    <2>3. CASE EmitKey(w)
      <3> DEFINE key == Call(w).key
                 made == CurrentShadowKey(counts, key)
      <3>1. /\ counts' = counts /\ slot' = [slot EXCEPT ![w] = made] /\ pc[w] \in EmitPC
        BY <2>3 DEF EmitKey, Goto, EmitPC
      <3>2. key \in EmitKeys /\ \E name, marks : key = Key(name, marks)
        BY <3>1, EmitListed DEF ProperCalls
      <3> HIDE DEF key
      <3>3. KeyCount(counts, key) \in Nat
        BY MapAssumption DEF KeyTypes, KeyCount
      <3>4. made.name = key.name
        BY <3>2, <3>3, NameKept DEF CurrentShadowKey
      <3> HIDE DEF made
      <3>5. ASSUME NEW v \in Workers
            PROVE  slot'[v] = NoKey \/ slot'[v].name \in {k.name : k \in EmitKeys}
        <4>1. slot'[v] = IF v = w THEN made ELSE slot[v]
          BY <3>1 DEF ShapeInv
        <4> QED
          BY <3>2, <3>4, <4>1 DEF KeyTypes
      <3>6. EmitKeys' = EmitKeys
        BY DEF EmitKeys, CallsTo, CallsOf
      <3> QED
        BY <3>1, <3>5, <3>6 DEF KeyTypes
    <2> QED
      BY <1>3, <2>1, <2>2, <2>3 DEF Worker
  <1> QED
    BY <1>2, <1>3 DEF Next, Terminated

LEMMA TakenTypesStep == ShapeInv /\ TakenTypes /\ [Next]_vars => TakenTypes'
  <1> SUFFICES ASSUME ShapeInv, TakenTypes, [Next]_vars PROVE TakenTypes'
    OBVIOUS
  <1> USE DEF queueVars
  <1>1. CASE UNCHANGED vars \/ MainThread
    BY <1>1 DEF vars, TakenTypes, MainThread, CreateThread, ThreadsCreated, OpenMapOut,
      OpenMapOutFails, OpenInput, SkipInput, EnqueueRecord, DropRecord, InputComplete,
      CloseQueue, JoinWorkers, JoinGarbage, CloseMapOut
  <1>2. ASSUME NEW w \in Workers, Worker(w) PROVE TakenTypes'
    <2>1. CASE TakeRecord(w)
      <3> DEFINE entry == [by |-> w, item |-> Head(queue)]
                 Taking == [by : Workers, item : Records]
      <3>1. queue # <<>> /\ taken' = Append(taken, entry)
        BY <2>1 DEF TakeRecord
      <3>2. Head(queue) \in Records
        BY <3>1 DEF ShapeInv
      <3>3. entry \in Taking /\ taken \in Seq(Taking)
        BY <3>2 DEF TakenTypes
      <3> HIDE DEF entry, Taking
      <3>4. taken' \in Seq(Taking)
        BY <3>1, <3>3
      <3> QED
        BY <3>4 DEF TakenTypes, Taking
    <2>2. CASE ~TakeRecord(w)
      <3>1. UNCHANGED taken
        BY <1>2, <2>2 DEF Worker, Start, StartFails, EndThread, MapReturns, EmitLoad,
          EmitAdd, EmitLock, EmitIncrement, EmitKey, EmitUnlock, EmitPut, SizeLoad, SizeAdd,
          SetLock, SetLoad, SetAdd, SetUnlock, SetPut, PutFails, Lock, Unlock
      <3> QED
        BY <3>1 DEF TakenTypes
    <2> QED
      BY <2>1, <2>2
  <1> QED
    BY <1>1, <1>2 DEF Next, Terminated

------------------------------------------------------------------------------
(* The totals.                                                             *)

\* Where the call a worker is at is not counted yet: for a set, an emit, and the
\* size of an emit; and where an emit has not put its value.
SetEarly  == {"map", "set_load", "set_add"}
EmitEarly == {"map", "emit_add"}
SizeEarly == {"map", "emit_add", "size_load", "size_add"}
PutEarly  == {"map", "emit_add", "emit_lock", "emit_incr", "emit_key", "emit_unlock", "emit_put"}

\* Worker w dequeued number i, and nothing since.
LastOf(w, i) ==
  /\ i \in DOMAIN taken
  /\ taken[i].by = w
  /\ \A k \in DOMAIN taken : taken[k].by = w => k <= i

\* The calls to op of its record a worker has not counted yet.
Late(w, op, early) ==
  IF pc[w] \in Waiting THEN {}
  ELSE {j \in DOMAIN CallsOf(job[w]) :
          /\ CallsOf(job[w])[j].op = op
          /\ j > at[w] \/ (j = at[w] /\ pc[w] \in early)}

Counted(op, early) ==
  {call \in CallsMade(op) :
     \A w \in Workers : LastOf(w, call[1]) => call[2] \notin Late(w, op, early)}

\* A worker runs the record it dequeued last.
LastInv ==
  \A w \in Workers :
    pc[w] \notin Waiting => \E i \in DOMAIN taken : LastOf(w, i) /\ taken[i].item = job[w]

\* The sets are counted one by one; an emit that overwrites the count of another
\* leaves less than there are, never more.
SetTotal ==
  /\ set_count_ = Cardinality(Counted("set", SetEarly))
  /\ \A w \in Workers : pc[w] = "set_add" => reg[w] = set_count_

EmitTotal ==
  /\ emit_count_ <= Cardinality(Counted("emit", EmitEarly))
  /\ \A w \in Workers :
       pc[w] = "emit_add" => reg[w] <= Cardinality(Counted("emit", EmitEarly))

SizeTotal ==
  /\ emit_size_estimate_ <= Cardinality(BytesOf(Counted("emit", SizeEarly)))
  /\ \A w \in Workers :
       pc[w] = "size_add" => reg[w] <= Cardinality(BytesOf(Counted("emit", SizeEarly)))

\* The four kinds of counted calls.
IsKind(op, early) ==
  \/ op = "set" /\ early = SetEarly
  \/ op = "emit" /\ early \in {EmitEarly, SizeEarly, PutEarly}

LEMMA FiniteUnion ==
  ASSUME NEW S, IsFiniteSet(S), NEW f, DOMAIN f = S, \A x \in S : IsFiniteSet(f[x])
  PROVE  IsFiniteSet(UNION {f[x] : x \in S})
  <1> DEFINE T == {f[x] : x \in S}
             g == [x \in S |-> f[x]]
  <1>1. g \in [S -> T] /\ \A t \in T : \E x \in S : g[x] = t
    OBVIOUS
  <1> HIDE DEF g
  <1>2. g \in Surjection(S, T)
    BY <1>1, Fun_IsSurj
  <1>3. IsFiniteSet(T)
    BY <1>2, FS_Surjection
  <1>4. \A t \in T : IsFiniteSet(t)
    OBVIOUS
  <1> QED
    BY <1>3, <1>4, FS_UNION

\* The calls of the records dequeued so far, as pairs.
LEMMA CallPairs ==
  /\ \A i \in DOMAIN taken : \A j \in DOMAIN CallsOf(taken[i].item) : <<i, j>> \in CallsBegun
  /\ \A c \in CallsBegun : /\ c[1] \in DOMAIN taken
                           /\ c[2] \in DOMAIN CallsOf(taken[c[1]].item)
                           /\ c = <<c[1], c[2]>>
  BY DEF CallsBegun

LEMMA TakenRecords ==
  ASSUME TakenTypes
  PROVE  /\ Len(taken) \in Nat /\ DOMAIN taken = 1..Len(taken)
         /\ \A i \in DOMAIN taken : taken[i].by \in Workers /\ taken[i].item \in Records
  <1> DEFINE Taking == [by : Workers, item : Records]
  <1>1. taken \in Seq(Taking)
    BY DEF TakenTypes
  <1>2. \A t \in Taking : t.by \in Workers /\ t.item \in Records
    OBVIOUS
  <1> HIDE DEF Taking
  <1> QED
    BY <1>1, <1>2

LEMMA CallsFinite ==
  ASSUME ListedCalls, TakenTypes
  PROVE  IsFiniteSet(CallsBegun)
  <1> DEFINE f == [i \in DOMAIN taken |-> {i} \X DOMAIN CallsOf(taken[i].item)]
  <1>1. IsFiniteSet(DOMAIN taken)
    BY TakenRecords, FS_Interval
  <1>2. ASSUME NEW i \in DOMAIN taken PROVE IsFiniteSet(f[i])
    <2>1. PICK S : CallsOf(taken[i].item) \in Seq(S)
      BY TakenRecords, CallList
    <2>2. IsFiniteSet(1..Len(CallsOf(taken[i].item)))
      BY <2>1, FS_Interval
    <2>3. DOMAIN CallsOf(taken[i].item) = 1..Len(CallsOf(taken[i].item))
      BY <2>1
    <2>4. IsFiniteSet({i} \X DOMAIN CallsOf(taken[i].item))
      BY <2>2, <2>3, FS_Singleton, FS_Product
    <2> QED
      BY <2>4
  <1>3. CallsBegun = UNION {f[i] : i \in DOMAIN taken}
    BY DEF CallsBegun
  <1>4. DOMAIN f = DOMAIN taken
    OBVIOUS
  <1> HIDE DEF f
  <1> QED
    BY <1>1, <1>2, <1>3, <1>4, FiniteUnion

LEMMA CountedFinite ==
  ASSUME ListedCalls, TakenTypes, NEW op, NEW early
  PROVE  /\ IsFiniteSet(Counted(op, early))
         /\ Cardinality(Counted(op, early)) \in Nat
         /\ Counted(op, early) \subseteq CallsMade(op)
         /\ IsFiniteSet(CallsMade(op))
  <1>1. Counted(op, early) \subseteq CallsMade(op) /\ CallsMade(op) \subseteq CallsBegun
    BY DEF Counted, CallsMade
  <1>2. IsFiniteSet(CallsBegun)
    BY CallsFinite
  <1> QED
    BY <1>1, <1>2, FS_Subset, FS_CardinalityType

\* What no worker is late with is counted as before.
LEMMA CountedStays ==
  ASSUME UNCHANGED taken, NEW op, NEW early,
         \A v \in Workers : Late(v, op, early)' = Late(v, op, early)
  PROVE  Counted(op, early)' = Counted(op, early)
  BY DEF Counted, CallsMade, CallsBegun, CallAt, LastOf

LEMMA CountedGrows ==
  ASSUME UNCHANGED taken, NEW op, NEW early,
         \A v \in Workers : Late(v, op, early)' \subseteq Late(v, op, early)
  PROVE  Counted(op, early) \subseteq Counted(op, early)'
  BY DEF Counted, CallsMade, CallsBegun, CallAt, LastOf

\* A worker counts the call it is at.
LEMMA CountedOne ==
  ASSUME TakenTypes, LastInv, UNCHANGED taken, NEW op, NEW early, NEW w \in Workers,
         pc[w] \notin Waiting, at[w] \in Late(w, op, early),
         Late(w, op, early)' = Late(w, op, early) \ {at[w]},
         \A v \in Workers \ {w} : Late(v, op, early)' = Late(v, op, early)
  PROVE  \E call \in CallsMade(op) :
           /\ call \notin Counted(op, early)
           /\ CallAt(call) = Call(w)
           /\ Counted(op, early)' = Counted(op, early) \cup {call}
  <1>1. PICK i \in DOMAIN taken : LastOf(w, i) /\ taken[i].item = job[w]
    BY DEF LastInv
  <1> DEFINE call == <<i, at[w]>>
  <1>2. at[w] \in DOMAIN CallsOf(job[w]) /\ CallsOf(job[w])[at[w]].op = op
    BY DEF Late
  <1>3. call \in CallsBegun /\ call[1] = i /\ call[2] = at[w]
    BY <1>1, <1>2, CallPairs
  <1>4. CallAt(call) = Call(w) /\ call \in CallsMade(op)
    BY <1>1, <1>2, <1>3 DEF CallAt, Call, CallsMade
  <1>5. call \notin Counted(op, early)
    BY <1>1, <1>3 DEF Counted
  <1>6. /\ CallsMade(op)' = CallsMade(op)
        /\ \A v \in Workers : \A k : LastOf(v, k)' = LastOf(v, k)
    BY DEF CallsMade, CallsBegun, CallAt, LastOf
  <1>7. ASSUME NEW c \in CallsMade(op), c # call
        PROVE  c \in Counted(op, early)' <=> c \in Counted(op, early)
    <2>1. c = <<c[1], c[2]>> /\ c[1] \in DOMAIN taken
      BY CallPairs DEF CallsMade
    <2>2. LastOf(w, c[1]) => c[1] = i
      <3>1. i \in Nat /\ c[1] \in Nat
        BY <2>1, TakenRecords
      <3> QED
        BY <1>1, <2>1, <3>1 DEF LastOf
    <2>3. LastOf(w, c[1]) => c[2] # at[w]
      BY <1>7, <2>1, <2>2
    <2> QED
      BY <1>6, <2>3 DEF Counted
  <1>8. call \in Counted(op, early)'
    <2>1. ASSUME NEW v \in Workers, LastOf(v, i) PROVE v = w
      BY <1>1, <2>1 DEF LastOf
    <2> QED
      BY <1>3, <1>4, <1>6, <2>1 DEF Counted
  <1>9. Counted(op, early)' = Counted(op, early) \cup {call}
    <2>1. Counted(op, early) \subseteq CallsMade(op) /\ Counted(op, early)' \subseteq CallsMade(op)
      BY <1>6 DEF Counted
    <2> QED
      BY <1>4, <1>7, <1>8, <2>1
  <1> QED
    BY <1>4, <1>5, <1>9

\* A worker that takes a record adds it to the record of takes, as its last one.
LEMMA RecordTaken ==
  ASSUME ShapeInv, TakenTypes, NEW w \in Workers, TakeRecord(w)
  PROVE  \E n \in Nat : \E r \in Records :
           /\ pc[w] = "idle" /\ pc' = [pc EXCEPT ![w] = "map"] /\ pc'[w] = "map"
           /\ job' = [job EXCEPT ![w] = r] /\ job'[w] = r
           /\ at' = [at EXCEPT ![w] = 1] /\ at'[w] = 1
           /\ n \notin DOMAIN taken /\ DOMAIN taken' = DOMAIN taken \cup {n}
           /\ \A i \in DOMAIN taken : taken'[i] = taken[i]
           /\ taken'[n].by = w /\ taken'[n].item = r
           /\ LastOf(w, n)'
           /\ \A i \in DOMAIN taken : \A v \in Workers :
                LastOf(v, i)' <=> v # w /\ LastOf(v, i)
  <1>0. PICK n : n = Len(taken) + 1
    OBVIOUS
  <1>r. PICK r : r = Head(queue)
    OBVIOUS
  <1>e. PICK entry : entry = [by |-> w, item |-> r]
    OBVIOUS
  <1> DEFINE Taking == [by : Workers, item : Records]
  <1>1. /\ pc[w] = "idle" /\ pc' = [pc EXCEPT ![w] = "map"]
        /\ job' = [job EXCEPT ![w] = r] /\ at' = [at EXCEPT ![w] = 1]
        /\ taken' = Append(taken, entry) /\ queue # <<>>
    BY <1>r, <1>e DEF TakeRecord, Goto
  <1>2. r \in Records
    BY <1>1, <1>r DEF ShapeInv
  <1>3. entry \in Taking /\ taken \in Seq(Taking) /\ entry.by = w /\ entry.item = r
    BY <1>2, <1>e DEF TakenTypes
  <1> HIDE DEF Taking
  <1>4. /\ Len(taken) \in Nat /\ DOMAIN taken = 1..Len(taken)
        /\ DOMAIN taken' = 1..n
        /\ \A i \in 1..Len(taken) : taken'[i] = taken[i]
        /\ taken'[n].by = w /\ taken'[n].item = r
    BY <1>0, <1>1, <1>3
  <1>5. n \in Nat /\ n \notin DOMAIN taken /\ DOMAIN taken' = DOMAIN taken \cup {n}
          /\ \A i \in DOMAIN taken : i \in Nat /\ i < n
    BY <1>0, <1>4
  <1>6. pc'[w] = "map" /\ job'[w] = r /\ at'[w] = 1
    BY <1>1 DEF ShapeInv
  <1>11. \A i \in DOMAIN taken : \A v \in Workers :
           LastOf(v, i)' <=> v # w /\ LastOf(v, i)
    <2> SUFFICES ASSUME NEW i \in DOMAIN taken, NEW v \in Workers
                 PROVE  LastOf(v, i)' <=> v # w /\ LastOf(v, i)
      OBVIOUS
    <2>1. taken'[i].by = taken[i].by /\ ~(n <= i)
      BY <1>4, <1>5
    <2>2. CASE v = w
      BY <1>4, <1>5, <2>1, <2>2 DEF LastOf
    <2>3. CASE v # w
      BY <1>4, <1>5, <2>1, <2>3 DEF LastOf
    <2> QED
      BY <2>2, <2>3
  <1>12. LastOf(w, n)'
    <2>1. \A i \in DOMAIN taken' : i <= n
      BY <1>5
    <2> QED
      BY <1>4, <1>5, <2>1 DEF LastOf
  <1> QED
    BY <1>1, <1>2, <1>4, <1>5, <1>6, <1>11, <1>12

\* A worker that takes a record has all of its calls before it, and none of an
\* earlier record.
LEMMA CountedTaken ==
  ASSUME ListedCalls, ShapeInv, TakenTypes, NEW w \in Workers, TakeRecord(w),
         NEW op, NEW early, "map" \in early
  PROVE  /\ Counted(op, early)' = Counted(op, early)
         /\ \A call \in CallsBegun : CallAt(call)' = CallAt(call)
  <1>1. PICK n \in Nat, r \in Records :
           /\ pc[w] = "idle" /\ pc' = [pc EXCEPT ![w] = "map"] /\ pc'[w] = "map"
           /\ job' = [job EXCEPT ![w] = r] /\ job'[w] = r
           /\ at' = [at EXCEPT ![w] = 1] /\ at'[w] = 1
           /\ n \notin DOMAIN taken /\ DOMAIN taken' = DOMAIN taken \cup {n}
           /\ \A i \in DOMAIN taken : taken'[i] = taken[i]
           /\ taken'[n].by = w /\ taken'[n].item = r
           /\ LastOf(w, n)'
           /\ \A i \in DOMAIN taken : \A v \in Workers :
                LastOf(v, i)' <=> v # w /\ LastOf(v, i)
    BY RecordTaken
  <1>7. ASSUME NEW v \in Workers \ {w} PROVE Late(v, op, early)' = Late(v, op, early)
    <2>1. pc'[v] = pc[v] /\ job'[v] = job[v] /\ at'[v] = at[v]
      BY <1>1 DEF ShapeInv
    <2>2. CallsOf(job[v])' = CallsOf(job[v])
      BY <2>1 DEF CallsOf
    <2> QED
      BY <2>1, <2>2 DEF Late
  <1>8. Late(w, op, early) = {}
    BY <1>1 DEF Late, Waiting
  <1>9. PICK S : CallsOf(r) \in Seq(S)
    BY CallList
  <1>10. Late(w, op, early)' = {j \in DOMAIN CallsOf(r) : CallsOf(r)[j].op = op}
    <2>1. \A j \in DOMAIN CallsOf(r) : j > 1 \/ j = 1
      BY <1>9
    <2>2. Late(w, op, early)' = {j \in DOMAIN CallsOf(r) :
             CallsOf(r)[j].op = op /\ (j > 1 \/ (j = 1 /\ pc'[w] \in early))}
      BY <1>1 DEF Late, Waiting, CallsOf
    <2> QED
      BY <1>1, <2>1, <2>2
  <1>13. CallsBegun' = CallsBegun \cup ({n} \X DOMAIN CallsOf(r))
    <2>1. \A i \in DOMAIN taken : taken'[i].item = taken[i].item
      BY <1>1
    <2>2. CallsBegun' = UNION {{i} \X DOMAIN CallsOf(taken'[i].item) : i \in DOMAIN taken'}
      BY DEF CallsBegun, CallsOf
    <2> DEFINE Earlier == UNION {{i} \X DOMAIN CallsOf(taken[i].item) : i \in DOMAIN taken}
               Later == UNION {{i} \X DOMAIN CallsOf(taken'[i].item) : i \in DOMAIN taken'}
    <2>3. Later \subseteq Earlier \cup ({n} \X DOMAIN CallsOf(r))
      <3> SUFFICES ASSUME NEW i \in DOMAIN taken', NEW j \in DOMAIN CallsOf(taken'[i].item)
                   PROVE  <<i, j>> \in Earlier \cup ({n} \X DOMAIN CallsOf(r))
        OBVIOUS
      <3>1. CASE i = n
        BY <1>1, <3>1
      <3>2. CASE i \in DOMAIN taken
        BY <2>1, <3>2
      <3> QED
        BY <1>1, <3>1, <3>2
    <2>4. Earlier \subseteq Later
      BY <1>1, <2>1
    <2>5. {n} \X DOMAIN CallsOf(r) \subseteq Later
      BY <1>1
    <2>6. Later = Earlier \cup ({n} \X DOMAIN CallsOf(r))
      BY <2>3, <2>4, <2>5
    <2> QED
      BY <2>2, <2>6 DEF CallsBegun
  <1>14. ASSUME NEW c \in CallsBegun
         PROVE  c \in Counted(op, early)' <=> c \in Counted(op, early)
    <2>1. c[1] \in DOMAIN taken /\ CallAt(c)' = CallAt(c)
      <3>1. c[1] \in DOMAIN taken
        BY CallPairs
      <3> QED
        BY <1>1, <3>1 DEF CallAt, CallsOf
    <2>2. c \in CallsBegun'
      BY <1>13
    <2>3. \A v \in Workers : (LastOf(v, c[1])' => c[2] \notin Late(v, op, early)')
                               <=> (LastOf(v, c[1]) => c[2] \notin Late(v, op, early))
      BY <1>1, <1>7, <1>8, <2>1
    <2> QED
      BY <2>1, <2>2, <2>3 DEF Counted, CallsMade
  <1>15. ASSUME NEW j \in DOMAIN CallsOf(r) PROVE <<n, j>> \notin Counted(op, early)'
    <2>1. CallAt(<<n, j>>)' = CallsOf(r)[j]
      BY <1>1 DEF CallAt, CallsOf
    <2> QED
      BY <1>1, <1>10, <2>1 DEF Counted, CallsMade
  <1>16. ASSUME NEW c \in CallsBegun', c \notin CallsBegun PROVE c \notin Counted(op, early)'
    <2>1. c \in {n} \X DOMAIN CallsOf(r)
      BY <1>13, <1>16
    <2>2. PICK j \in DOMAIN CallsOf(r) : c = <<n, j>>
      BY <2>1
    <2> QED
      BY <1>15, <2>2
  <1>17. Counted(op, early)' = Counted(op, early)
    BY <1>14, <1>16 DEF Counted, CallsMade
  <1>18. ASSUME NEW c \in CallsBegun PROVE CallAt(c)' = CallAt(c)
    <2>1. c[1] \in DOMAIN taken
      BY CallPairs
    <2> QED
      BY <1>1, <2>1 DEF CallAt, CallsOf
  <1> QED
    BY <1>17, <1>18

\* The workers that do not move are late with the same calls.
LEMMA LateOfOthers ==
  ASSUME ShapeInv, NEW w \in Workers, NEW to, Moves(w, to), NEW op, NEW early,
         NEW v \in Workers \ {w}
  PROVE  Late(v, op, early)' = Late(v, op, early)
  <1>1. pc'[v] = pc[v] /\ job'[v] = job[v] /\ at'[v] = at[v]
    BY DEF Moves, ShapeInv
  <1>2. CallsOf(job[v])' = CallsOf(job[v])
    BY <1>1 DEF CallsOf
  <1> QED
    BY <1>1, <1>2 DEF Late

\* A worker moves on within its record and counts nothing of the kind: it is at
\* another kind of call, or has counted this one, or has not.
LEMMA LateWithin ==
  ASSUME ListedCalls, ShapeInv, JobInv, NEW w \in Workers, pc[w] \notin Waiting, NEW to,
         to \notin Waiting, Moves(w, to), UNCHANGED job, NEW op, NEW early,
         \/ /\ UNCHANGED at
            /\ Call(w).op # op \/ (pc[w] \in early <=> to \in early)
         \/ /\ at' = [at EXCEPT ![w] = @ + 1]
            /\ to \in early
            /\ Call(w).op # op \/ pc[w] \notin early
  PROVE  \A v \in Workers : Late(v, op, early)' = Late(v, op, early)
  <1> DEFINE calls == CallsOf(job[w])
  <1>1. pc'[w] = to /\ at[w] \in Nat /\ job[w] \in Records
    BY DEF Moves, ShapeInv, JobInv
  <1>2. calls' = calls
    BY DEF CallsOf
  <1>3. PICK S : calls \in Seq(S)
    BY <1>1, CallList
  <1>4. \A j \in DOMAIN calls : j \in Nat
    BY <1>3
  <1>5. Late(w, op, early) =
          {j \in DOMAIN calls :
             calls[j].op = op /\ (j > at[w] \/ (j = at[w] /\ pc[w] \in early))}
    BY DEF Late
  <1>6. Late(w, op, early)' =
          {j \in DOMAIN calls :
             calls[j].op = op /\ (j > at'[w] \/ (j = at'[w] /\ to \in early))}
    BY <1>1, <1>2 DEF Late
  <1>7. calls[at[w]] = Call(w)
    BY DEF Call
  <1> HIDE DEF calls
  <1>8. Late(w, op, early)' = Late(w, op, early)
    <2>1. CASE UNCHANGED at /\ (Call(w).op # op \/ (pc[w] \in early <=> to \in early))
      BY <1>5, <1>6, <1>7, <2>1
    <2>2. CASE /\ at' = [at EXCEPT ![w] = @ + 1]
               /\ to \in early /\ (Call(w).op # op \/ pc[w] \notin early)
      <3>1. at'[w] = at[w] + 1 /\ \A j \in DOMAIN calls : j > at[w] <=> j > at'[w] \/ j = at'[w]
        BY <1>1, <1>4, <2>2 DEF ShapeInv
      <3> QED
        BY <1>5, <1>6, <1>7, <2>2, <3>1
    <2> QED
      BY <2>1, <2>2
  <1> QED
    BY <1>8, LateOfOthers

\* A worker counts the call it is at.
LEMMA LateLess ==
  ASSUME ListedCalls, ShapeInv, JobInv, NEW w \in Workers, pc[w] \notin Waiting, NEW to,
         to \notin Waiting, Moves(w, to), UNCHANGED job, NEW op, NEW early,
         Call(w).op = op, pc[w] \in early, at[w] \in DOMAIN CallsOf(job[w]),
         \/ UNCHANGED at /\ to \notin early
         \/ at' = [at EXCEPT ![w] = @ + 1] /\ to \in early
  PROVE  /\ at[w] \in Late(w, op, early)
         /\ Late(w, op, early)' = Late(w, op, early) \ {at[w]}
         /\ \A v \in Workers \ {w} : Late(v, op, early)' = Late(v, op, early)
  <1> DEFINE calls == CallsOf(job[w])
  <1>1. pc'[w] = to /\ at[w] \in Nat /\ job[w] \in Records
    BY DEF Moves, ShapeInv, JobInv
  <1>2. calls' = calls
    BY DEF CallsOf
  <1>3. PICK S : calls \in Seq(S)
    BY <1>1, CallList
  <1>4. \A j \in DOMAIN calls : j \in Nat
    BY <1>3
  <1>5. Late(w, op, early) =
          {j \in DOMAIN calls : calls[j].op = op /\ (j > at[w] \/ j = at[w])}
    BY DEF Late
  <1>6. Late(w, op, early)' =
          {j \in DOMAIN calls :
             calls[j].op = op /\ (j > at'[w] \/ (j = at'[w] /\ to \in early))}
    BY <1>1, <1>2 DEF Late
  <1>7. calls[at[w]] = Call(w) /\ at[w] \in DOMAIN calls
    BY DEF Call
  <1> HIDE DEF calls
  <1>8. Late(w, op, early)' = {j \in DOMAIN calls : calls[j].op = op /\ j > at[w]}
    <2>1. CASE UNCHANGED at /\ to \notin early
      BY <1>6, <2>1
    <2>2. CASE at' = [at EXCEPT ![w] = @ + 1] /\ to \in early
      <3>1. at'[w] = at[w] + 1 /\ \A j \in DOMAIN calls : j > at[w] <=> j > at'[w] \/ j = at'[w]
        BY <1>1, <1>4, <2>2 DEF ShapeInv
      <3> QED
        BY <1>6, <2>2, <3>1
    <2> QED
      BY <2>1, <2>2
  <1>9. \A j \in DOMAIN calls : j > at[w] => j # at[w]
    BY <1>1, <1>4
  <1>10. Late(w, op, early)' = Late(w, op, early) \ {at[w]}
    BY <1>5, <1>8, <1>9
  <1>11. at[w] \in Late(w, op, early)
    BY <1>5, <1>7
  <1> QED
    BY <1>10, <1>11, LateOfOthers

\* The main thread counts nothing: the workers it creates have no call.
LEMMA MainLate ==
  ASSUME ShapeInv, MainThread, NEW op, NEW early
  PROVE  /\ UNCHANGED <<taken, job, reg, totals, emitOwner>>
         /\ \A v \in Workers : /\ pc'[v] = pc[v] \/ pc'[v] \in Waiting
                               /\ Late(v, op, early)' = Late(v, op, early)
  <1> USE DEF workerVars, queueVars, keyVars
  <1>1. UNCHANGED <<taken, job, at, reg, totals, emitOwner>>
    BY DEF MainThread, CreateThread, ThreadsCreated, OpenMapOut, OpenMapOutFails, OpenInput,
      SkipInput, EnqueueRecord, DropRecord, InputComplete, CloseQueue, JoinWorkers,
      JoinGarbage, CloseMapOut
  <1>2. ASSUME NEW v \in Workers
        PROVE  pc'[v] = pc[v] \/ (pc[v] \in Waiting /\ pc'[v] \in Waiting)
    <2>1. CASE \E w \in Workers : CreateThread(w)
      BY <2>1 DEF CreateThread, ShapeInv, Waiting
    <2>2. CASE UNCHANGED pc
      BY <2>2
    <2> QED
      BY <2>1, <2>2 DEF MainThread, ThreadsCreated, OpenMapOut, OpenMapOutFails, OpenInput,
        SkipInput, EnqueueRecord, DropRecord, InputComplete, CloseQueue, JoinWorkers,
        JoinGarbage, CloseMapOut
  <1>3. ASSUME NEW v \in Workers PROVE Late(v, op, early)' = Late(v, op, early)
    BY <1>1, <1>2 DEF Late, CallsOf
  <1> QED
    BY <1>1, <1>2, <1>3

\* A worker that neither takes a record nor adds to a total counts nothing.
LEMMA WorkerLate ==
  ASSUME ListedCalls, ShapeInv, JobInv, NEW w \in Workers, Worker(w), ~TakeRecord(w),
         NEW op, NEW early, IsKind(op, early),
         SetAdd(w) => op = "emit",
         EmitAdd(w) => \/ op = "set"
                       \/ (IF env.optimize_bucket_count THEN early = SizeEarly ELSE early = PutEarly),
         EmitPut(w) => early # PutEarly,
         SizeAdd(w) => early # SizeEarly,
         pc[w] \in {"size_load", "size_add"} => early # PutEarly
  PROVE  \A v \in Workers : Late(v, op, early)' = Late(v, op, early)
  <1> DEFINE Goal == \A v \in Workers : Late(v, op, early)' = Late(v, op, early)
  <1> SUFFICES Goal
    OBVIOUS
  <1> USE DEF workerVars
  <1>1. /\ pc \in [Workers -> WorkerPC] /\ at \in [Workers -> Nat \ {0}]
        /\ job \in [Workers -> Records \cup {NoRecord}]
        /\ slot = [v \in Workers |-> slot[v]]
    BY DEF ShapeInv
  <1>2. pc[w] \in EmitPC => Call(w).op = "emit"
    BY DEF JobInv
  <1>3. pc[w] \in SetPC => Call(w).op = "set"
    BY DEF JobInv
  <1>4. "map" \in early
    BY DEF IsKind, SetEarly, EmitEarly, SizeEarly, PutEarly
  <1>5. ASSUME NEW to, pc[w] \notin Waiting, to \notin Waiting, pc' = [pc EXCEPT ![w] = to],
               UNCHANGED <<job, at>>, \E x : slot' = [slot EXCEPT ![w] = x],
               Call(w).op # op \/ (pc[w] \in early <=> to \in early)
        PROVE  Goal
    <2>1. Moves(w, to)
      BY <1>1, <1>5 DEF Moves
    <2> QED
      BY <1>5, <2>1, LateWithin
  <1>6. ASSUME pc[w] \notin Waiting, pc' = [pc EXCEPT ![w] = "map"],
               UNCHANGED <<job, slot>>, at' = [at EXCEPT ![w] = @ + 1],
               Call(w).op # op \/ pc[w] \notin early
        PROVE  Goal
    <2>1. PICK to : to = "map"
      OBVIOUS
    <2>2. Moves(w, to) /\ to \notin Waiting /\ to \in early
      BY <1>1, <1>4, <1>6, <2>1 DEF Moves, Waiting
    <2>3. \/ /\ UNCHANGED at
             /\ Call(w).op # op \/ (pc[w] \in early <=> to \in early)
          \/ /\ at' = [at EXCEPT ![w] = @ + 1]
             /\ to \in early
             /\ Call(w).op # op \/ pc[w] \notin early
      BY <1>6, <2>2
    <2>4. pc[w] \notin Waiting /\ UNCHANGED job
      BY <1>6
    <2> QED
      BY <2>2, <2>3, <2>4, LateWithin
  <1>7. ASSUME NEW to, to \in Waiting, Late(w, op, early) = {}, pc' = [pc EXCEPT ![w] = to],
               UNCHANGED <<at, slot>>, \E r : job' = [job EXCEPT ![w] = r]
        PROVE  Goal
    <2>1. Moves(w, to) /\ pc'[w] = to
      BY <1>1, <1>7 DEF Moves
    <2>2. Late(w, op, early)' = {}
      BY <1>7, <2>1 DEF Late
    <2> QED
      BY <1>7, <2>1, <2>2, LateOfOthers
  <1>8. CASE StartFails(w) \/ PutFails(w)
    BY <1>8 DEF StartFails, PutFails, Late, CallsOf
  <1>9. slot = [slot EXCEPT ![w] = slot[w]] /\ job = [job EXCEPT ![w] = job[w]]
    BY <1>1
  <1>10. CASE Start(w) \/ EndThread(w)
    <2>1. PICK to \in {"idle", "ended"} : pc' = [pc EXCEPT ![w] = to]
      BY <1>10 DEF Start, EndThread, Goto
    <2>2. pc[w] \in Waiting /\ to \in Waiting /\ UNCHANGED <<at, slot, job>>
      BY <1>10 DEF Start, EndThread, Goto, Waiting
    <2>3. Late(w, op, early) = {}
      BY <2>2 DEF Late
    <2> QED
      BY <1>7, <1>9, <2>1, <2>2, <2>3
  <1>11. CASE MapReturns(w)
    <2>1. /\ pc[w] = "map" /\ at[w] > Len(CallsOf(job[w]))
          /\ pc' = [pc EXCEPT ![w] = "idle"] /\ UNCHANGED <<at, slot>>
          /\ job' = [job EXCEPT ![w] = NoRecord]
      BY <1>11 DEF MapReturns, Goto
    <2>2. job[w] \in Records
      BY <2>1 DEF JobInv, Waiting
    <2>3. PICK S : CallsOf(job[w]) \in Seq(S)
      BY <2>2, CallList
    <2>4. \A j \in DOMAIN CallsOf(job[w]) : ~(j > at[w]) /\ j # at[w]
      BY <1>1, <2>1, <2>3
    <2>5. Late(w, op, early) = {}
      BY <2>4 DEF Late
    <2>6. "idle" \in Waiting
      BY DEF Waiting
    <2> QED
      BY <1>7, <2>1, <2>5, <2>6
  <1>12. CASE EmitLoad(w)
    <2>1. /\ pc[w] = "map" /\ Call(w).op = "emit" /\ pc' = [pc EXCEPT ![w] = "emit_add"]
          /\ UNCHANGED <<job, at, slot>>
      BY <1>12 DEF EmitLoad, Makes
    <2>2. op = "emit" => "emit_add" \in early /\ "map" \in early
      BY DEF IsKind, EmitEarly, SizeEarly, PutEarly
    <2> QED
      BY <1>5, <1>9, <2>1, <2>2 DEF Waiting
  <1>13. CASE SetLock(w)
    <2>1. /\ pc[w] = "map" /\ Call(w).op = "set" /\ pc' = [pc EXCEPT ![w] = "set_load"]
          /\ UNCHANGED <<job, at, slot>>
      BY <1>13 DEF SetLock, Lock, Goto, Makes
    <2>2. op = "set" => "set_load" \in early /\ "map" \in early
      BY DEF IsKind, SetEarly
    <2> QED
      BY <1>5, <1>9, <2>1, <2>2 DEF Waiting
  <1>14. CASE EmitAdd(w)
    <2>1. PICK to \in {"size_load", "emit_lock"} :
            /\ pc[w] = "emit_add" /\ pc' = [pc EXCEPT ![w] = to]
            /\ UNCHANGED <<job, at, slot>>
            /\ to = IF env.optimize_bucket_count THEN "size_load" ELSE "emit_lock"
      BY <1>14 DEF EmitAdd, Goto
    <2>2. Call(w).op = "emit"
      BY <1>2, <2>1 DEF EmitPC
    <2>3. op # "set" => "emit_add" \in early /\ to \in early
      BY <1>14, <2>1 DEF SizeEarly, PutEarly
    <2> QED
      BY <1>5, <1>9, <2>1, <2>2, <2>3 DEF Waiting
  <1>15. CASE EmitLock(w) \/ EmitIncrement(w) \/ EmitKey(w) \/ EmitUnlock(w) \/ SizeLoad(w)
    <2>1. PICK to \in {"emit_incr", "emit_key", "emit_unlock", "emit_put", "size_add"} :
            /\ pc' = [pc EXCEPT ![w] = to] /\ UNCHANGED <<job, at>>
            /\ IF to = "size_add" THEN pc[w] = "size_load"
                                  ELSE pc[w] \in {"emit_lock", "emit_incr", "emit_key", "emit_unlock"}
            /\ \E x : slot' = [slot EXCEPT ![w] = x]
      BY <1>9, <1>15 DEF EmitLock, EmitIncrement, EmitKey, EmitUnlock, SizeLoad, Lock, Unlock, Goto
    <2>2. Call(w).op = "emit" /\ pc[w] \notin Waiting /\ to \notin Waiting
      BY <1>2, <2>1 DEF EmitPC, Waiting
    <2>3. op # "set" => (pc[w] \in early <=> to \in early)
      BY <2>1 DEF IsKind, SizeEarly, EmitEarly, PutEarly
    <2> QED
      BY <1>5, <2>1, <2>2, <2>3
  <1>16. CASE SetLoad(w) \/ SetAdd(w) \/ SetUnlock(w)
    <2>1. PICK to \in {"set_add", "set_unlock", "set_put"} :
            /\ pc' = [pc EXCEPT ![w] = to] /\ UNCHANGED <<job, at, slot>>
            /\ pc[w] = CASE to = "set_add" -> "set_load" [] to = "set_unlock" -> "set_add"
                         [] to = "set_put" -> "set_unlock"
            /\ to = "set_unlock" => op = "emit"
      BY <1>16 DEF SetLoad, SetAdd, SetUnlock, Unlock, Goto
    <2>2. Call(w).op = "set" /\ pc[w] \notin Waiting /\ to \notin Waiting
      BY <1>3, <2>1 DEF SetPC, Waiting
    <2>3. op = "set" => (pc[w] \in early <=> to \in early)
      BY <2>1 DEF IsKind, SetEarly
    <2> QED
      BY <1>5, <1>9, <2>1, <2>2, <2>3
  <1>17. CASE EmitPut(w) \/ SizeAdd(w) \/ SetPut(w)
    <2>1. /\ pc[w] \in {"emit_put", "size_add", "set_put"}
          /\ pc' = [pc EXCEPT ![w] = "map"] /\ UNCHANGED <<job, slot>>
          /\ at' = [at EXCEPT ![w] = @ + 1]
          /\ pc[w] = "size_add" => early \notin {SizeEarly, PutEarly}
          /\ pc[w] = "emit_put" => early # PutEarly
      BY <1>17 DEF EmitPut, SizeAdd, SetPut, Return, Goto
    <2>2. pc[w] \notin Waiting /\ Call(w).op = IF pc[w] = "set_put" THEN "set" ELSE "emit"
      BY <1>2, <1>3, <2>1 DEF EmitPC, SetPC, Waiting
    <2>3. Call(w).op # op \/ pc[w] \notin early
      BY <2>1, <2>2 DEF IsKind, SetEarly, EmitEarly, SizeEarly, PutEarly
    <2> QED
      BY <1>6, <2>1, <2>2, <2>3
  <1> QED
    BY <1>8, <1>10, <1>11, <1>12, <1>13, <1>14, <1>15, <1>16, <1>17 DEF Worker

\* A step of a worker that takes no record.
LEMMA TakenKept ==
  ASSUME NEW w \in Workers, Worker(w), ~TakeRecord(w)
  PROVE  UNCHANGED taken
  BY DEF Worker, Start, StartFails, EndThread, MapReturns, EmitLoad, EmitAdd, EmitLock,
    EmitIncrement, EmitKey, EmitUnlock, EmitPut, SizeLoad, SizeAdd, SetLock, SetLoad, SetAdd,
    SetUnlock, SetPut, PutFails, Lock, Unlock, queueVars

LEMMA LastStep == ShapeInv /\ TakenTypes /\ LastInv /\ [Next]_vars => LastInv'
  <1> SUFFICES ASSUME ShapeInv, TakenTypes, LastInv, [Next]_vars PROVE LastInv'
    OBVIOUS
  <1> DEFINE Has(v) == pc[v] \notin Waiting =>
               \E i \in DOMAIN taken : LastOf(v, i) /\ taken[i].item = job[v]
  <1>1. ASSUME UNCHANGED taken, NEW v \in Workers,
               pc'[v] \notin Waiting => pc[v] \notin Waiting /\ job'[v] = job[v]
        PROVE  Has(v)'
    BY <1>1 DEF LastInv, LastOf
  <1>2. CASE UNCHANGED vars
    BY <1>1, <1>2 DEF vars, LastInv, workerVars, queueVars
  <1>3. CASE MainThread
    <2>1. UNCHANGED <<taken, job>> /\ \A v \in Workers : pc'[v] = pc[v] \/ pc'[v] \in Waiting
      BY <1>3, MainLate
    <2> QED
      BY <1>1, <2>1 DEF LastInv
  <1>4. ASSUME NEW w \in Workers, Worker(w) PROVE LastInv'
    <2>1. CASE TakeRecord(w)
      <3>1. PICK n \in Nat, r \in Records :
               /\ pc' = [pc EXCEPT ![w] = "map"] /\ job' = [job EXCEPT ![w] = r]
               /\ job'[w] = r
               /\ DOMAIN taken' = DOMAIN taken \cup {n}
               /\ \A i \in DOMAIN taken : taken'[i] = taken[i]
               /\ taken'[n].item = r
               /\ LastOf(w, n)'
               /\ \A i \in DOMAIN taken : \A v \in Workers :
                    LastOf(v, i)' <=> v # w /\ LastOf(v, i)
        BY <2>1, RecordTaken
      <3>2. Has(w)'
        BY <3>1
      <3>3. ASSUME NEW v \in Workers \ {w} PROVE Has(v)'
        <4>1. pc'[v] = pc[v] /\ job'[v] = job[v]
          BY <3>1 DEF ShapeInv
        <4> QED
          BY <3>1, <4>1 DEF LastInv
      <3> QED
        BY <3>2, <3>3 DEF LastInv
    <2>2. CASE ~TakeRecord(w)
      <3>1. UNCHANGED taken
        BY <1>4, <2>2, TakenKept
      <3>2. ASSUME NEW v \in Workers, pc'[v] \notin Waiting
            PROVE  pc[v] \notin Waiting /\ job'[v] = job[v]
        BY <1>4, <2>2, <3>2 DEF Worker, Start, StartFails, EndThread, MapReturns, EmitLoad,
          EmitAdd, EmitLock, EmitIncrement, EmitKey, EmitUnlock, EmitPut, SizeLoad, SizeAdd,
          SetLock, SetLoad, SetAdd, SetUnlock, SetPut, PutFails, Lock, Unlock, Return, Goto,
          Makes, workerVars, ShapeInv, Waiting
      <3> QED
        BY <1>1, <3>1, <3>2 DEF LastInv
    <2> QED
      BY <2>1, <2>2
  <1> QED
    BY <1>2, <1>3, <1>4 DEF Next, Terminated

\* What the steps of the totals rest on.
CountInv == /\ ShapeInv /\ MutexInv /\ JobInv /\ TotalTypes /\ TakenTypes /\ LastInv
            /\ ListedCalls

\* A worker that changes reg does so for the counter it loads.
LEMMA RegOfOthers ==
  ASSUME CountInv, NEW w \in Workers, Worker(w)
  PROVE  \A v \in Workers : /\ reg'[v] = reg[v] \/ (v = w /\ (EmitLoad(w) \/ SizeLoad(w) \/ SetLoad(w)))
                            /\ pc'[v] = pc[v] \/ v = w
  BY DEF Worker, Start, StartFails, TakeRecord, EndThread, MapReturns, EmitLoad, EmitAdd,
    EmitLock, EmitIncrement, EmitKey, EmitUnlock, EmitPut, SizeLoad, SizeAdd, SetLock, SetLoad,
    SetAdd, SetUnlock, SetPut, PutFails, Lock, Unlock, Return, Goto, workerVars, CountInv,
    ShapeInv, TotalTypes

\* The sets are counted under emit_mutex_.
LEMMA SetTotalStep == CountInv /\ SetTotal /\ [Next]_vars => SetTotal'
  <1> SUFFICES ASSUME CountInv, SetTotal, [Next]_vars PROVE SetTotal'
    OBVIOUS
  <1> DEFINE Done == Counted("set", SetEarly)
  <1>0. /\ IsFiniteSet(Done) /\ Cardinality(Done) \in Nat
        /\ IsKind("set", SetEarly) /\ "map" \in SetEarly
    BY CountedFinite DEF CountInv, IsKind, SetEarly
  <1>1. ASSUME Done' = Done, set_count_' = set_count_,
               \A v \in Workers : pc'[v] = "set_add" => pc[v] = "set_add" /\ reg'[v] = reg[v]
        PROVE  SetTotal'
    BY <1>1 DEF SetTotal
  <1>2. CASE UNCHANGED vars
    <2>1. Done' = Done
      BY <1>2 DEF vars, workerVars, queueVars, Counted, CallsMade, CallsBegun, CallAt, CallsOf,
                  LastOf, Late
    <2> QED
      BY <1>1, <1>2, <2>1 DEF vars, workerVars, totals
  <1>3. CASE MainThread
    <2>1. /\ UNCHANGED <<taken, reg, totals>>
          /\ \A v \in Workers : /\ pc'[v] = pc[v] \/ pc'[v] \in Waiting
                                /\ Late(v, "set", SetEarly)' = Late(v, "set", SetEarly)
      BY <1>3, MainLate DEF CountInv
    <2>2. Done' = Done
      BY <2>1, CountedStays
    <2> QED
      BY <1>1, <2>1, <2>2 DEF totals, Waiting
  <1>4. ASSUME NEW w \in Workers, Worker(w) PROVE SetTotal'
    <2>1. \A v \in Workers :
            /\ reg'[v] = reg[v] \/ (v = w /\ (EmitLoad(w) \/ SizeLoad(w) \/ SetLoad(w)))
            /\ pc'[v] = pc[v] \/ v = w
      BY <1>4, RegOfOthers
    <2>2. ~TakeRecord(w) /\ ~SetAdd(w) => Done' = Done
      <3> SUFFICES ASSUME ~TakeRecord(w), ~SetAdd(w) PROVE Done' = Done
        OBVIOUS
      <3>1. \A v \in Workers : Late(v, "set", SetEarly)' = Late(v, "set", SetEarly)
        <4>1. SetEarly # SizeEarly /\ SetEarly # PutEarly
          BY DEF SetEarly, SizeEarly, PutEarly
        <4> QED
          BY <1>0, <1>4, <4>1, WorkerLate DEF CountInv
      <3> QED
        BY <1>4, <3>1, TakenKept, CountedStays
    <2>3. pc \in [Workers -> WorkerPC] /\ reg \in [Workers -> Nat]
      BY DEF CountInv, ShapeInv, TotalTypes
    <2>4. CASE TakeRecord(w)
      <3>1. Done' = Done
        BY <1>0, <2>4, CountedTaken DEF CountInv
      <3>2. pc'[w] = "map" /\ set_count_' = set_count_ /\ reg' = reg
        BY <2>3, <2>4 DEF TakeRecord, Goto, totals
      <3> QED
        BY <1>1, <2>1, <3>1, <3>2
    <2>5. CASE SetLoad(w)
      <3>1. Done' = Done
        BY <2>2, <2>5 DEF SetLoad, SetAdd, TakeRecord, Goto
      <3>2. set_count_' = set_count_ /\ reg'[w] = set_count_
        BY <2>3, <2>5 DEF SetLoad, totals
      <3>3. \A v \in Workers \ {w} : pc'[v] = pc[v] /\ reg'[v] = reg[v]
        BY <2>1
      <3> QED
        BY <3>1, <3>2, <3>3 DEF SetTotal
    <2>6. CASE SetAdd(w)
      <3>1. /\ pc[w] = "set_add" /\ pc' = [pc EXCEPT ![w] = "set_unlock"]
            /\ UNCHANGED <<taken, job, at, slot, reg>> /\ set_count_' = reg[w] + 1
        BY <2>6 DEF SetAdd, Goto, queueVars
      <3>2. PICK to : to = "set_unlock"
        OBVIOUS
      <3>3. Moves(w, to) /\ to \notin Waiting /\ to \notin SetEarly
        BY <3>1, <3>2 DEF Moves, Waiting, SetEarly
      <3>4. pc[w] \notin Waiting /\ pc[w] \in SetEarly /\ pc[w] \in SetPC
        BY <3>1 DEF Waiting, SetEarly, SetPC
      <3>5. Call(w).op = "set" /\ at[w] \in DOMAIN CallsOf(job[w])
        BY <3>4 DEF CountInv, JobInv
      <3>6. /\ at[w] \in Late(w, "set", SetEarly)
            /\ Late(w, "set", SetEarly)' = Late(w, "set", SetEarly) \ {at[w]}
            /\ \A v \in Workers \ {w} : Late(v, "set", SetEarly)' = Late(v, "set", SetEarly)
        BY <3>1, <3>3, <3>4, <3>5, LateLess DEF CountInv
      <3>7. PICK call : call \notin Done /\ Done' = Done \cup {call}
        BY <3>1, <3>4, <3>6, CountedOne DEF CountInv
      <3>8. Cardinality(Done') = Cardinality(Done) + 1
        BY <1>0, <3>7, FS_AddElement
      <3>9. set_count_' = Cardinality(Done')
        BY <3>1, <3>8 DEF SetTotal
      <3>10. ASSUME NEW v \in Workers PROVE pc'[v] # "set_add"
        <4>1. CASE v = w
          BY <2>3, <3>1, <4>1
        <4>2. CASE v # w
          <5>1. pc'[v] = "set_add" => emitOwner = v /\ emitOwner = w
            BY <2>3, <3>1, <4>2 DEF CountInv, MutexInv, Critical
          <5> QED
            BY <4>2, <5>1
        <4> QED
          BY <4>1, <4>2
      <3> QED
        BY <3>9, <3>10 DEF SetTotal
    <2>7. CASE ~TakeRecord(w) /\ ~SetLoad(w) /\ ~SetAdd(w)
      <3>1. Done' = Done
        BY <2>2, <2>7
      <3>2. set_count_' = set_count_
        BY <1>4, <2>7 DEF Worker, Start, StartFails, EndThread, MapReturns, EmitLoad, EmitAdd,
          EmitLock, EmitIncrement, EmitKey, EmitUnlock, EmitPut, SizeLoad, SizeAdd, SetLock,
          SetUnlock, SetPut, PutFails, Lock, Unlock, totals
      <3>3. pc'[w] = "set_add" => pc[w] = "set_add" /\ reg'[w] = reg[w]
        BY <1>4, <2>3, <2>7 DEF Worker, Start, StartFails, EndThread, MapReturns, EmitLoad,
          EmitAdd, EmitLock, EmitIncrement, EmitKey, EmitUnlock, EmitPut, SizeLoad, SizeAdd,
          SetLock, SetUnlock, SetPut, PutFails, Lock, Unlock, Return, Goto, workerVars
      <3>4. \A v \in Workers \ {w} : pc'[v] = pc[v] /\ reg'[v] = reg[v]
        BY <2>1
      <3> QED
        BY <1>1, <3>1, <3>2, <3>3, <3>4
    <2> QED
      BY <2>4, <2>5, <2>6, <2>7
  <1> QED
    BY <1>2, <1>3, <1>4 DEF Next, Terminated

\* The emits are counted outside the mutex: a store may take the count back, and
\* none takes it beyond the emits.
LEMMA EmitTotalStep == CountInv /\ EmitTotal /\ [Next]_vars => EmitTotal'
  <1> SUFFICES ASSUME CountInv, EmitTotal, [Next]_vars PROVE EmitTotal'
    OBVIOUS
  <1> DEFINE Done == Counted("emit", EmitEarly)
  <1>0. /\ IsFiniteSet(Done) /\ Cardinality(Done) \in Nat
        /\ IsKind("emit", EmitEarly) /\ "map" \in EmitEarly
    BY CountedFinite DEF CountInv, IsKind, EmitEarly
  <1>1. ASSUME Done' = Done, emit_count_' = emit_count_,
               \A v \in Workers : pc'[v] = "emit_add" => pc[v] = "emit_add" /\ reg'[v] = reg[v]
        PROVE  EmitTotal'
    BY <1>1 DEF EmitTotal
  <1>2. CASE UNCHANGED vars
    <2>1. Done' = Done
      BY <1>2 DEF vars, workerVars, queueVars, Counted, CallsMade, CallsBegun, CallAt, CallsOf,
                  LastOf, Late
    <2> QED
      BY <1>1, <1>2, <2>1 DEF vars, workerVars, totals
  <1>3. CASE MainThread
    <2>1. /\ UNCHANGED <<taken, reg, totals>>
          /\ \A v \in Workers : /\ pc'[v] = pc[v] \/ pc'[v] \in Waiting
                                /\ Late(v, "emit", EmitEarly)' = Late(v, "emit", EmitEarly)
      BY <1>3, MainLate DEF CountInv
    <2>2. Done' = Done
      BY <2>1, CountedStays
    <2> QED
      BY <1>1, <2>1, <2>2 DEF totals, Waiting
  <1>4. ASSUME NEW w \in Workers, Worker(w) PROVE EmitTotal'
    <2>1. \A v \in Workers :
            /\ reg'[v] = reg[v] \/ (v = w /\ (EmitLoad(w) \/ SizeLoad(w) \/ SetLoad(w)))
            /\ pc'[v] = pc[v] \/ v = w
      BY <1>4, RegOfOthers
    <2>2. ~TakeRecord(w) /\ ~EmitAdd(w) => Done' = Done
      <3> SUFFICES ASSUME ~TakeRecord(w), ~EmitAdd(w) PROVE Done' = Done
        OBVIOUS
      <3>1. \A v \in Workers : Late(v, "emit", EmitEarly)' = Late(v, "emit", EmitEarly)
        <4>1. EmitEarly # SizeEarly /\ EmitEarly # PutEarly
          BY DEF EmitEarly, SizeEarly, PutEarly
        <4> QED
          BY <1>0, <1>4, <4>1, WorkerLate DEF CountInv
      <3> QED
        BY <1>4, <3>1, TakenKept, CountedStays
    <2>3. /\ pc \in [Workers -> WorkerPC] /\ reg \in [Workers -> Nat] /\ emit_count_ \in Nat
      BY DEF CountInv, ShapeInv, TotalTypes
    <2>4. CASE TakeRecord(w)
      <3>1. Done' = Done
        BY <1>0, <2>4, CountedTaken DEF CountInv
      <3>2. pc'[w] = "map" /\ emit_count_' = emit_count_ /\ reg' = reg
        BY <2>3, <2>4 DEF TakeRecord, Goto, totals
      <3> QED
        BY <1>1, <2>1, <3>1, <3>2
    <2>5. CASE EmitLoad(w)
      <3>1. Done' = Done
        BY <2>2, <2>5 DEF EmitLoad, EmitAdd, TakeRecord, Makes, Goto
      <3>2. emit_count_' = emit_count_ /\ reg'[w] = emit_count_
        BY <2>3, <2>5 DEF EmitLoad, totals
      <3>3. \A v \in Workers \ {w} : pc'[v] = pc[v] /\ reg'[v] = reg[v]
        BY <2>1
      <3> QED
        BY <3>1, <3>2, <3>3 DEF EmitTotal
    <2>6. CASE EmitAdd(w)
      <3>1. PICK to \in {"size_load", "emit_lock"} :
               /\ pc[w] = "emit_add" /\ pc' = [pc EXCEPT ![w] = to]
               /\ UNCHANGED <<taken, job, at, slot, reg>> /\ emit_count_' = reg[w] + 1
        BY <2>6 DEF EmitAdd, Goto, queueVars
      <3>2. Moves(w, to) /\ to \notin Waiting /\ to \notin EmitEarly
        BY <3>1 DEF Moves, Waiting, EmitEarly
      <3>3. pc[w] \notin Waiting /\ pc[w] \in EmitEarly /\ pc[w] \in EmitPC
        BY <3>1 DEF Waiting, EmitEarly, EmitPC
      <3>4. Call(w).op = "emit" /\ at[w] \in DOMAIN CallsOf(job[w])
        BY <3>3 DEF CountInv, JobInv
      <3>5. /\ at[w] \in Late(w, "emit", EmitEarly)
            /\ Late(w, "emit", EmitEarly)' = Late(w, "emit", EmitEarly) \ {at[w]}
            /\ \A v \in Workers \ {w} :
                 Late(v, "emit", EmitEarly)' = Late(v, "emit", EmitEarly)
        BY <3>1, <3>2, <3>3, <3>4, LateLess DEF CountInv
      <3>6. PICK call : call \notin Done /\ Done' = Done \cup {call}
        BY <3>1, <3>3, <3>5, CountedOne DEF CountInv
      <3>7. Cardinality(Done') = Cardinality(Done) + 1
        BY <1>0, <3>6, FS_AddElement
      <3>8. \A v \in Workers : pc[v] = "emit_add" => reg[v] <= Cardinality(Done)
        BY DEF EmitTotal
      <3> HIDE DEF Done
      <3>9. emit_count_' <= Cardinality(Done')
        BY <1>0, <2>3, <3>1, <3>7, <3>8
      <3>10. ASSUME NEW v \in Workers, pc'[v] = "emit_add" PROVE reg'[v] <= Cardinality(Done')
        <4>1. pc[v] = "emit_add" /\ reg'[v] = reg[v] /\ reg[v] \in Nat
          BY <2>3, <3>1, <3>10
        <4> QED
          BY <1>0, <3>7, <3>8, <4>1
      <3> QED
        BY <3>9, <3>10 DEF EmitTotal, Done
    <2>7. CASE ~TakeRecord(w) /\ ~EmitLoad(w) /\ ~EmitAdd(w)
      <3>1. Done' = Done
        BY <2>2, <2>7
      <3>2. emit_count_' = emit_count_
        BY <1>4, <2>7 DEF Worker, Start, StartFails, EndThread, MapReturns, EmitLock,
          EmitIncrement, EmitKey, EmitUnlock, EmitPut, SizeLoad, SizeAdd, SetLock, SetLoad,
          SetAdd, SetUnlock, SetPut, PutFails, Lock, Unlock, totals
      <3>3. pc'[w] = "emit_add" => pc[w] = "emit_add" /\ reg'[w] = reg[w]
        BY <1>4, <2>3, <2>7 DEF Worker, Start, StartFails, EndThread, MapReturns, EmitLock,
          EmitIncrement, EmitKey, EmitUnlock, EmitPut, SizeLoad, SizeAdd, SetLock, SetLoad,
          SetAdd, SetUnlock, SetPut, PutFails, Lock, Unlock, Return, Goto, workerVars
      <3>4. \A v \in Workers \ {w} : pc'[v] = pc[v] /\ reg'[v] = reg[v]
        BY <2>1, <2>7 DEF SizeLoad, SetLoad
      <3> QED
        BY <1>1, <3>1, <3>2, <3>3, <3>4
    <2> QED
      BY <2>4, <2>5, <2>6, <2>7
  <1> QED
    BY <1>2, <1>3, <1>4 DEF Next, Terminated

\* Calls emit a number of bytes.
LEMMA BytesFinite ==
  ASSUME ProperCalls, TakenTypes, NEW calls, IsFiniteSet(calls), calls \subseteq CallsBegun
  PROVE  IsFiniteSet(BytesOf(calls))
  <1> DEFINE f == [call \in calls |-> {call} \X (1..CallAt(call).size)]
  <1>1. ASSUME NEW call \in calls PROVE IsFiniteSet(f[call])
    <2>1. call[1] \in DOMAIN taken /\ call[2] \in DOMAIN CallsOf(taken[call[1]].item)
      BY CallPairs
    <2>2. PICK r \in Records : r = taken[call[1]].item
      BY <2>1, TakenRecords
    <2>3. CallsOf(r) = Calls[r]
      BY <2>1, <2>2 DEF CallsOf
    <2>4. CallAt(call).size \in Nat
      BY <2>1, <2>2, <2>3 DEF ProperCalls, CallAt
    <2>5. IsFiniteSet(1..CallAt(call).size)
      BY <2>4, FS_Interval
    <2> QED
      BY <2>5, FS_Singleton, FS_Product
  <1>2. DOMAIN f = calls
    OBVIOUS
  <1>3. BytesOf(calls) = UNION {f[call] : call \in calls}
    BY DEF BytesOf
  <1> HIDE DEF f
  <1> QED
    BY <1>1, <1>2, <1>3, FiniteUnion

\* A call adds its bytes.
LEMMA BytesAdd ==
  ASSUME ProperCalls, TakenTypes, NEW calls, IsFiniteSet(calls), calls \subseteq CallsBegun,
         NEW call \in CallsBegun, call \notin calls, CallAt(call).size \in Nat
  PROVE  Cardinality(BytesOf(calls \cup {call}))
           = Cardinality(BytesOf(calls)) + CallAt(call).size
  <1>0. PICK n \in Nat : n = CallAt(call).size
    OBVIOUS
  <1> DEFINE own == {call} \X (1..n)
  <1>1. BytesOf(calls \cup {call}) = BytesOf(calls) \cup own
    BY <1>0 DEF BytesOf
  <1>2. BytesOf(calls) \cap own = {}
    BY DEF BytesOf
  <1>3. IsFiniteSet(BytesOf(calls))
    BY BytesFinite
  <1>4. IsFiniteSet(1..n) /\ Cardinality(1..n) = n
    BY FS_Interval
  <1>5. IsFiniteSet({call}) /\ Cardinality({call}) = 1
    BY FS_Singleton
  <1>6. IsFiniteSet(own) /\ Cardinality(own) = n
    <2>1. IsFiniteSet(own) /\ Cardinality(own) = Cardinality({call}) * Cardinality(1..n)
      BY <1>4, <1>5, FS_Product
    <2> QED
      BY <1>4, <1>5, <2>1
  <1>7. Cardinality({}) = 0
    BY FS_EmptySet
  <1> HIDE DEF own
  <1>8. Cardinality(BytesOf(calls) \cup own)
          = Cardinality(BytesOf(calls)) + Cardinality(own) - Cardinality(BytesOf(calls) \cap own)
    BY <1>3, <1>6, FS_Union
  <1>9. Cardinality(BytesOf(calls)) \in Nat
    BY <1>3, FS_CardinalityType
  <1>10. Cardinality(BytesOf(calls) \cap own) = 0
    BY <1>2, <1>7
  <1>11. Cardinality(BytesOf(calls) \cup own) = Cardinality(BytesOf(calls)) + n
    BY <1>6, <1>8, <1>9, <1>10
  <1> QED
    BY <1>0, <1>1, <1>11

\* Counted calls that are counted as before have the bytes they had.
LEMMA BytesKept ==
  ASSUME NEW op, NEW early, \A call \in CallsBegun : CallAt(call)' = CallAt(call),
         Counted(op, early)' = Counted(op, early)
  PROVE  BytesOf(Counted(op, early))' = BytesOf(Counted(op, early))
  <1>1. Counted(op, early) \subseteq CallsBegun
    BY DEF Counted, CallsMade
  <1>2. PICK calls : calls = Counted(op, early)
    OBVIOUS
  <1>3. BytesOf(Counted(op, early))' = UNION {{call} \X (1..CallAt(call)'.size) : call \in calls}
    BY <1>2 DEF BytesOf
  <1>4. BytesOf(Counted(op, early)) = UNION {{call} \X (1..CallAt(call).size) : call \in calls}
    BY <1>2 DEF BytesOf
  <1>5. \A call \in calls : CallAt(call)' = CallAt(call)
    BY <1>1, <1>2
  <1> QED
    BY <1>3, <1>4, <1>5

\* The sizes are summed up outside the mutex, too.
LEMMA SizeTotalStep == ProperCalls /\ CountInv /\ SizeTotal /\ [Next]_vars => SizeTotal'
  <1> SUFFICES ASSUME ProperCalls, CountInv, SizeTotal, [Next]_vars PROVE SizeTotal'
    OBVIOUS
  <1> DEFINE Done == Counted("emit", SizeEarly)
             Bytes == BytesOf(Done)
  <1>0. /\ IsFiniteSet(Done) /\ Done \subseteq CallsBegun
        /\ IsKind("emit", SizeEarly) /\ "map" \in SizeEarly
    BY CountedFinite DEF CountInv, IsKind, SizeEarly, CallsMade
  <1>b. IsFiniteSet(Bytes) /\ Cardinality(Bytes) \in Nat
    BY <1>0, BytesFinite, FS_CardinalityType DEF CountInv
  <1>1. ASSUME Bytes' = Bytes, emit_size_estimate_' = emit_size_estimate_,
               \A v \in Workers : pc'[v] = "size_add" => pc[v] = "size_add" /\ reg'[v] = reg[v]
        PROVE  SizeTotal'
    BY <1>1 DEF SizeTotal
  <1>k. ASSUME UNCHANGED taken PROVE \A call \in CallsBegun : CallAt(call)' = CallAt(call)
    BY <1>k DEF CallAt, CallsOf
  <1>2. CASE UNCHANGED vars
    <2>1. Done' = Done /\ UNCHANGED taken
      BY <1>2 DEF vars, workerVars, queueVars, Counted, CallsMade, CallsBegun, CallAt, CallsOf,
                  LastOf, Late
    <2>2. Bytes' = Bytes
      BY <1>k, <2>1, BytesKept
    <2> QED
      BY <1>1, <1>2, <2>2 DEF vars, workerVars, totals
  <1>3. CASE MainThread
    <2>1. /\ UNCHANGED <<taken, reg, totals>>
          /\ \A v \in Workers : /\ pc'[v] = pc[v] \/ pc'[v] \in Waiting
                                /\ Late(v, "emit", SizeEarly)' = Late(v, "emit", SizeEarly)
      BY <1>3, MainLate DEF CountInv
    <2>2. Done' = Done
      BY <2>1, CountedStays
    <2>3. Bytes' = Bytes
      BY <1>k, <2>1, <2>2, BytesKept
    <2> QED
      BY <1>1, <2>1, <2>3 DEF totals, Waiting
  <1>4. ASSUME NEW w \in Workers, Worker(w) PROVE SizeTotal'
    <2>1. \A v \in Workers :
            /\ reg'[v] = reg[v] \/ (v = w /\ (EmitLoad(w) \/ SizeLoad(w) \/ SetLoad(w)))
            /\ pc'[v] = pc[v] \/ v = w
      BY <1>4, RegOfOthers
    <2>2. ASSUME ~TakeRecord(w), EmitAdd(w) => env.optimize_bucket_count, ~SizeAdd(w)
          PROVE  Bytes' = Bytes
      <3>1. \A v \in Workers : Late(v, "emit", SizeEarly)' = Late(v, "emit", SizeEarly)
        <4>1. SizeEarly # PutEarly
          BY DEF SizeEarly, PutEarly
        <4> QED
          BY <1>0, <1>4, <2>2, <4>1, WorkerLate DEF CountInv
      <3>2. UNCHANGED taken
        BY <1>4, <2>2, TakenKept
      <3>3. Done' = Done
        BY <3>1, <3>2, CountedStays
      <3> QED
        BY <1>k, <3>2, <3>3, BytesKept
    <2>3. /\ pc \in [Workers -> WorkerPC] /\ reg \in [Workers -> Nat]
          /\ emit_size_estimate_ \in Nat
      BY DEF CountInv, ShapeInv, TotalTypes
    <2>4. CASE TakeRecord(w)
      <3>1. Done' = Done /\ \A call \in CallsBegun : CallAt(call)' = CallAt(call)
        BY <1>0, <2>4, CountedTaken DEF CountInv
      <3>2. Bytes' = Bytes
        BY <3>1, BytesKept
      <3>3. pc'[w] = "map" /\ emit_size_estimate_' = emit_size_estimate_ /\ reg' = reg
        BY <2>3, <2>4 DEF TakeRecord, Goto, totals
      <3> QED
        BY <1>1, <2>1, <3>2, <3>3
    <2>5. CASE SizeLoad(w)
      <3>1. Bytes' = Bytes
        BY <2>2, <2>5 DEF SizeLoad, SizeAdd, EmitAdd, TakeRecord, Return, Goto
      <3>2. emit_size_estimate_' = emit_size_estimate_ /\ reg'[w] = emit_size_estimate_
        BY <2>3, <2>5 DEF SizeLoad, totals
      <3>3. \A v \in Workers \ {w} : pc'[v] = pc[v] /\ reg'[v] = reg[v]
        BY <2>1
      <3> QED
        BY <3>1, <3>2, <3>3 DEF SizeTotal
    <2>9. ASSUME pc[w] \in {"emit_add", "size_add"}, NEW to, Moves(w, to), to \notin Waiting,
                 UNCHANGED <<taken, job>>,
                 \/ UNCHANGED at /\ to \notin SizeEarly
                 \/ at' = [at EXCEPT ![w] = @ + 1] /\ to \in SizeEarly
          PROVE  Call(w).size \in Nat /\ Cardinality(Bytes') = Cardinality(Bytes) + Call(w).size
      <3>1. pc[w] \notin Waiting /\ pc[w] \in SizeEarly /\ pc[w] \in EmitPC
        BY <2>9 DEF Waiting, SizeEarly, EmitPC
      <3>2. Call(w).op = "emit" /\ at[w] \in DOMAIN CallsOf(job[w])
        BY <3>1 DEF CountInv, JobInv
      <3>3. /\ at[w] \in Late(w, "emit", SizeEarly)
            /\ Late(w, "emit", SizeEarly)' = Late(w, "emit", SizeEarly) \ {at[w]}
            /\ \A v \in Workers \ {w} :
                 Late(v, "emit", SizeEarly)' = Late(v, "emit", SizeEarly)
        BY <2>9, <3>1, <3>2, LateLess DEF CountInv
      <3>4. PICK call \in CallsMade("emit") :
              call \notin Done /\ Done' = Done \cup {call} /\ CallAt(call) = Call(w)
        BY <2>9, <3>1, <3>3, CountedOne DEF CountInv
      <3>5. Call(w).size \in Nat
        BY <3>1, EmitListed DEF CountInv, ProperCalls
      <3>6. PICK done : done = Done
        OBVIOUS
      <3>7. call \in CallsBegun
        BY DEF CallsMade
      <3>8. Bytes' = BytesOf(done \cup {call})
        <4>1. Bytes' = UNION {{c} \X (1..CallAt(c)'.size) : c \in done \cup {call}}
          BY <3>4, <3>6 DEF BytesOf
        <4>2. \A c \in done \cup {call} : CallAt(c)' = CallAt(c)
          BY <1>0, <1>k, <2>9, <3>6, <3>7
        <4> QED
          BY <4>1, <4>2 DEF BytesOf
      <3>9. Cardinality(BytesOf(done \cup {call}))
              = Cardinality(BytesOf(done)) + CallAt(call).size
        BY <1>0, <3>4, <3>5, <3>6, <3>7, BytesAdd DEF CountInv
      <3>10. BytesOf(done) = Bytes
        BY <3>6
      <3> QED
        BY <3>4, <3>5, <3>8, <3>9, <3>10
    <2>10. /\ emit_size_estimate_ <= Cardinality(Bytes)
           /\ \A v \in Workers : pc[v] = "size_add" => reg[v] <= Cardinality(Bytes)
      BY DEF SizeTotal
    <2>6. CASE SizeAdd(w)
      <3>1. /\ pc[w] = "size_add" /\ pc' = [pc EXCEPT ![w] = "map"]
            /\ UNCHANGED <<taken, job, slot, reg>> /\ at' = [at EXCEPT ![w] = @ + 1]
            /\ emit_size_estimate_' = reg[w] + Call(w).size
        BY <2>6 DEF SizeAdd, Return, Goto, queueVars
      <3>2. PICK to : to = "map"
        OBVIOUS
      <3>3. Moves(w, to) /\ to \notin Waiting /\ to \in SizeEarly
        BY <3>1, <3>2 DEF Moves, Waiting, SizeEarly, CountInv, ShapeInv
      <3>4. Call(w).size \in Nat /\ Cardinality(Bytes') = Cardinality(Bytes) + Call(w).size
        BY <2>9, <3>1, <3>3
      <3>5. reg[w] <= Cardinality(Bytes)
        BY <2>10, <3>1
      <3> HIDE DEF Bytes
      <3>6. emit_size_estimate_' <= Cardinality(Bytes')
        BY <1>b, <2>3, <3>1, <3>4, <3>5
      <3>7. ASSUME NEW v \in Workers, pc'[v] = "size_add"
            PROVE  reg'[v] <= Cardinality(Bytes')
        <4>1. pc[v] = "size_add" /\ reg'[v] = reg[v] /\ reg[v] \in Nat
          BY <2>3, <3>1, <3>7
        <4> QED
          BY <1>b, <2>10, <3>4, <4>1
      <3> QED
        BY <3>6, <3>7 DEF SizeTotal, Bytes
    <2>7. CASE EmitAdd(w) /\ ~env.optimize_bucket_count
      <3>1. PICK to : to = "emit_lock"
        OBVIOUS
      <3>2. /\ pc[w] = "emit_add" /\ pc' = [pc EXCEPT ![w] = to]
            /\ UNCHANGED <<taken, job, at, slot, reg, emit_size_estimate_>>
        BY <2>7, <3>1 DEF EmitAdd, Goto, queueVars
      <3>3. Moves(w, to) /\ to \notin Waiting /\ to \notin SizeEarly
        BY <3>1, <3>2 DEF Moves, Waiting, SizeEarly
      <3>4. Call(w).size \in Nat /\ Cardinality(Bytes') = Cardinality(Bytes) + Call(w).size
        BY <2>9, <3>2, <3>3
      <3> HIDE DEF Bytes
      <3>5. emit_size_estimate_' <= Cardinality(Bytes')
        BY <1>b, <2>3, <2>10, <3>2, <3>4
      <3>6. ASSUME NEW v \in Workers, pc'[v] = "size_add"
            PROVE  reg'[v] <= Cardinality(Bytes')
        <4>1. pc[v] = "size_add" /\ reg'[v] = reg[v] /\ reg[v] \in Nat
          BY <2>3, <3>1, <3>2, <3>6
        <4> QED
          BY <1>b, <2>10, <3>4, <4>1
      <3> QED
        BY <3>5, <3>6 DEF SizeTotal, Bytes
    <2>8. CASE /\ ~TakeRecord(w) /\ ~SizeLoad(w) /\ ~SizeAdd(w)
               /\ EmitAdd(w) => env.optimize_bucket_count
      <3>1. Bytes' = Bytes
        BY <2>2, <2>8
      <3>2. emit_size_estimate_' = emit_size_estimate_
        BY <1>4, <2>8 DEF Worker, Start, StartFails, EndThread, MapReturns, EmitLoad, EmitAdd,
          EmitLock, EmitIncrement, EmitKey, EmitUnlock, EmitPut, SetLock, SetLoad, SetAdd,
          SetUnlock, SetPut, PutFails, Lock, Unlock, totals
      <3>3. pc'[w] = "size_add" => pc[w] = "size_add" /\ reg'[w] = reg[w]
        BY <1>4, <2>3, <2>8 DEF Worker, Start, StartFails, EndThread, MapReturns, EmitLoad,
          EmitAdd, EmitLock, EmitIncrement, EmitKey, EmitUnlock, EmitPut, SetLock, SetLoad,
          SetAdd, SetUnlock, SetPut, PutFails, Lock, Unlock, Return, Goto, workerVars
      <3>4. \A v \in Workers \ {w} : pc'[v] = pc[v] /\ reg'[v] = reg[v]
        BY <2>1
      <3> QED
        BY <1>1, <3>1, <3>2, <3>3, <3>4
    <2> QED
      BY <2>4, <2>5, <2>6, <2>7, <2>8
  <1> QED
    BY <1>2, <1>3, <1>4 DEF Next, Terminated

------------------------------------------------------------------------------
LEMMA MapInit == Init => MapInv
  <1> SUFFICES ASSUME Init PROVE MapInv
    OBVIOUS
  <1> USE DEF Init, Waiting
  <1>1. ShapeInv
    BY DEF ShapeInv, WorkerPC
  <1>2. MutexInv /\ JobInv /\ FreshInv /\ FileInv
    BY DEF MutexInv, Critical, JobInv, EmitPC, SetPC, FreshInv, FileInv
  <1>3. counts = EmptyMap /\ DOMAIN counts = {} /\ counts \in [DOMAIN counts -> Nat]
    BY DEF EmptyMap
  <1>4. NumberInv
    BY <1>3 DEF NumberInv, HandedOut, EveryNumberHasItsEmit, InHand
  <1> QED
    BY <1>1, <1>2, <1>4 DEF MapInv, ThreadInv

LEMMA ThreadStep == ThreadInv /\ [Next]_vars => ThreadInv'
  BY ShapeStep, MutexStep, FreshStep, FileStep DEF ThreadInv

\* map_out_db_ is opened and closed by the main thread without a lock.  No
\* worker calls tchdbput on it before or after, for any input and any failure.
THEOREM PutWhileOpenTheorem == Spec => []PutWhileOpen
  <1>1. Init => ThreadInv
    BY MapInit DEF MapInv
  <1>2. ThreadInv => PutWhileOpen
    BY DEF ThreadInv, FreshInv, FileInv, PutWhileOpen, Waiting
  <1> QED
    BY <1>1, <1>2, ThreadStep, PTL DEF Spec

\* The inductive invariant of the map phase: emit_mutex_ excludes, a worker
\* within emit or set runs a call of its record, and the numbers are as
\* EveryNumberHasItsEmit says.  It holds as long as no count wraps around.
THEOREM MapInvariant ==
  ASSUME PlainEmits
  PROVE  Spec /\ []NoWrap => []MapInv
  <1>1. Init => MapInv
    BY MapInit
  <1>2. ListedCalls
    BY DEF PlainEmits, ListedCalls
  <1>3. MapInv /\ NoWrap /\ [Next]_vars => MapInv'
    BY <1>2, ThreadStep, JobStep, NumberStep DEF MapInv, ThreadInv
  <1> QED
    BY <1>1, <1>3, PTL DEF Spec

\* Mapper::emit, under any interleaving of any number of workers: every number
\* handed out has its value in the file, or is in the hands of exactly one
\* worker.
THEOREM EveryNumberTheorem ==
  ASSUME PlainEmits
  PROVE  Spec /\ []NoWrap => []EveryNumberHasItsEmit
  <1>1. MapInv => EveryNumberHasItsEmit
    BY DEF MapInv, NumberInv
  <1> QED
    BY <1>1, MapInvariant, PTL

\* The inductive invariant of the totals.
PhaseIInv ==
  /\ ThreadInv /\ JobInv
  /\ Types /\ TotalTypes /\ KeyTypes /\ TakenTypes
  /\ LastInv /\ SetTotal /\ EmitTotal /\ SizeTotal

LEMMA PhaseInit == Init => PhaseIInv
  <1> SUFFICES ASSUME Init PROVE PhaseIInv
    OBVIOUS
  <1>1. ThreadInv /\ JobInv
    BY MapInit DEF MapInv
  <1> USE DEF Init
  <1>2. Types
    <2>1. Len(Files) \in Nat
      BY MapAssumption
    <2>2. fileNo \in 1..Len(Files) + 1
      BY <2>1
    <2>3. qdone \in BOOLEAN /\ dbOpen \in BOOLEAN /\ dead \in BOOLEAN
      OBVIOUS
    <2> QED
      BY <2>2, <2>3, Zenon DEF Types
  <1>3. TotalTypes /\ TakenTypes
    <2>1. taken \in Seq([by : Workers, item : Records])
      OBVIOUS
    <2> QED
      BY <2>1 DEF TotalTypes, TakenTypes
  <1>4. KeyTypes
    BY DEF KeyTypes, EmptyMap
  <1>5. LastInv
    BY DEF LastInv, Waiting
  <1>6. CallsBegun = {}
    BY DEF CallsBegun
  <1>7. Counted("set", SetEarly) = {} /\ Counted("emit", EmitEarly) = {}
          /\ Counted("emit", SizeEarly) = {}
    BY <1>6 DEF Counted, CallsMade
  <1>8. BytesOf(Counted("emit", SizeEarly)) = {}
    BY <1>7 DEF BytesOf
  <1>9. Cardinality({}) = 0
    BY FS_EmptySet
  <1>10. /\ set_count_ = 0 /\ emit_count_ = 0 /\ emit_size_estimate_ = 0
         /\ \A w \in Workers : pc[w] \notin {"set_add", "emit_add", "size_add"}
    OBVIOUS
  <1>11. 0 <= 0
    OBVIOUS
  <1>12. SetTotal /\ EmitTotal /\ SizeTotal
    <2> USE <1>10
    <2>1. SetTotal
      BY <1>7, <1>9 DEF SetTotal
    <2>2. EmitTotal
      BY <1>7, <1>9, <1>11 DEF EmitTotal
    <2>3. SizeTotal
      BY <1>8, <1>9, <1>11 DEF SizeTotal
    <2> QED
      BY <2>1, <2>2, <2>3
  <1> QED
    BY <1>1, <1>2, <1>3, <1>4, <1>5, <1>12 DEF PhaseIInv

\* When the main thread has joined the workers no call is uncounted.
LEMMA TotalsMeant == PhaseIInv => TotalsAtExit
  <1> SUFFICES ASSUME PhaseIInv, main = "exited" PROVE TotalsAtExit
    BY DEF TotalsAtExit
  <1>1. \A w \in Workers : pc[w] \in Waiting
    BY DEF PhaseIInv, ThreadInv, FileInv, Waiting
  <1>2. \A w \in Workers : \A op, early : Late(w, op, early) = {}
    BY <1>1 DEF Late
  <1>3. /\ Counted("set", SetEarly) = CallsMade("set")
        /\ Counted("emit", EmitEarly) = CallsMade("emit")
        /\ Counted("emit", SizeEarly) = CallsMade("emit")
    BY <1>2 DEF Counted
  <1> QED
    BY <1>3 DEF PhaseIInv, SetTotal, EmitTotal, SizeTotal, TotalsAtExit

\* What holds at every step of the map phase, for any number of workers, any
\* input and any failure: the types, the file open at every put, and the totals
\* Mapper::end prints, exact for the sets and never too high for the emits.
THEOREM PhaseInvTheorem ==
  ASSUME ProperCalls
  PROVE  Spec => []PhaseInv
  <1>1. Init => PhaseIInv
    BY PhaseInit
  <1>2. ListedCalls
    BY DEF ProperCalls, ListedCalls
  <1>3. PhaseIInv /\ [Next]_vars => PhaseIInv'
    <2> SUFFICES ASSUME PhaseIInv, [Next]_vars PROVE PhaseIInv'
      OBVIOUS
    <2>1. CountInv /\ ThreadInv /\ SetTotal /\ EmitTotal /\ SizeTotal
      BY <1>2 DEF PhaseIInv, CountInv, ThreadInv
    <2>2. ThreadInv' /\ JobInv'
      BY <1>2, ThreadStep, JobStep DEF PhaseIInv, ThreadInv
    <2>3. Types' /\ TotalTypes' /\ KeyTypes' /\ TakenTypes'
      BY TypesStep, TotalTypesStep, KeyTypesStep, TakenTypesStep DEF PhaseIInv, ThreadInv
    <2>4. LastInv' /\ SetTotal' /\ EmitTotal' /\ SizeTotal'
      BY <2>1, LastStep, SetTotalStep, EmitTotalStep, SizeTotalStep DEF CountInv
    <2> QED
      BY <2>2, <2>3, <2>4 DEF PhaseIInv
  <1>4. PhaseIInv => TypeOK
    BY DEF PhaseIInv, ThreadInv, ShapeInv, Types, TotalTypes, KeyTypes, TakenTypes, TypeOK
  <1>5. PhaseIInv => PutWhileOpen
    BY DEF PhaseIInv, ThreadInv, FreshInv, FileInv, PutWhileOpen, Waiting
  <1>6. PhaseIInv => PhaseInv
    BY <1>4, <1>5, TotalsMeant DEF PhaseInv
  <1> QED
    BY <1>1, <1>3, <1>6, PTL DEF Spec

------------------------------------------------------------------------------
(* What the phase promises: the channel.                                   *)

LEMMA FilesListed ==
  /\ Len(Files) \in Nat /\ DOMAIN Files = 1..Len(Files)
  /\ \A i \in DOMAIN Files :
       /\ Files[i].records \in Seq(Records)
       /\ DOMAIN Files[i].records = 1..Len(Files[i].records)
       /\ Len(Files[i].records) \in Nat
  <1> DEFINE File == [opens : BOOLEAN, records : Seq(Records)]
  <1>1. Files \in Seq(File)
    BY MapAssumption
  <1>2. \A f \in File : f.records \in Seq(Records)
    OBVIOUS
  <1> HIDE DEF File
  <1>3. \A i \in DOMAIN Files : Files[i] \in File
    BY <1>1
  <1> QED
    BY <1>1, <1>2, <1>3

\* A place is a pair of a file that opens and a record of it that is selected.
LEMMA PlacePairs ==
  /\ \A i \in DOMAIN Files : \A j \in DOMAIN Files[i].records :
       Files[i].opens /\ Matches(Files[i].records[j]) => <<i, j>> \in Places
  /\ \A q \in Places :
       /\ q = <<q[1], q[2]>>
       /\ q[1] \in DOMAIN Files /\ Files[q[1]].opens
       /\ q[2] \in DOMAIN Files[q[1]].records
       /\ Matches(Files[q[1]].records[q[2]])
       /\ q[1] \in Nat /\ q[2] \in Nat
       /\ Files[q[1]].records[q[2]] \in Records
  <1>1. \A i \in DOMAIN Files : \A j \in DOMAIN Files[i].records :
          Files[i].opens /\ Matches(Files[i].records[j]) => <<i, j>> \in Places
    BY DEF Places
  <1>2. ASSUME NEW q \in Places
        PROVE  /\ q = <<q[1], q[2]>>
               /\ q[1] \in DOMAIN Files /\ Files[q[1]].opens
               /\ q[2] \in DOMAIN Files[q[1]].records
               /\ Matches(Files[q[1]].records[q[2]])
    BY DEF Places
  <1>3. ASSUME NEW q \in Places
        PROVE  q[1] \in Nat /\ q[2] \in Nat /\ Files[q[1]].records[q[2]] \in Records
    BY <1>2, FilesListed
  <1> QED
    BY <1>1, <1>2, <1>3

LEMMA PlacesFinite ==
  /\ IsFiniteSet(Places) /\ Cardinality(Places) \in Nat
  /\ \A i, j : /\ PlacesBefore(i, j) \subseteq Places
               /\ IsFiniteSet(PlacesBefore(i, j))
               /\ Cardinality(PlacesBefore(i, j)) \in Nat
               /\ Cardinality(PlacesBefore(i, j)) <= Cardinality(Places)
  <1> DEFINE f == [i \in {i \in DOMAIN Files : Files[i].opens} |->
                     {i} \X {j \in DOMAIN Files[i].records : Matches(Files[i].records[j])}]
  <1>1. IsFiniteSet({i \in DOMAIN Files : Files[i].opens})
    <2>1. IsFiniteSet(DOMAIN Files)
      BY FilesListed, FS_Interval
    <2> QED
      BY <2>1, FS_Subset
  <1>2. ASSUME NEW i \in {i \in DOMAIN Files : Files[i].opens} PROVE IsFiniteSet(f[i])
    <2>0. /\ DOMAIN Files[i].records = 1..Len(Files[i].records)
          /\ Len(Files[i].records) \in Nat
      BY FilesListed
    <2>1. IsFiniteSet(DOMAIN Files[i].records)
      BY <2>0, FS_Interval
    <2>2. IsFiniteSet({j \in DOMAIN Files[i].records : Matches(Files[i].records[j])})
      BY <2>1, FS_Subset
    <2> QED
      BY <2>2, FS_Singleton, FS_Product
  <1>3. Places = UNION {f[i] : i \in {i \in DOMAIN Files : Files[i].opens}}
    BY DEF Places
  <1>4. DOMAIN f = {i \in DOMAIN Files : Files[i].opens}
    OBVIOUS
  <1> HIDE DEF f
  <1>5. IsFiniteSet(Places)
    BY <1>1, <1>2, <1>3, <1>4, FiniteUnion
  <1>6. \A i, j : PlacesBefore(i, j) \subseteq Places
    BY DEF PlacesBefore
  <1> QED
    BY <1>5, <1>6, FS_Subset, FS_CardinalityType

\* Two places that have the same number of places before them are the same.
LEMMA OnePlaceEach ==
  ASSUME NEW p \in Places, NEW q \in Places,
         Cardinality(PlacesBefore(p[1], p[2])) = Cardinality(PlacesBefore(q[1], q[2]))
  PROVE  p = q
  <1>1. ASSUME NEW a \in Places, NEW b \in Places, a[1] < b[1] \/ (a[1] = b[1] /\ a[2] < b[2])
        PROVE  Cardinality(PlacesBefore(a[1], a[2])) < Cardinality(PlacesBefore(b[1], b[2]))
    <2>1. a \in PlacesBefore(b[1], b[2])
      BY <1>1 DEF PlacesBefore
    <2>2. a \notin PlacesBefore(a[1], a[2])
      BY PlacePairs DEF PlacesBefore
    <2>3. PlacesBefore(a[1], a[2]) \subseteq PlacesBefore(b[1], b[2])
      BY <1>1, PlacePairs DEF PlacesBefore
    <2>4. /\ Cardinality(PlacesBefore(a[1], a[2])) <= Cardinality(PlacesBefore(b[1], b[2]))
          /\ (Cardinality(PlacesBefore(a[1], a[2])) = Cardinality(PlacesBefore(b[1], b[2])) =>
                PlacesBefore(a[1], a[2]) = PlacesBefore(b[1], b[2]))
      BY <2>3, PlacesFinite, FS_Subset
    <2> QED
      BY <2>1, <2>2, <2>4, PlacesFinite
  <1>2. p[1] < q[1] \/ (p[1] = q[1] /\ p[2] < q[2]) \/ q[1] < p[1] \/ (p[1] = q[1] /\ q[2] < p[2])
          \/ (p[1] = q[1] /\ p[2] = q[2])
    BY PlacePairs
  <1>3. ~(p[1] < q[1] \/ (p[1] = q[1] /\ p[2] < q[2])) /\ ~(q[1] < p[1] \/ (p[1] = q[1] /\ q[2] < p[2]))
    BY <1>1, PlacesFinite
  <1>4. p = <<p[1], p[2]>> /\ q = <<q[1], q[2]>>
    BY PlacePairs
  <1> QED
    BY <1>2, <1>3, <1>4

\* The record at a place is selected as the one after those before it.
LEMMA SelectedThere ==
  ASSUME NEW p \in Places
  PROVE  /\ Cardinality(PlacesBefore(p[1], p[2])) < Cardinality(Places)
         /\ Selected[Cardinality(PlacesBefore(p[1], p[2])) + 1] = Files[p[1]].records[p[2]]
  <1>n. PICK n : n = Cardinality(PlacesBefore(p[1], p[2]))
    OBVIOUS
  <1>1. n < Cardinality(Places)
    <2>1. p \notin PlacesBefore(p[1], p[2])
      BY PlacePairs DEF PlacesBefore
    <2>p. PICK P : P = PlacesBefore(p[1], p[2])
      OBVIOUS
    <2>3. P \subseteq Places /\ P # Places
      BY <2>1, <2>p, PlacesFinite
    <2>2. Cardinality(P) # Cardinality(Places)
      BY <2>3, PlacesFinite, FS_Subset
    <2> QED
      BY <1>n, <2>p, <2>2, PlacesFinite
  <1>2. n + 1 \in 1..Cardinality(Places) /\ n + 1 - 1 = n
    BY <1>1, <1>n, PlacesFinite
  <1>3. Selected[n + 1] = SelectedAt(n + 1)
    BY <1>2 DEF Selected
  <1>m. PICK m : m = n + 1
    OBVIOUS
  <1>k. m - 1 = n
    BY <1>m, <1>n, PlacesFinite
  <1>c. PICK c : c = CHOOSE q \in Places : Cardinality(PlacesBefore(q[1], q[2])) = m - 1
    OBVIOUS
  <1>4. c = p
    <2>1. \E q \in Places : Cardinality(PlacesBefore(q[1], q[2])) = m - 1
      BY <1>n, <1>k
    <2>2. c \in Places /\ Cardinality(PlacesBefore(c[1], c[2])) = m - 1
      BY <1>c, <2>1, Zenon
    <2> QED
      BY <1>n, <1>k, <2>2, OnePlaceEach
  <1>5. SelectedAt(m) = Files[c[1]].records[c[2]]
    BY <1>c DEF SelectedAt
  <1>6. Selected[n + 1] = Files[p[1]].records[p[2]]
    BY <1>3, <1>4, <1>5, <1>m
  <1> QED
    BY <1>1, <1>6, <1>n

\* The places the iteration is through with.
Passed ==
  CASE main \in {"create", "open"} -> {}
    [] main = "pick" -> PlacesBefore(fileNo, 1)
    [] main = "read" -> PlacesBefore(fileNo, recNo)
    [] OTHER -> Places

\* The queue and what was taken from it are the records of those places, in
\* their order; no worker ends before the queue is closed and empty.
ChannelInv ==
  /\ Len(taken) + Len(queue) = Cardinality(Passed)
  /\ \A i \in DOMAIN taken : taken[i].item = Selected[i]
  /\ \A i \in DOMAIN queue : queue[i] = Selected[Len(taken) + i]
  /\ qdone = (main \in {"join", "end", "exited"})
  /\ \A w \in Workers : pc[w] = "ended" => qdone /\ queue = <<>>
  /\ main \in {"create", "open"} => fileNo = 1
  /\ main = "read" => Files[fileNo].opens
  /\ main \in {"create", "open", "pick", "read", "join", "end", "exited"}

LEMMA PassedPlaces == Passed \subseteq Places /\ IsFiniteSet(Passed) /\ Cardinality(Passed) \in Nat
  <1>1. Passed \subseteq Places
    BY PlacesFinite DEF Passed
  <1> QED
    BY <1>1, PlacesFinite, FS_Subset, FS_CardinalityType

Ended == {w \in Workers : pc[w] = "ended"}

\* What none of these steps touches.
LEMMA ChannelFrame ==
  ASSUME ChannelInv, ShapeInv, UNCHANGED <<queue, qdone, taken>>, Passed' = Passed,
         \A w \in Workers : pc'[w] = "ended" => pc[w] = "ended",
         \A w \in Workers : pc[w] = "ended" => pc'[w] = "ended",
         main' \in {"create", "open", "pick", "read", "join", "end", "exited"},
         (main' \in {"join", "end", "exited"}) = (main \in {"join", "end", "exited"}),
         main' \in {"create", "open"} => fileNo' = 1,
         main' = "read" => Files[fileNo'].opens
  PROVE  ChannelInv' /\ UNCHANGED Channel!channelVars
  <1>1. Ended' = Ended
    BY DEF Ended
  <1>2. UNCHANGED Channel!channelVars
    BY <1>1 DEF Ended, Channel!channelVars
  <1>3. ChannelInv'
    BY DEF ChannelInv
  <1> QED
    BY <1>2, <1>3

\* A selected record is enqueued: the next item of the channel.
LEMMA EnqueueSends ==
  ASSUME ChannelInv, ShapeInv, TakenTypes, EnqueueRecord, UNCHANGED env
  PROVE  ChannelInv' /\ Channel!Send
  <1> USE DEF workerVars
  <1>r. PICK r : r = Files[fileNo].records[recNo]
    OBVIOUS
  <1>1. /\ main = "read" /\ recNo <= Len(Files[fileNo].records) /\ Matches(r)
        /\ Len(queue) # Capacity /\ queue' = Append(queue, r)
        /\ recNo' = recNo + 1
        /\ UNCHANGED <<main, fileNo, qdone, taken, pc>>
    BY <1>r DEF EnqueueRecord
  <1>2. /\ fileNo \in Nat /\ recNo \in Nat \ {0} /\ fileNo # 0 /\ fileNo <= Len(Files)
        /\ queue \in Seq(Records) /\ Len(taken) \in Nat /\ DOMAIN taken = 1..Len(taken)
    BY <1>1, TakenRecords DEF ShapeInv
  <1>p. PICK p : p = <<fileNo, recNo>>
    OBVIOUS
  <1>3. p \in Places /\ p[1] = fileNo /\ p[2] = recNo /\ r \in Records
    <2>1. Files[fileNo].opens
      BY <1>1 DEF ChannelInv
    <2>2. fileNo \in DOMAIN Files /\ recNo \in DOMAIN Files[fileNo].records
      BY <1>1, <1>2, FilesListed
    <2>3. p \in Places
      BY <1>1, <1>p, <1>r, <2>1, <2>2, PlacePairs
    <2> QED
      BY <1>p, <1>r, <2>3, PlacePairs
  <1>n. PICK n : n = Cardinality(PlacesBefore(fileNo, recNo))
    OBVIOUS
  <1>4. Passed = PlacesBefore(fileNo, recNo) /\ Passed' = PlacesBefore(fileNo, recNo + 1)
    BY <1>1 DEF Passed
  <1>5. n \in Nat /\ n < Cardinality(Places) /\ Selected[n + 1] = r /\ Cardinality(Places) \in Nat
    BY <1>3, <1>n, <1>r, SelectedThere, PlacesFinite
  <1>6. Cardinality(Passed') = n + 1
    <2>1. PlacesBefore(fileNo, recNo + 1) = PlacesBefore(fileNo, recNo) \cup {p}
      <3>1. ASSUME NEW q \in Places PROVE q \in PlacesBefore(fileNo, recNo + 1) <=> q \in PlacesBefore(fileNo, recNo) \/ q = p
        <4>1. q[1] \in Nat /\ q[2] \in Nat /\ (q[1] = fileNo /\ q[2] = recNo => q = p)
          BY <1>p, PlacePairs
        <4>2. q[2] < recNo + 1 <=> q[2] < recNo \/ q[2] = recNo
          BY <1>2, <4>1
        <4> QED
          BY <1>2, <1>3, <4>1, <4>2 DEF PlacesBefore
      <3> QED
        BY <1>3, <3>1, PlacesFinite
    <2>2. p \notin PlacesBefore(fileNo, recNo)
      BY <1>2, <1>3 DEF PlacesBefore
    <2> QED
      BY <1>4, <1>n, <2>1, <2>2, PlacesFinite, FS_AddElement
  <1>7. Len(taken) + Len(queue) = n
    BY <1>4, <1>n DEF ChannelInv
  <1>8. /\ Len(queue) \in Nat /\ DOMAIN queue = 1..Len(queue)
        /\ Len(queue') = Len(queue) + 1 /\ DOMAIN queue' = 1..(Len(queue) + 1)
        /\ \A i \in DOMAIN queue : queue'[i] = queue[i]
        /\ queue'[Len(queue) + 1] = r
    BY <1>1, <1>2, <1>3
  <1>9. \A i \in DOMAIN queue' : queue'[i] = Selected[Len(taken) + i]
    <2>1. \A i \in DOMAIN queue : queue[i] = Selected[Len(taken) + i]
      BY DEF ChannelInv
    <2>2. Len(taken) + (Len(queue) + 1) = n + 1
      BY <1>2, <1>7, <1>8
    <2>3. \A i \in DOMAIN queue' : i \in DOMAIN queue \/ i = Len(queue) + 1
      BY <1>8
    <2> QED
      BY <1>5, <1>8, <2>1, <2>2, <2>3
  <1>10. ~qdone /\ ~qdone' /\ \A w \in Workers : pc[w] # "ended"
    BY <1>1 DEF ChannelInv
  <1>11. ChannelInv'
    <2>1. Len(taken') + Len(queue') = Cardinality(Passed')
      BY <1>1, <1>2, <1>6, <1>7, <1>8
    <2>2. /\ \A i \in DOMAIN taken' : taken'[i].item = Selected[i]
          /\ \A i \in DOMAIN queue' : queue'[i] = Selected[Len(taken') + i]
      BY <1>1, <1>9 DEF ChannelInv
    <2>3. Files[fileNo'].opens
      BY <1>1 DEF ChannelInv
    <2> QED
      BY <1>1, <1>10, <2>1, <2>2, <2>3 DEF ChannelInv
  <1>12. Channel!Send
    <2>1. Len(Selected) = Cardinality(Places)
      BY <1>5 DEF Selected
    <2>2. Channel!Sent = n
      BY <1>7 DEF Channel!Sent
    <2>3. Ended' = Ended
      BY <1>1 DEF Ended
    <2>4. UNCHANGED <<qdone, taken>> /\ {w \in Workers : pc'[w] = "ended"} = {w \in Workers : pc[w] = "ended"}
      BY <1>1
    <2> QED
      BY <1>1, <1>5, <1>10, <2>1, <2>2, <2>4 DEF Channel!Send, Channel!HasRoom
  <1> QED
    BY <1>11, <1>12

\* A worker takes a record: it receives the oldest item.
LEMMA TakeReceives ==
  ASSUME ChannelInv, ShapeInv, TakenTypes, NEW w \in Workers, TakeRecord(w)
  PROVE  ChannelInv' /\ Channel!Receive(w)
  <1> USE DEF mainVars
  <1>r. PICK r : r = Head(queue)
    OBVIOUS
  <1>e. PICK entry : entry = [by |-> w, item |-> r]
    OBVIOUS
  <1> DEFINE Taking == [by : Workers, item : Records]
  <1>1. /\ pc[w] = "idle" /\ pc' = [pc EXCEPT ![w] = "map"] /\ queue # <<>>
        /\ queue' = Tail(queue) /\ taken' = Append(taken, entry)
        /\ UNCHANGED <<main, fileNo, recNo, qdone>>
    BY <1>r, <1>e DEF TakeRecord, Goto
  <1>2. queue \in Seq(Records) /\ r \in Records
    BY <1>1, <1>r DEF ShapeInv
  <1>3. entry \in Taking /\ taken \in Seq(Taking) /\ entry.item = r
    BY <1>2, <1>e DEF TakenTypes
  <1> HIDE DEF Taking
  <1>4. /\ Len(taken) \in Nat /\ DOMAIN taken = 1..Len(taken)
        /\ Len(taken') = Len(taken) + 1 /\ DOMAIN taken' = 1..(Len(taken) + 1)
        /\ \A i \in DOMAIN taken : taken'[i] = taken[i]
        /\ taken'[Len(taken) + 1] = entry
    BY <1>1, <1>3
  <1>5. /\ Len(queue) \in Nat /\ Len(queue) > 0 /\ DOMAIN queue = 1..Len(queue)
        /\ Len(queue') = Len(queue) - 1 /\ DOMAIN queue' = 1..(Len(queue) - 1)
        /\ \A i \in DOMAIN queue' : queue'[i] = queue[i + 1]
        /\ r = queue[1]
    BY <1>1, <1>2, <1>r
  <1>6. Passed' = Passed
    BY <1>1 DEF Passed
  <1>7. \A v \in Workers : pc[v] # "ended" /\ pc'[v] # "ended"
    BY <1>1 DEF ChannelInv, ShapeInv
  <1>8. ChannelInv'
    <2>1. Len(taken') + Len(queue') = Cardinality(Passed')
      BY <1>4, <1>5, <1>6 DEF ChannelInv
    <2>2. \A i \in DOMAIN queue : queue[i] = Selected[Len(taken) + i]
      BY DEF ChannelInv
    <2>3. r = Selected[Len(taken) + 1]
      BY <1>5, <2>2
    <2>4. \A i \in DOMAIN taken' : taken'[i].item = Selected[i]
      BY <1>3, <1>4, <2>3 DEF ChannelInv
    <2>5. ASSUME NEW i \in DOMAIN queue' PROVE queue'[i] = Selected[Len(taken') + i]
      <3>1. i + 1 \in DOMAIN queue /\ Len(taken) + (i + 1) = Len(taken') + i
        BY <1>4, <1>5
      <3> QED
        BY <1>5, <2>2, <3>1
    <2> QED
      BY <1>1, <1>7, <2>1, <2>4, <2>5 DEF ChannelInv
  <1>9. Channel!Receive(w)
    <2>1. w \notin {v \in Workers : pc[v] = "ended"}
      BY <1>1
    <2>2. {v \in Workers : pc'[v] = "ended"} = {v \in Workers : pc[v] = "ended"}
      BY <1>7
    <2> QED
      BY <1>1, <1>e, <1>r, <2>1, <2>2 DEF Channel!Receive
  <1> QED
    BY <1>8, <1>9

\* A worker ends.
LEMMA EndFinishes ==
  ASSUME ChannelInv, ShapeInv, NEW w \in Workers, EndThread(w)
  PROVE  ChannelInv' /\ Channel!Finish(w)
  <1> USE DEF mainVars, queueVars
  <1>1. /\ pc[w] = "idle" /\ pc' = [pc EXCEPT ![w] = "ended"] /\ queue = <<>> /\ qdone
        /\ UNCHANGED <<main, fileNo, recNo, queue, qdone, taken>>
    BY DEF EndThread, Goto
  <1>2. Passed' = Passed
    BY <1>1 DEF Passed
  <1>3. \A v \in Workers : pc'[v] = "ended" <=> pc[v] = "ended" \/ v = w
    BY <1>1 DEF ShapeInv
  <1>4. ChannelInv'
    BY <1>1, <1>2 DEF ChannelInv
  <1>5. {v \in Workers : pc'[v] = "ended"} = {v \in Workers : pc[v] = "ended"} \cup {w}
    BY <1>3
  <1> QED
    BY <1>1, <1>4, <1>5 DEF Channel!Finish

\* The last file is read: the queue is closed.
LEMMA CloseCloses ==
  ASSUME ChannelInv, ShapeInv, TakenTypes, CloseQueue
  PROVE  ChannelInv' /\ Channel!Close
  <1> USE DEF workerVars
  <1>1. /\ main = "pick" /\ fileNo > Len(Files) /\ qdone' = TRUE /\ main' = "join"
        /\ UNCHANGED <<fileNo, recNo, queue, taken, pc>>
    BY DEF CloseQueue
  <1>2. Passed = PlacesBefore(fileNo, 1) /\ Passed' = Places
    BY <1>1 DEF Passed
  <1>3. PlacesBefore(fileNo, 1) = Places
    <2>1. ASSUME NEW q \in Places PROVE q[1] < fileNo
      BY <1>1, PlacePairs, FilesListed DEF ShapeInv
    <2> QED
      BY <2>1 DEF PlacesBefore
  <1>4. ChannelInv'
    BY <1>1, <1>2, <1>3 DEF ChannelInv
  <1>5. Len(taken) + Len(queue) = Cardinality(Places)
    BY <1>2, <1>3 DEF ChannelInv
  <1>6. Len(Selected) = Cardinality(Places)
    BY PlacesFinite DEF Selected
  <1>7. ~qdone
    BY <1>1 DEF ChannelInv
  <1> QED
    BY <1>1, <1>4, <1>5, <1>6, <1>7 DEF Channel!Close, Channel!Sent

\* The steps of the main thread that read on, or leave the input alone.
LEMMA MainPasses ==
  ASSUME ChannelInv, ShapeInv, MainThread, ~EnqueueRecord, ~CloseQueue
  PROVE  ChannelInv' /\ UNCHANGED Channel!channelVars
  <1> USE DEF workerVars, queueVars
  <1>0. /\ fileNo \in Nat /\ recNo \in Nat \ {0} /\ pc \in [Workers -> WorkerPC]
        /\ main = "read" => fileNo <= Len(Files)
    BY DEF ShapeInv
  <1>1. UNCHANGED <<queue, qdone, taken>>
    BY DEF MainThread, CreateThread, ThreadsCreated, OpenMapOut, OpenMapOutFails, OpenInput,
      SkipInput, DropRecord, InputComplete, JoinWorkers, JoinGarbage, CloseMapOut
  <1>2. CASE \E w \in Workers : CreateThread(w)
    <2>1. UNCHANGED <<main, fileNo, recNo>> /\ \A w \in Workers : pc'[w] = "ended" <=> pc[w] = "ended"
      BY <1>0, <1>2 DEF CreateThread, mainVars
    <2>2. Passed' = Passed
      BY <2>1 DEF Passed
    <2> QED
      BY <1>1, <2>1, <2>2, ChannelFrame DEF ChannelInv
  <1>3. CASE ThreadsCreated \/ OpenMapOutFails \/ JoinWorkers \/ JoinGarbage \/ CloseMapOut
    <2>1. UNCHANGED <<fileNo, recNo, pc>> /\ main' \in {main, "open", "end", "exited"}
            /\ (main' = "open" => main \in {"create", "open"})
            /\ (main' \in {"end", "exited"} => main \in {"join", "end", "exited"})
      BY <1>3 DEF ThreadsCreated, OpenMapOutFails, JoinWorkers, JoinGarbage, CloseMapOut, mainVars
    <2>2. Passed' = Passed
      BY <2>1 DEF Passed
    <2> QED
      BY <1>1, <2>1, <2>2, ChannelFrame DEF ChannelInv
  <1>4. CASE OpenMapOut
    <2>1. main = "open" /\ main' = "pick" /\ UNCHANGED <<fileNo, recNo, pc>> /\ fileNo = 1
      BY <1>4 DEF OpenMapOut, ChannelInv
    <2>2. PlacesBefore(1, 1) = {}
      <3>1. ASSUME NEW q \in Places PROVE ~(q[1] < 1) /\ ~(q[2] < 1)
        BY PlacePairs, FilesListed
      <3> QED
        BY <3>1 DEF PlacesBefore
    <2>3. Passed' = Passed
      BY <2>1, <2>2 DEF Passed
    <2> QED
      BY <1>1, <2>1, <2>3, ChannelFrame
  <1>5. CASE OpenInput
    <2>1. main = "pick" /\ main' = "read" /\ recNo' = 1 /\ UNCHANGED <<fileNo, pc>> /\ Files[fileNo].opens
      BY <1>5 DEF OpenInput
    <2>2. Passed' = Passed
      BY <2>1 DEF Passed
    <2> QED
      BY <1>1, <2>1, <2>2, ChannelFrame
  <1>6. CASE SkipInput
    <2>1. main = "pick" /\ main' = main /\ fileNo' = fileNo + 1 /\ UNCHANGED pc /\ ~Files[fileNo].opens
      BY <1>6 DEF SkipInput
    <2>2. PlacesBefore(fileNo + 1, 1) = PlacesBefore(fileNo, 1)
      <3>1. ASSUME NEW q \in Places PROVE q[1] < fileNo + 1 <=> q[1] < fileNo
        <4>1. q[1] \in Nat /\ q[1] # fileNo
          BY <2>1, PlacePairs
        <4> QED
          BY <1>0, <4>1
      <3>2. \A q \in Places : ~(q[2] < 1)
        BY PlacePairs, FilesListed
      <3> QED
        BY <3>1, <3>2 DEF PlacesBefore
    <2>3. Passed' = Passed
      BY <2>1, <2>2 DEF Passed
    <2> QED
      BY <1>1, <2>1, <2>3, ChannelFrame
  <1>7. CASE DropRecord
    <2>1. /\ main = "read" /\ UNCHANGED <<main, fileNo, pc>> /\ recNo' = recNo + 1
          /\ ~Matches(Files[fileNo].records[recNo])
      BY <1>7 DEF DropRecord
    <2>2. PlacesBefore(fileNo, recNo + 1) = PlacesBefore(fileNo, recNo)
      <3>1. ASSUME NEW q \in Places, q[1] = fileNo PROVE q[2] < recNo + 1 <=> q[2] < recNo
        <4>1. q[2] \in Nat /\ q[2] # recNo
          BY <2>1, <3>1, PlacePairs
        <4> QED
          BY <1>0, <4>1
      <3> QED
        BY <3>1 DEF PlacesBefore
    <2>3. Passed' = Passed
      BY <2>1, <2>2 DEF Passed
    <2> QED
      BY <1>1, <2>1, <2>3, ChannelFrame DEF ChannelInv
  <1>8. CASE InputComplete
    <2>1. /\ main = "read" /\ main' = "pick" /\ fileNo' = fileNo + 1 /\ UNCHANGED pc
          /\ recNo > Len(Files[fileNo].records)
      BY <1>8 DEF InputComplete
    <2>2. PlacesBefore(fileNo + 1, 1) = PlacesBefore(fileNo, recNo)
      <3>1. ASSUME NEW q \in Places
            PROVE  /\ q[1] < fileNo + 1 <=> q[1] < fileNo \/ q[1] = fileNo
                   /\ ~(q[2] < 1)
                   /\ q[1] = fileNo => q[2] < recNo
        <4>1. /\ q[1] \in Nat /\ q[2] \in Nat /\ q[1] \in DOMAIN Files
              /\ q[2] \in DOMAIN Files[q[1]].records
          BY PlacePairs
        <4>2. /\ DOMAIN Files[q[1]].records = 1..Len(Files[q[1]].records)
              /\ Len(Files[q[1]].records) \in Nat
          BY <4>1, FilesListed
        <4> QED
          BY <1>0, <2>1, <4>1, <4>2
      <3> QED
        BY <3>1 DEF PlacesBefore
    <2>3. Passed' = Passed
      BY <2>1, <2>2 DEF Passed
    <2> QED
      BY <1>1, <2>1, <2>3, ChannelFrame
  <1> QED
    BY <1>2, <1>3, <1>4, <1>5, <1>6, <1>7, <1>8 DEF MainThread

\* Every step is a step of the channel, or leaves it alone.
LEMMA ChannelStep ==
  ASSUME ChannelInv, ShapeInv, TakenTypes, [Next]_vars
  PROVE  ChannelInv' /\ [Channel!Next]_(Channel!channelVars)
  <1>1. CASE UNCHANGED vars
    <2>1. /\ UNCHANGED <<main, fileNo, recNo, queue, qdone, taken, pc>>
      BY <1>1 DEF vars, mainVars, queueVars, workerVars
    <2>2. Passed' = Passed
      BY <2>1 DEF Passed
    <2> QED
      BY <2>1, <2>2, ChannelFrame DEF ChannelInv
  <1>2. CASE MainThread
    <2>1. CASE EnqueueRecord
      BY <1>2, <2>1, EnqueueSends DEF Channel!Next, MainThread
    <2>2. CASE CloseQueue
      BY <2>2, CloseCloses DEF Channel!Next
    <2> QED
      BY <1>2, <2>1, <2>2, MainPasses
  <1>3. ASSUME NEW w \in Workers, Worker(w) PROVE ChannelInv' /\ [Channel!Next]_(Channel!channelVars)
    <2>1. CASE TakeRecord(w)
      BY <2>1, TakeReceives DEF Channel!Next
    <2>2. CASE EndThread(w)
      BY <2>2, EndFinishes DEF Channel!Next
    <2>3. CASE ~TakeRecord(w) /\ ~EndThread(w)
      <3>1. UNCHANGED <<main, fileNo, recNo, queue, qdone, taken>>
        BY <1>3, <2>3 DEF Worker, Start, StartFails, MapReturns, EmitLoad, EmitAdd, EmitLock,
          EmitIncrement, EmitKey, EmitUnlock, EmitPut, SizeLoad, SizeAdd, SetLock, SetLoad,
          SetAdd, SetUnlock, SetPut, PutFails, Lock, Unlock, mainVars, queueVars
      <3>2. \A v \in Workers : pc'[v] = "ended" <=> pc[v] = "ended"
        BY <1>3, <2>3 DEF Worker, Start, StartFails, MapReturns, EmitLoad, EmitAdd, EmitLock,
          EmitIncrement, EmitKey, EmitUnlock, EmitPut, SizeLoad, SizeAdd, SetLock, SetLoad,
          SetAdd, SetUnlock, SetPut, PutFails, Lock, Unlock, Goto, Return, Makes, workerVars,
          ShapeInv
      <3>3. Passed' = Passed
        BY <3>1 DEF Passed
      <3> QED
        BY <3>1, <3>2, <3>3, ChannelFrame DEF ChannelInv
    <2> QED
      BY <2>1, <2>2, <2>3
  <1> QED
    BY <1>1, <1>2, <1>3 DEF Next, Terminated

LEMMA ChannelInit == Init => ChannelInv /\ Channel!Init
  <1> SUFFICES ASSUME Init PROVE ChannelInv /\ Channel!Init
    OBVIOUS
  <1>1. /\ queue = <<>> /\ taken = <<>> /\ qdone = FALSE /\ main = "create" /\ fileNo = 1
        /\ \A w \in Workers : pc[w] = "unborn"
    BY DEF Init
  <1>2. Passed = {} /\ Cardinality(Passed) = 0
    BY <1>1, FS_EmptySet DEF Passed
  <1>3. Len(queue) = 0 /\ Len(taken) = 0 /\ DOMAIN queue = {} /\ DOMAIN taken = {}
    BY <1>1
  <1>5. ChannelInv
    <2>1. Len(taken) + Len(queue) = Cardinality(Passed)
      BY <1>2, <1>3
    <2>2. qdone = (main \in {"join", "end", "exited"})
      <3>1. (main \in {"join", "end", "exited"}) = FALSE
        BY <1>1
      <3>2. qdone = FALSE
        BY <1>1
      <3> QED
        BY <3>1, <3>2
    <2>3. /\ \A i \in DOMAIN taken : taken[i].item = Selected[i]
          /\ \A i \in DOMAIN queue : queue[i] = Selected[Len(taken) + i]
      BY <1>3
    <2>4. \A w \in Workers : pc[w] = "ended" => qdone /\ queue = <<>>
      BY <1>1
    <2>5. main = "create"
      BY <1>1
    <2> QED
      BY <1>1, <2>1, <2>2, <2>3, <2>4, <2>5 DEF ChannelInv
  <1>4. {w \in Workers : pc[w] = "ended"} = {}
    BY <1>1
  <1> QED
    BY <1>1, <1>5, <1>4 DEF Channel!Init

\* The iteration over the input files and the workers use the queue as the
\* channel that ThreadSafeQueue implements: it carries the selected records in
\* the order of the files, each to one worker, and no worker ends before all are
\* taken; for any input, workers, capacity and failures.
THEOREM MapUsesChannel == Spec => ImplementsChannel
  <1> DEFINE CInv == ThreadInv /\ TakenTypes /\ ChannelInv
  <1>1. Init => CInv /\ Channel!Init
    <2>1. Init => ThreadInv
      BY MapInit DEF MapInv
    <2>2. Init => TakenTypes
      BY PhaseInit DEF PhaseIInv
    <2> QED
      BY <2>1, <2>2, ChannelInit
  <1>2. CInv /\ [Next]_vars => CInv' /\ [Channel!Next]_(Channel!channelVars)
    BY ThreadStep, TakenTypesStep, ChannelStep DEF ThreadInv
  <1> HIDE DEF CInv
  <1> QED
    BY <1>1, <1>2, PTL DEF Spec, ImplementsChannel, Channel!Spec

------------------------------------------------------------------------------
(* What the phase promises: the grouped output.                            *)

\* Every number up to the number of selected records has its place.
LEMMA SelectedRecords ==
  /\ DOMAIN Selected = 1..Cardinality(Places) /\ IsFiniteSet(DOMAIN Selected)
  /\ \A i \in DOMAIN Selected : Selected[i] \in Records
  <1>n. PICK n : n = Cardinality(Places)
    OBVIOUS
  <1> DEFINE before == [q \in Places |-> Cardinality(PlacesBefore(q[1], q[2]))]
  <1>1. n \in Nat /\ IsFiniteSet(0..n - 1) /\ Cardinality(0..n - 1) = n
    <2>1. n \in Nat
      BY <1>n, PlacesFinite
    <2>2. IsFiniteSet(0..n - 1) /\ Cardinality(0..n - 1) = IF 0 > n - 1 THEN 0 ELSE n - 1 - 0 + 1
      BY <2>1, FS_Interval
    <2> QED
      BY <2>1, <2>2
  <1>2. before \in [Places -> 0..n - 1]
    <2>1. \A q \in Places : Cardinality(PlacesBefore(q[1], q[2])) < n
      BY <1>n, SelectedThere
    <2>2. \A q \in Places : Cardinality(PlacesBefore(q[1], q[2])) \in Nat
      BY PlacesFinite
    <2> QED
      BY <1>1, <2>1, <2>2
  <1>3. \A p, q \in Places : before[p] = before[q] => p = q
    BY OnePlaceEach
  <1>b. \A q \in Places : before[q] = Cardinality(PlacesBefore(q[1], q[2]))
    OBVIOUS
  <1> HIDE DEF before
  <1>4. before \in Injection(Places, 0..n - 1)
    BY <1>2, <1>3, Fun_IsInj
  <1>5. before \in Surjection(Places, 0..n - 1)
    BY <1>1, <1>4, <1>n, FS_Injection
  <1>6. \A m \in 0..n - 1 : \E q \in Places : before[q] = m
    BY <1>5 DEF Surjection
  <1>7. DOMAIN Selected = 1..n /\ IsFiniteSet(1..n)
    BY <1>1, <1>n, FS_Interval DEF Selected
  <1>8. ASSUME NEW i \in 1..n PROVE Selected[i] \in Records
    <2>1. i - 1 \in 0..n - 1 /\ i - 1 + 1 = i
      BY <1>1
    <2>2. PICK q \in Places : before[q] = i - 1
      BY <1>6, <2>1
    <2>3. Selected[Cardinality(PlacesBefore(q[1], q[2])) + 1] = Files[q[1]].records[q[2]]
      BY SelectedThere
    <2>4. Cardinality(PlacesBefore(q[1], q[2])) + 1 = i
      BY <1>b, <2>1, <2>2
    <2> QED
      BY <2>3, <2>4, PlacePairs
  <1> QED
    BY <1>7, <1>8, <1>n

\* The calls of the whole input that emit the pair p.
DueCalls(p) ==
  UNION {{i} \X {j \in DOMAIN CallsOf(Selected[i]) : Emits(CallsOf(Selected[i])[j], p)} :
         i \in DOMAIN Selected}

LEMMA DueFinite ==
  ASSUME ListedCalls, NEW p
  PROVE  IsFiniteSet(DueCalls(p))
  <1> DEFINE f == [i \in DOMAIN Selected |->
                     {i} \X {j \in DOMAIN CallsOf(Selected[i]) : Emits(CallsOf(Selected[i])[j], p)}]
  <1>1. ASSUME NEW i \in DOMAIN Selected PROVE IsFiniteSet(f[i])
    <2>1. PICK S : CallsOf(Selected[i]) \in Seq(S)
      BY SelectedRecords, CallList
    <2>2. IsFiniteSet(1..Len(CallsOf(Selected[i])))
      BY <2>1, FS_Interval
    <2>3. DOMAIN CallsOf(Selected[i]) = 1..Len(CallsOf(Selected[i]))
      BY <2>1
    <2>4. IsFiniteSet({j \in DOMAIN CallsOf(Selected[i]) : Emits(CallsOf(Selected[i])[j], p)})
      BY <2>2, <2>3, FS_Subset
    <2> QED
      BY <2>4, FS_Singleton, FS_Product
  <1>2. DueCalls(p) = UNION {f[i] : i \in DOMAIN Selected} /\ DOMAIN f = DOMAIN Selected
    BY DEF DueCalls
  <1> HIDE DEF f
  <1>3. PICK g : g = f
    OBVIOUS
  <1>4. PICK S : S = DOMAIN Selected
    OBVIOUS
  <1>5. IsFiniteSet(S) /\ DOMAIN g = S /\ \A x \in S : IsFiniteSet(g[x])
    BY <1>1, <1>2, <1>3, <1>4, SelectedRecords
  <1>6. IsFiniteSet(UNION {g[x] : x \in S})
    BY <1>5, FiniteUnion
  <1> QED
    BY <1>2, <1>3, <1>4, <1>6

\* The calls that are through and emit the pair p.
DoneCalls(p) == {c \in Counted("emit", PutEarly) : Emits(CallAt(c), p)}

\* The calls of the records taken so far are calls of the input.
LEMMA DoneAreDue ==
  ASSUME ListedCalls, TakenTypes, ChannelInv, ShapeInv, NEW p
  PROVE  /\ DoneCalls(p) \subseteq DueCalls(p)
         /\ \A c \in CallsMade("emit") : Emits(CallAt(c), p) => c \in DueCalls(p)
  <1>1. DOMAIN taken \subseteq DOMAIN Selected
    <2>1. Len(taken) + Len(queue) = Cardinality(Passed) /\ Cardinality(Passed) <= Cardinality(Places)
      BY PassedPlaces, PlacesFinite, FS_Subset DEF ChannelInv
    <2>2. Len(taken) \in Nat /\ Len(queue) \in Nat /\ DOMAIN taken = 1..Len(taken)
      BY TakenRecords DEF ShapeInv
    <2>3. DOMAIN Selected = 1..Cardinality(Places) /\ Cardinality(Places) \in Nat /\ Cardinality(Passed) \in Nat
      BY SelectedRecords, PlacesFinite, PassedPlaces
    <2> QED
      BY <2>1, <2>2, <2>3
  <1>2. ASSUME NEW c \in CallsMade("emit"), Emits(CallAt(c), p) PROVE c \in DueCalls(p)
    <2>1. c \in CallsBegun
      BY DEF CallsMade
    <2>2. /\ c[1] \in DOMAIN taken /\ c[2] \in DOMAIN CallsOf(taken[c[1]].item)
          /\ c = <<c[1], c[2]>>
      BY <2>1, CallPairs
    <2>3. taken[c[1]].item = Selected[c[1]]
      BY <2>2 DEF ChannelInv
    <2> QED
      BY <1>1, <1>2, <2>2, <2>3 DEF DueCalls, CallAt
  <1>3. DoneCalls(p) \subseteq CallsMade("emit")
    BY DEF DoneCalls, Counted
  <1> QED
    BY <1>2, <1>3 DEF DoneCalls

\* What the values emit stores are found under is not used otherwise: neither by
\* the keys map sets, nor by the file that an incremental map adds to.
KeysApart ==
  \A k \in EmitKeys : \A n \in Nat :
    /\ GenerateShadowKey(k, n) \notin SetKeys
    /\ \A e \in Environments :
         e.incremental_map /\ Existing # NoFile => GenerateShadowKey(k, n) \notin DOMAIN Existing

\* Under -o nothing is stored, without it nothing is summed up.
OptionInv ==
  \A w \in Workers :
    IF env.optimize_bucket_count
    THEN pc[w] \notin {"emit_lock", "emit_incr", "emit_key", "emit_unlock", "emit_put"}
    ELSE pc[w] \notin {"size_load", "size_add"}

\* Before it is opened the file is the one that was found.
FoundInv ==
  main \in {"create", "open"} =>
    ~dbOpen /\ db = IF Existing = NoFile THEN EmptyDb ELSE Existing

\* A number that has its value in the file was handed out and is in no hand.
KeptInv ==
  main \notin {"create", "open"} =>
    \A k \in EmitKeys : \A n \in Nat : GenerateShadowKey(k, n) \in DOMAIN db =>
      /\ k \in DOMAIN counts /\ n <= counts[k]
      /\ \A w \in Workers : GenerateShadowKey(k, n) \notin InHand(w)

\* A worker's number is one of the key it emits.
SlotInv ==
  \A w \in Workers : pc[w] \in {"emit_unlock", "emit_put"} =>
    /\ Call(w).key \in DOMAIN counts
    /\ \E n \in 0..counts[Call(w).key] : slot[w] = GenerateShadowKey(Call(w).key, n)

\* The file holds what the calls that are through emit.
StoredInv ==
  ~env.optimize_bucket_count =>
    \A p \in EmitPairs : Cardinality(NumbersOf(p)) = Cardinality(DoneCalls(p))

\* What the map phase keeps without regard to the file.
RunInv == MapInv /\ Types /\ TakenTypes /\ LastInv /\ ChannelInv /\ OptionInv /\ FoundInv

\* What it keeps of the file.
GroupInv == RunInv /\ KeptInv /\ SlotInv

LEMMA EmitKeysPlain == PlainEmits => \A k \in EmitKeys : IsPlain(k)
  <1> SUFFICES ASSUME PlainEmits, NEW k \in EmitKeys PROVE IsPlain(k)
    OBVIOUS
  <1>1. PICK c \in CallsTo("emit") : k = c.key
    BY DEF EmitKeys
  <1>2. PICK r \in Records : c \in ToSet(CallsOf(r)) /\ c.op = "emit"
    BY DEF CallsTo
  <1>3. PICK i \in DOMAIN CallsOf(r) : c = CallsOf(r)[i]
    BY <1>2 DEF ToSet
  <1>4. CallsOf(r) = Calls[r]
    BY <1>3 DEF CallsOf
  <1> QED
    BY <1>1, <1>2, <1>3, <1>4 DEF PlainEmits, IsPlain

\* The call a worker is at is one of those Calls lists.
LEMMA CallListed ==
  ASSUME JobInv, NEW w \in Workers
  PROVE  /\ pc[w] \in EmitPC => /\ Call(w).key \in EmitKeys
                                /\ <<Call(w).key, Call(w).value>> \in EmitPairs
         /\ pc[w] \in SetPC => Call(w).key \in SetKeys
  <1>1. ASSUME NEW op \in {"emit", "set"}, pc[w] \in IF op = "emit" THEN EmitPC ELSE SetPC
        PROVE  Call(w) \in CallsTo(op)
    <2>1. job[w] \in Records /\ at[w] \in DOMAIN CallsOf(job[w]) /\ Call(w).op = op
      BY <1>1 DEF JobInv, EmitPC, SetPC, Waiting
    <2>2. Call(w) \in ToSet(CallsOf(job[w]))
      BY <2>1 DEF Call, ToSet
    <2> QED
      BY <2>1, <2>2 DEF CallsTo
  <1>2. pc[w] \in EmitPC => Call(w) \in CallsTo("emit")
    BY <1>1
  <1>3. pc[w] \in SetPC => Call(w) \in CallsTo("set")
    BY <1>1
  <1> QED
    BY <1>2, <1>3 DEF EmitKeys, EmitPairs, SetKeys

\* A worker moves itself and no other.
LEMMA WorkerMoves ==
  ASSUME ShapeInv, NEW w \in Workers, Worker(w)
  PROVE  \E to : Moves(w, to)
  <1>1. /\ pc \in [Workers -> WorkerPC] /\ at \in [Workers -> Nat \ {0}]
        /\ job \in [Workers -> Records \cup {NoRecord}]
        /\ slot = [v \in Workers |-> slot[v]]
    BY DEF ShapeInv
  <1>2. \A v \in Workers \ {w} : job'[v] = job[v] /\ at'[v] = at[v] /\ slot'[v] = slot[v]
    BY <1>1 DEF Worker, Start, StartFails, TakeRecord, EndThread, MapReturns, EmitLoad, EmitAdd,
      EmitLock, EmitIncrement, EmitKey, EmitUnlock, EmitPut, SizeLoad, SizeAdd, SetLock, SetLoad,
      SetAdd, SetUnlock, SetPut, PutFails, Lock, Unlock, Return, workerVars
  <1>3. \E to : pc' = [pc EXCEPT ![w] = to]
    <2>1. pc = [pc EXCEPT ![w] = pc[w]]
      BY <1>1
    <2>2. CASE UNCHANGED pc
      BY <2>1, <2>2
    <2>3. ASSUME NEW from, NEW to, Goto(w, from, to) PROVE \E t : pc' = [pc EXCEPT ![w] = t]
      BY <2>3 DEF Goto
    <2>4. CASE EmitLoad(w)
      BY <2>4 DEF EmitLoad
    <2> QED
      BY <2>2, <2>3, <2>4 DEF Worker, Start, StartFails, TakeRecord, EndThread, MapReturns, EmitAdd,
        EmitLock, EmitIncrement, EmitKey, EmitUnlock, EmitPut, SizeLoad, SizeAdd, SetLock, SetLoad,
        SetAdd, SetUnlock, SetPut, PutFails, Lock, Unlock, Return, workerVars
  <1> QED
    BY <1>2, <1>3 DEF Moves

\* The steps of a worker on the counts and on the file.
LEMMA WorkerFile ==
  ASSUME NEW w \in Workers, Worker(w)
  PROVE  /\ UNCHANGED <<env, mainVars>>
         /\ ~EmitIncrement(w) => UNCHANGED counts
         /\ ~EmitPut(w) /\ ~SetPut(w) => UNCHANGED db
         /\ UNCHANGED dbOpen
  BY DEF Worker, Start, StartFails, TakeRecord, EndThread, MapReturns, EmitLoad, EmitAdd,
    EmitLock, EmitIncrement, EmitKey, EmitUnlock, EmitPut, SizeLoad, SizeAdd, SetLock, SetLoad,
    SetAdd, SetUnlock, SetPut, PutFails, Lock, Unlock, keyVars, fileVars, mainVars

\* The steps of the main thread on them.
LEMMA MainFile ==
  ASSUME ShapeInv, MainThread
  PROVE  /\ UNCHANGED <<env, counts, job, at, slot>>
         /\ ~OpenMapOut => /\ UNCHANGED db
                           /\ (main' \in {"create", "open"}) = (main \in {"create", "open"})
                           /\ dbOpen' => dbOpen
         /\ \A v \in Workers : pc'[v] = pc[v] \/ (pc[v] \in Waiting /\ pc'[v] \in Waiting)
  <1> USE DEF workerVars, keyVars, fileVars, mainVars
  <1>1. UNCHANGED <<env, counts, job, at, slot>>
    BY DEF MainThread, CreateThread, ThreadsCreated, OpenMapOut, OpenMapOutFails, OpenInput,
      SkipInput, EnqueueRecord, DropRecord, InputComplete, CloseQueue, JoinWorkers,
      JoinGarbage, CloseMapOut
  <1>2. ~OpenMapOut => /\ UNCHANGED db
                       /\ (main' \in {"create", "open"}) = (main \in {"create", "open"})
                       /\ dbOpen' => dbOpen
    BY DEF MainThread, CreateThread, ThreadsCreated, OpenMapOutFails, OpenInput,
      SkipInput, EnqueueRecord, DropRecord, InputComplete, CloseQueue, JoinWorkers,
      JoinGarbage, CloseMapOut
  <1>3. ASSUME NEW v \in Workers
        PROVE  pc'[v] = pc[v] \/ (pc[v] \in Waiting /\ pc'[v] \in Waiting)
    <2>1. CASE \E w \in Workers : CreateThread(w)
      BY <2>1 DEF CreateThread, ShapeInv, Waiting
    <2>2. CASE UNCHANGED pc
      BY <2>2
    <2> QED
      BY <2>1, <2>2 DEF MainThread, ThreadsCreated, OpenMapOut, OpenMapOutFails, OpenInput,
        SkipInput, EnqueueRecord, DropRecord, InputComplete, CloseQueue, JoinWorkers,
        JoinGarbage, CloseMapOut
  <1> QED
    BY <1>1, <1>2, <1>3

\* Nothing is put into a worker's hand or taken from it.
LEMMA HandsKept ==
  ASSUME ShapeInv, HandedOut, [Next]_vars, \A w \in Workers : ~EmitIncrement(w) /\ ~EmitPut(w)
  PROVE  \A v \in Workers : InHand(v)' = InHand(v)
  <1> USE DEF workerVars, keyVars
  <1>1. ASSUME UNCHANGED <<counts, job, at, slot>>, NEW v \in Workers,
               pc'[v] = pc[v] \/ (pc[v] \in Waiting /\ pc'[v] \in Waiting)
        PROVE  InHand(v)' = InHand(v)
    <2>1. Call(v)' = Call(v)
      BY <1>1 DEF Call, CallsOf
    <2> QED
      BY <1>1, <2>1 DEF InHand, Waiting
  <1>2. CASE UNCHANGED vars
    BY <1>1, <1>2 DEF vars
  <1>3. CASE MainThread
    BY <1>1, <1>3, MainFile
  <1>4. ASSUME NEW w \in Workers, Worker(w) PROVE \A v \in Workers : InHand(v)' = InHand(v)
    <2>1. PICK to : Moves(w, to)
      BY <1>4, WorkerMoves
    <2>2. UNCHANGED counts
      BY <1>4, WorkerFile
    <2>3. \A v \in Workers \ {w} : InHand(v)' = InHand(v)
      BY <2>1, <2>2, HandsOfOthers
    <2>4. InHand(w)' = InHand(w)
      <3>0. pc \in [Workers -> WorkerPC] /\ slot = [v \in Workers |-> slot[v]]
        BY DEF ShapeInv
      <3>1. CASE EmitKey(w)
        <4>1. /\ pc[w] = "emit_key" /\ pc' = [pc EXCEPT ![w] = "emit_unlock"]
              /\ slot' = [slot EXCEPT ![w] = CurrentShadowKey(counts, Call(w).key)]
          BY <3>1 DEF EmitKey, Goto
        <4>2. pc'[w] = "emit_unlock" /\ slot'[w] = CurrentShadowKey(counts, Call(w).key)
          BY <3>0, <4>1
        <4> QED
          BY <4>1, <4>2 DEF InHand
      <3>2. CASE EmitUnlock(w)
        <4>1. pc[w] = "emit_unlock" /\ pc'[w] = "emit_put" /\ UNCHANGED slot
          BY <3>0, <3>2 DEF EmitUnlock, Unlock, Goto
        <4> QED
          BY <4>1 DEF InHand
      <3>3. CASE PutFails(w)
        BY <1>1, <3>3 DEF PutFails
      <3>4. CASE ~EmitKey(w) /\ ~EmitUnlock(w) /\ ~PutFails(w)
        <4>1. pc[w] \notin NumberPC /\ pc'[w] \notin NumberPC
          BY <1>4, <3>0, <3>4 DEF Worker, Start, StartFails, TakeRecord, EndThread, MapReturns,
            EmitLoad, EmitAdd, EmitLock, SizeLoad, SizeAdd, SetLock, SetLoad, SetAdd, SetUnlock,
            SetPut, Lock, Unlock, Return, Goto, Makes, NumberPC
        <4> QED
          BY <4>1 DEF InHand, NumberPC
      <3> QED
        BY <3>1, <3>2, <3>3, <3>4
    <2> QED
      BY <2>3, <2>4
  <1> QED
    BY <1>2, <1>3, <1>4 DEF Next, Terminated

LEMMA OptionStep == ShapeInv /\ OptionInv /\ [Next]_vars => OptionInv'
  <1> SUFFICES ASSUME ShapeInv, OptionInv, [Next]_vars PROVE OptionInv'
    OBVIOUS
  <1> USE DEF workerVars
  <1>0. pc \in [Workers -> WorkerPC]
    BY DEF ShapeInv
  <1>1. CASE UNCHANGED vars
    BY <1>1 DEF vars, OptionInv
  <1>2. CASE MainThread
    BY <1>2, MainFile DEF OptionInv, Waiting
  <1>3. ASSUME NEW w \in Workers, Worker(w) PROVE OptionInv'
    <2>1. UNCHANGED env
      BY <1>3, WorkerFile
    <2>2. \A v \in Workers \ {w} : pc'[v] = pc[v]
      <3>1. PICK to : Moves(w, to)
        BY <1>3, WorkerMoves
      <3> QED
        BY <1>0, <3>1 DEF Moves
    <2>3. IF env.optimize_bucket_count
          THEN pc'[w] \notin {"emit_lock", "emit_incr", "emit_key", "emit_unlock", "emit_put"}
          ELSE pc'[w] \notin {"size_load", "size_add"}
      <3>1. IF env.optimize_bucket_count
            THEN pc[w] \notin {"emit_lock", "emit_incr", "emit_key", "emit_unlock", "emit_put"}
            ELSE pc[w] \notin {"size_load", "size_add"}
        BY DEF OptionInv
      <3> QED
        BY <1>0, <1>3, <3>1 DEF Worker, Start, StartFails, TakeRecord, EndThread, MapReturns,
          EmitLoad, EmitAdd, EmitLock, EmitIncrement, EmitKey, EmitUnlock, EmitPut, SizeLoad,
          SizeAdd, SetLock, SetLoad, SetAdd, SetUnlock, SetPut, PutFails, Lock, Unlock, Return, Goto
    <2> QED
      BY <2>1, <2>2, <2>3 DEF OptionInv
  <1> QED
    BY <1>1, <1>2, <1>3 DEF Next, Terminated

LEMMA FoundStep == ShapeInv /\ FreshInv /\ FoundInv /\ [Next]_vars => FoundInv'
  <1> SUFFICES ASSUME ShapeInv, FreshInv, FoundInv, [Next]_vars PROVE FoundInv'
    OBVIOUS
  <1>1. CASE UNCHANGED vars
    BY <1>1 DEF vars, mainVars, fileVars, FoundInv
  <1>2. CASE MainThread
    <2>1. CASE OpenMapOut
      BY <2>1 DEF OpenMapOut, FoundInv
    <2> QED
      BY <1>2, <2>1, MainFile DEF FoundInv
  <1>3. ASSUME NEW w \in Workers, Worker(w) PROVE FoundInv'
    <2>1. main \in {"create", "open"} => ~EmitPut(w) /\ ~SetPut(w)
      BY DEF FreshInv, Waiting, EmitPut, SetPut, Return, Goto
    <2> QED
      BY <1>3, <2>1, WorkerFile DEF FoundInv, mainVars
  <1> QED
    BY <1>1, <1>2, <1>3 DEF Next, Terminated

\* What the file holds when it has been opened: none of emit's values.
LEMMA OpenedEmpty ==
  ASSUME KeysApart, Types, FoundInv, OpenMapOut, UNCHANGED env, NEW k \in EmitKeys, NEW n \in Nat
  PROVE  GenerateShadowKey(k, n) \notin DOMAIN db'
  <1>1. db' = (IF env.incremental_map THEN db ELSE EmptyDb) /\ main = "open"
        /\ (env.incremental_map => Existing # NoFile)
    BY DEF OpenMapOut
  <1>2. db = IF Existing = NoFile THEN EmptyDb ELSE Existing
    BY <1>1 DEF FoundInv
  <1>3. DOMAIN EmptyDb = {}
    BY DEF EmptyDb
  <1>4. env \in Environments
    BY DEF Types
  <1> QED
    BY <1>1, <1>2, <1>3, <1>4 DEF KeysApart

LEMMA SlotStep ==
  ASSUME PlainEmits, NoWrap, ShapeInv, MutexInv, JobInv, HandedOut, SlotInv, [Next]_vars
  PROVE  SlotInv'
  <1> USE DEF workerVars, keyVars
  <1> DEFINE Slotted(v) ==
        pc[v] \in {"emit_unlock", "emit_put"} =>
          /\ Call(v).key \in DOMAIN counts
          /\ \E n \in 0..counts[Call(v).key] : slot[v] = GenerateShadowKey(Call(v).key, n)
  <1>0. /\ pc \in [Workers -> WorkerPC] /\ slot = [v \in Workers |-> slot[v]]
        /\ counts \in [DOMAIN counts -> Nat]
    BY DEF ShapeInv, HandedOut
  <1>1. ASSUME UNCHANGED <<counts, job, at, slot>>, NEW v \in Workers,
               pc'[v] = pc[v] \/ (pc[v] \in Waiting /\ pc'[v] \in Waiting)
        PROVE  Slotted(v)'
    <2>1. Call(v)' = Call(v)
      BY <1>1 DEF Call, CallsOf
    <2> QED
      BY <1>1, <2>1 DEF SlotInv, Waiting
  <1>2. CASE UNCHANGED vars
    BY <1>1, <1>2 DEF vars, SlotInv
  <1>3. CASE MainThread
    BY <1>1, <1>3, MainFile DEF SlotInv
  <1>4. ASSUME NEW w \in Workers, Worker(w) PROVE SlotInv'
    <2>1. PICK to : Moves(w, to)
      BY <1>4, WorkerMoves
    <2>2. /\ DOMAIN counts \subseteq DOMAIN counts'
          /\ \A k \in DOMAIN counts : 0..counts[k] \subseteq 0..counts'[k]
      <3>1. CASE EmitIncrement(w)
        <4>k. PICK key : key = Call(w).key
          OBVIOUS
        <4>1. counts' = Increment(counts, key)
          BY <3>1, <4>k DEF EmitIncrement
        <4>2. /\ DOMAIN counts' = DOMAIN counts \cup {key}
              /\ \A k \in DOMAIN counts \ {key} : counts'[k] = counts[k]
              /\ counts'[key] = IF key \in DOMAIN counts THEN counts[key] + 1 ELSE 0
          BY <1>0, <4>1, IncrementNext
        <4>3. ASSUME NEW k \in DOMAIN counts PROVE counts[k] \in Nat /\ counts'[k] \in {counts[k], counts[k] + 1}
          BY <1>0, <4>2
        <4> QED
          BY <4>2, <4>3
      <3>2. CASE UNCHANGED counts
        BY <3>2
      <3> QED
        BY <1>4, <3>1, <3>2, WorkerFile
    <2>3. ASSUME NEW v \in Workers \ {w} PROVE Slotted(v)'
      <3>1. pc'[v] = pc[v] /\ job'[v] = job[v] /\ at'[v] = at[v] /\ slot'[v] = slot[v]
        BY <1>0, <2>1 DEF Moves
      <3>2. Call(v)' = Call(v)
        BY <3>1 DEF Call, CallsOf
      <3>3. Slotted(v)
        BY DEF SlotInv
      <3> QED
        BY <2>2, <3>1, <3>2, <3>3
    <2>4. Slotted(w)'
      <3>1. CASE EmitKey(w)
        <4>k. PICK key : key = Call(w).key
          OBVIOUS
        <4>1. /\ pc[w] = "emit_key" /\ pc' = [pc EXCEPT ![w] = "emit_unlock"]
              /\ UNCHANGED <<job, at, counts>>
              /\ slot' = [slot EXCEPT ![w] = CurrentShadowKey(counts, key)]
          BY <3>1, <4>k DEF EmitKey, Goto
        <4>2. slot'[w] = CurrentShadowKey(counts, key) /\ Call(w)' = Call(w)
          BY <1>0, <4>1 DEF Call, CallsOf
        <4>3. key \in DOMAIN counts
          BY <4>1, <4>k DEF HandedOut
        <4>4. slot'[w] = GenerateShadowKey(key, counts[key]) /\ counts[key] \in 0..counts[key]
          BY <1>0, <4>2, <4>3 DEF CurrentShadowKey, KeyCount
        <4> QED
          BY <4>1, <4>2, <4>3, <4>4, <4>k
      <3>2. CASE EmitUnlock(w)
        <4>1. pc[w] = "emit_unlock" /\ UNCHANGED <<slot, counts, job, at>>
          BY <3>2 DEF EmitUnlock, Unlock, Goto
        <4>2. Call(w)' = Call(w)
          BY <4>1 DEF Call, CallsOf
        <4> QED
          BY <4>1, <4>2 DEF SlotInv
      <3>3. CASE PutFails(w)
        BY <1>1, <3>3 DEF PutFails
      <3>4. CASE ~EmitKey(w) /\ ~EmitUnlock(w) /\ ~PutFails(w)
        <4>1. pc'[w] \notin {"emit_unlock", "emit_put"}
          BY <1>0, <1>4, <3>4 DEF Worker, Start, StartFails, TakeRecord, EndThread, MapReturns,
            EmitLoad, EmitAdd, EmitLock, EmitIncrement, EmitPut, SizeLoad, SizeAdd, SetLock,
            SetLoad, SetAdd, SetUnlock, SetPut, Lock, Unlock, Return, Goto, Makes
        <4> QED
          BY <4>1
      <3> QED
        BY <3>1, <3>2, <3>3, <3>4
    <2> QED
      BY <2>3, <2>4 DEF SlotInv
  <1> QED
    BY <1>2, <1>3, <1>4 DEF Next, Terminated

\* The number emit hands out is the one after those handed out, and nobody's.
LEMMA NextNumber ==
  ASSUME PlainEmits, NoWrap, ShapeInv, MutexInv, JobInv, NumberInv,
         NEW w \in Workers, EmitIncrement(w)
  PROVE  \E key \in EmitKeys :
           /\ key = Call(w).key
           /\ DOMAIN counts' = DOMAIN counts \cup {key}
           /\ \A k \in DOMAIN counts \ {key} : counts'[k] = counts[k]
           /\ counts'[key] = IF key \in DOMAIN counts THEN counts[key] + 1 ELSE 0
           /\ counts'[key] \in Nat
           /\ InHand(w)' = {GenerateShadowKey(key, counts'[key])}
           /\ \A v \in Workers \ {w} : InHand(v)' = InHand(v)
           /\ UNCHANGED <<db, main>>
  <1>k. PICK key : key = Call(w).key
    OBVIOUS
  <1>1. /\ pc[w] = "emit_incr" /\ pc' = [pc EXCEPT ![w] = "emit_key"]
        /\ UNCHANGED <<job, at, slot, db, main>>
        /\ counts' = Increment(counts, key)
    BY <1>k DEF EmitIncrement, Goto, fileVars, mainVars
  <1>2. /\ pc \in [Workers -> WorkerPC] /\ counts \in [DOMAIN counts -> Nat]
    BY DEF ShapeInv, NumberInv, HandedOut
  <1>3. /\ DOMAIN counts' = DOMAIN counts \cup {key}
        /\ counts' \in [DOMAIN counts' -> Nat]
        /\ \A k \in DOMAIN counts \ {key} : counts'[k] = counts[k]
        /\ counts'[key] = IF key \in DOMAIN counts THEN counts[key] + 1 ELSE 0
    BY <1>1, <1>2, IncrementNext
  <1>4. key \in EmitKeys
    BY <1>1, <1>k, CallListed DEF EmitPC
  <1>5. \A v \in Workers : Call(v)' = Call(v)
    BY <1>1 DEF Call, CallsOf
  <1>6. InHand(w)' = {GenerateShadowKey(key, counts'[key])}
    <2>1. pc'[w] = "emit_key" /\ key \in DOMAIN counts'
      BY <1>1, <1>2, <1>3
    <2>2. InHand(w)' = {CurrentShadowKey(counts', key)}
      BY <1>5, <1>k, <2>1 DEF InHand
    <2> QED
      BY <2>1, <2>2 DEF CurrentShadowKey, KeyCount
  <1>7. ASSUME NEW v \in Workers \ {w} PROVE InHand(v)' = InHand(v)
    <2>1. pc[v] # "emit_key"
      <3>1. emitOwner = w
        BY <1>1 DEF MutexInv, Critical
      <3>2. pc[v] = "emit_key" => emitOwner = v
        BY DEF MutexInv, Critical
      <3> QED
        BY <3>1, <3>2
    <2>2. pc'[v] = pc[v] /\ slot'[v] = slot[v]
      BY <1>1, <1>2
    <2> QED
      BY <2>1, <2>2 DEF InHand
  <1> QED
    BY <1>1, <1>3, <1>4, <1>6, <1>7, <1>k

\* The value of an emit is stored under the number the worker was given, where
\* the file has none.
LEMMA PutThere ==
  ASSUME PlainEmits, FreshInv, JobInv, HandedOut, KeptInv, SlotInv, NEW w \in Workers, EmitPut(w)
  PROVE  \E key \in EmitKeys : \E n \in 0..counts[key] :
           /\ key = Call(w).key /\ key \in DOMAIN counts /\ n \in Nat
           /\ slot[w] = GenerateShadowKey(key, n) /\ InHand(w) = {slot[w]}
           /\ main \notin {"create", "open"} /\ slot[w] \notin DOMAIN db
           /\ DOMAIN db' = DOMAIN db \cup {slot[w]}
           /\ db'[slot[w]] = Call(w).value
           /\ \A k \in DOMAIN db : db'[k] = db[k]
           /\ UNCHANGED <<main, counts, taken>>
  <1>k. PICK key : key = Call(w).key
    OBVIOUS
  <1>v. PICK value : value = Call(w).value
    OBVIOUS
  <1>1. /\ pc[w] = "emit_put" /\ UNCHANGED <<main, counts, taken>>
        /\ db' = Put(db, slot[w], value)
    BY <1>v DEF EmitPut, Return, Goto, keyVars, mainVars, queueVars
  <1>2. key \in EmitKeys /\ key \in DOMAIN counts
    BY <1>1, <1>k, CallListed DEF EmitPC, SlotInv
  <1>3. PICK n \in 0..counts[key] : slot[w] = GenerateShadowKey(key, n)
    BY <1>1, <1>k DEF SlotInv
  <1>4. n \in Nat
    BY <1>2, <1>3 DEF HandedOut
  <1>5. main \notin {"create", "open"}
    BY <1>1 DEF FreshInv, Waiting
  <1>6. InHand(w) = {slot[w]}
    BY <1>1 DEF InHand
  <1>7. slot[w] \notin DOMAIN db
    BY <1>2, <1>3, <1>4, <1>5, <1>6 DEF KeptInv
  <1>8. /\ DOMAIN db' = DOMAIN db \cup {slot[w]}
        /\ db'[slot[w]] = value
        /\ \A k \in DOMAIN db : db'[k] = db[k]
    BY <1>1, <1>7 DEF Put
  <1> QED
    BY <1>1, <1>2, <1>3, <1>4, <1>5, <1>6, <1>7, <1>8, <1>k, <1>v

\* A set changes no value of an emit.
LEMMA SetApart ==
  ASSUME KeysApart, JobInv, NEW w \in Workers, SetPut(w), NEW k \in EmitKeys, NEW n \in Nat
  PROVE  /\ GenerateShadowKey(k, n) \in DOMAIN db' <=> GenerateShadowKey(k, n) \in DOMAIN db
         /\ GenerateShadowKey(k, n) \in DOMAIN db =>
              db'[GenerateShadowKey(k, n)] = db[GenerateShadowKey(k, n)]
  <1>k. PICK key : key = Call(w).key
    OBVIOUS
  <1>s. PICK s : s = GenerateShadowKey(k, n)
    OBVIOUS
  <1>1. pc[w] = "set_put" /\ db' = Put(db, key, Call(w).value)
    BY <1>k DEF SetPut, Return, Goto
  <1>2. key \in SetKeys
    BY <1>1, <1>k, CallListed DEF SetPC
  <1>3. s # key
    BY <1>2, <1>s DEF KeysApart
  <1> QED
    BY <1>1, <1>3, <1>s DEF Put

LEMMA KeptStep ==
  ASSUME PlainEmits, KeysApart, NoWrap, RunInv, KeptInv, SlotInv, [Next]_vars
  PROVE  KeptInv'
  <1>0. /\ ShapeInv /\ MutexInv /\ FreshInv /\ JobInv /\ NumberInv /\ HandedOut /\ Types /\ FoundInv
        /\ counts \in [DOMAIN counts -> Nat]
    BY DEF RunInv, MapInv, ThreadInv, NumberInv, HandedOut
  <1> SUFFICES ASSUME main' \notin {"create", "open"}, NEW k \in EmitKeys, NEW n \in Nat,
                      GenerateShadowKey(k, n) \in DOMAIN db'
               PROVE  /\ k \in DOMAIN counts' /\ n <= counts'[k]
                      /\ \A w \in Workers : GenerateShadowKey(k, n) \notin InHand(w)'
    BY DEF KeptInv
  <1>s. PICK s : s = GenerateShadowKey(k, n)
    OBVIOUS
  <1>1. ASSUME UNCHANGED counts, main \notin {"create", "open"}, s \in DOMAIN db,
               \A w \in Workers : InHand(w)' = InHand(w)
        PROVE  /\ k \in DOMAIN counts' /\ n <= counts'[k]
               /\ \A w \in Workers : s \notin InHand(w)'
    BY <1>1, <1>s DEF KeptInv
  <1>2. CASE \A w \in Workers : ~EmitIncrement(w) /\ ~EmitPut(w)
    <2>1. \A w \in Workers : InHand(w)' = InHand(w)
      BY <1>0, <1>2, HandsKept
    <2>2. CASE UNCHANGED vars
      BY <1>1, <1>s, <2>1, <2>2 DEF vars, mainVars, keyVars, fileVars
    <2>3. CASE MainThread
      <3>1. ~OpenMapOut
        BY <1>0, <2>3, OpenedEmpty DEF MainThread
      <3> QED
        BY <1>0, <1>1, <1>s, <2>1, <2>3, <3>1, MainFile
    <2>4. ASSUME NEW w \in Workers, Worker(w)
          PROVE  UNCHANGED counts /\ main \notin {"create", "open"} /\ s \in DOMAIN db
      <3>1. CASE SetPut(w)
        BY <1>0, <1>2, <1>s, <2>4, <3>1, SetApart, WorkerFile DEF mainVars
      <3>2. CASE ~SetPut(w)
        BY <1>2, <1>s, <2>4, <3>2, WorkerFile DEF mainVars
      <3> QED
        BY <3>1, <3>2
    <2> QED
      BY <1>1, <1>s, <2>1, <2>2, <2>3, <2>4 DEF Next, Terminated
  <1>3. ASSUME NEW w \in Workers, EmitIncrement(w)
        PROVE  /\ k \in DOMAIN counts' /\ n <= counts'[k]
               /\ \A v \in Workers : s \notin InHand(v)'
    <2>1. PICK key \in EmitKeys :
            /\ key = Call(w).key
            /\ DOMAIN counts' = DOMAIN counts \cup {key}
            /\ \A l \in DOMAIN counts \ {key} : counts'[l] = counts[l]
            /\ counts'[key] = IF key \in DOMAIN counts THEN counts[key] + 1 ELSE 0
            /\ counts'[key] \in Nat
            /\ InHand(w)' = {GenerateShadowKey(key, counts'[key])}
            /\ \A v \in Workers \ {w} : InHand(v)' = InHand(v)
            /\ UNCHANGED <<db, main>>
      BY <1>0, <1>3, NextNumber
    <2>2. /\ k \in DOMAIN counts /\ n <= counts[k] /\ counts[k] \in Nat
          /\ \A v \in Workers : s \notin InHand(v)
      BY <1>0, <1>s, <2>1 DEF KeptInv
    <2>3. k \in DOMAIN counts' /\ n <= counts'[k] /\ (k = key => n < counts'[k])
      BY <2>1, <2>2
    <2>4. s # GenerateShadowKey(key, counts'[key])
      BY <1>s, <2>1, <2>3, EmitKeysPlain, ShadowKeysDiffer
    <2> QED
      BY <2>1, <2>2, <2>3, <2>4
  <1>4. ASSUME NEW w \in Workers, EmitPut(w)
        PROVE  /\ k \in DOMAIN counts' /\ n <= counts'[k]
               /\ \A v \in Workers : s \notin InHand(v)'
    <2>p. PICK key \in EmitKeys :
            \E m \in 0..counts[key] :
              /\ key \in DOMAIN counts /\ m \in Nat
              /\ slot[w] = GenerateShadowKey(key, m) /\ InHand(w) = {slot[w]}
              /\ main \notin {"create", "open"} /\ slot[w] \notin DOMAIN db
              /\ DOMAIN db' = DOMAIN db \cup {slot[w]}
              /\ UNCHANGED <<main, counts>>
      BY <1>0, <1>4, PutThere
    <2>1. PICK m \in 0..counts[key] :
            /\ key \in DOMAIN counts /\ m \in Nat
            /\ slot[w] = GenerateShadowKey(key, m) /\ InHand(w) = {slot[w]}
            /\ main \notin {"create", "open"} /\ slot[w] \notin DOMAIN db
            /\ DOMAIN db' = DOMAIN db \cup {slot[w]}
            /\ UNCHANGED <<main, counts>>
      BY <2>p
    <2>2. InHand(w)' = {}
      <3>1. pc'[w] = "map"
        BY <1>0, <1>4 DEF EmitPut, Return, Goto, ShapeInv
      <3> QED
        BY <3>1 DEF InHand
    <2>3. \A v \in Workers \ {w} : InHand(v)' = InHand(v)
      <3>1. Moves(w, "map")
        BY <1>0, <1>4 DEF EmitPut, Return, Goto, Moves, ShapeInv
      <3> QED
        BY <1>0, <2>1, <3>1, HandsOfOthers
    <2>4. CASE s \in DOMAIN db
      BY <1>s, <2>1, <2>2, <2>3, <2>4 DEF KeptInv
    <2>5. CASE s = slot[w]
      <3>1. k = key /\ n = m
        <4>1. IsPlain(k) /\ IsPlain(key) /\ m \in Nat
          BY <2>1, EmitKeysPlain
        <4>2. GenerateShadowKey(k, n) = GenerateShadowKey(key, m)
          BY <1>s, <2>1, <2>5
        <4> QED
          BY <4>1, <4>2, ShadowKeysDiffer
      <3>2. \A v \in Workers \ {w} : InHand(v) \cap InHand(w) = {}
        BY <1>0 DEF NumberInv, EveryNumberHasItsEmit
      <3>3. n <= counts[k]
        BY <1>0, <2>1, <3>1
      <3> QED
        BY <2>1, <2>2, <2>3, <2>5, <3>1, <3>2, <3>3
    <2> QED
      BY <1>s, <2>1, <2>4, <2>5
  <1> QED
    BY <1>2, <1>3, <1>4, <1>s

------------------------------------------------------------------------------
\* Only the put of an emit adds a number to a pair.
LEMMA NumbersStay ==
  ASSUME PlainEmits, KeysApart, NoWrap, RunInv, KeptInv, [Next]_vars,
         \A w \in Workers : ~EmitPut(w), NEW p \in EmitPairs
  PROVE  NumbersOf(p)' = NumbersOf(p)
  <1>0. /\ ShapeInv /\ MutexInv /\ FreshInv /\ JobInv /\ NumberInv /\ Types /\ FoundInv
        /\ counts \in [DOMAIN counts -> Nat]
    BY DEF RunInv, MapInv, ThreadInv, NumberInv, HandedOut
  <1>k. PICK k : k = p[1]
    OBVIOUS
  <1>v. PICK v : v = p[2]
    OBVIOUS
  <1>1. k \in EmitKeys
    BY <1>k DEF EmitPairs, EmitKeys
  <1> DEFINE There(n) == /\ main \notin {"create", "open"}
                         /\ GenerateShadowKey(k, n) \in DOMAIN db
                         /\ db[GenerateShadowKey(k, n)] = v
  <1>2. NumbersOf(p) = {n \in 0..KeyCount(counts, k) : There(n)}
    BY <1>k, <1>v DEF NumbersOf
  <1>3. NumbersOf(p)' = {n \in 0..KeyCount(counts', k) : There(n)'}
    BY <1>k, <1>v DEF NumbersOf, KeyCount
  <1>c. KeyCount(counts, k) \in Nat
    BY <1>0 DEF KeyCount
  <1>4. ASSUME UNCHANGED counts, \A n \in Nat : There(n)' <=> There(n)
        PROVE  NumbersOf(p)' = NumbersOf(p)
    <2>1. \A n \in 0..KeyCount(counts, k) : There(n)' <=> There(n)
      BY <1>4, <1>c
    <2> HIDE DEF There
    <2> QED
      BY <1>2, <1>3, <1>4, <2>1
  <1>5. ASSUME UNCHANGED <<counts, db>>, (main' \in {"create", "open"}) = (main \in {"create", "open"})
        PROVE  NumbersOf(p)' = NumbersOf(p)
    BY <1>4, <1>5
  <1>6. CASE UNCHANGED vars
    BY <1>5, <1>6 DEF vars, mainVars, keyVars, fileVars
  <1>7. CASE MainThread
    <2>1. CASE OpenMapOut
      <3>1. main = "open"
        BY <2>1 DEF OpenMapOut
      <3>2. \A n \in Nat : ~There(n) /\ ~There(n)'
        BY <1>0, <1>1, <1>7, <2>1, <3>1, OpenedEmpty DEF MainThread
      <3>3. UNCHANGED counts
        BY <1>0, <1>7, MainFile
      <3> QED
        BY <1>4, <3>2, <3>3
    <2>2. CASE ~OpenMapOut
      BY <1>0, <1>5, <1>7, <2>2, MainFile
    <2> QED
      BY <2>1, <2>2
  <1>8. ASSUME NEW w \in Workers, Worker(w) PROVE NumbersOf(p)' = NumbersOf(p)
    <2>0. UNCHANGED main
      BY <1>8, WorkerFile DEF mainVars
    <2>1. CASE EmitIncrement(w)
      <3>1. PICK key \in EmitKeys :
              /\ DOMAIN counts' = DOMAIN counts \cup {key}
              /\ \A l \in DOMAIN counts \ {key} : counts'[l] = counts[l]
              /\ counts'[key] = IF key \in DOMAIN counts THEN counts[key] + 1 ELSE 0
              /\ counts'[key] \in Nat
              /\ UNCHANGED <<db, main>>
        BY <1>0, <2>1, NextNumber
      <3>2. \A n : There(n)' <=> There(n)
        BY <3>1
      <3>3. \A n \in Nat : There(n) => n <= KeyCount(counts, k)
        BY <1>1 DEF KeptInv, KeyCount
      <3>4. KeyCount(counts', k) \in Nat /\ KeyCount(counts, k) <= KeyCount(counts', k)
        <4>1. CASE k = key
          BY <1>0, <3>1, <4>1 DEF KeyCount
        <4>2. CASE k # key /\ k \in DOMAIN counts
          <5>1. counts'[k] = counts[k] /\ k \in DOMAIN counts' /\ counts[k] \in Nat
            BY <1>0, <3>1, <4>2
          <5> QED
            BY <4>2, <5>1 DEF KeyCount
        <4>3. CASE k # key /\ k \notin DOMAIN counts
          BY <3>1, <4>3 DEF KeyCount
        <4> QED
          BY <4>1, <4>2, <4>3
      <3> HIDE DEF There
      <3>5. \A n \in 0..KeyCount(counts', k) : There(n) => n \in 0..KeyCount(counts, k)
        BY <1>c, <3>3, <3>4
      <3>6. 0..KeyCount(counts, k) \subseteq 0..KeyCount(counts', k)
        BY <1>c, <3>4
      <3> QED
        BY <1>2, <1>3, <3>2, <3>5, <3>6
    <2>2. CASE SetPut(w)
      <3>1. UNCHANGED counts
        BY <2>2 DEF SetPut, keyVars
      <3>2. \A n \in Nat : There(n)' <=> There(n)
        BY <1>0, <1>1, <2>0, <2>2, SetApart
      <3> QED
        BY <1>4, <3>1, <3>2
    <2>3. CASE ~EmitIncrement(w) /\ ~SetPut(w) /\ ~EmitPut(w)
      BY <1>5, <1>8, <2>0, <2>3, WorkerFile
    <2> QED
      BY <2>1, <2>2, <2>3
  <1> QED
    BY <1>6, <1>7, <1>8 DEF Next, Terminated

LEMMA NumbersFinite ==
  ASSUME HandedOut, NEW p
  PROVE  IsFiniteSet(NumbersOf(p)) /\ Cardinality(NumbersOf(p)) \in Nat
  <1>1. KeyCount(counts, p[1]) \in Nat
    BY DEF HandedOut, KeyCount
  <1>2. IsFiniteSet(0..KeyCount(counts, p[1]))
    BY <1>1, FS_Interval
  <1>3. NumbersOf(p) \subseteq 0..KeyCount(counts, p[1])
    BY DEF NumbersOf
  <1> QED
    BY <1>2, <1>3, FS_Subset, FS_CardinalityType

\* The put of an emit adds a number to the pair it emits, and to no other.
LEMMA PutNumbers ==
  ASSUME PlainEmits, RunInv, KeptInv, SlotInv, NEW w \in Workers, EmitPut(w), NEW p \in EmitPairs
  PROVE  Cardinality(NumbersOf(p)') =
           IF p = <<Call(w).key, Call(w).value>>
           THEN Cardinality(NumbersOf(p)) + 1 ELSE Cardinality(NumbersOf(p))
  <1>0. /\ FreshInv /\ JobInv /\ HandedOut /\ counts \in [DOMAIN counts -> Nat]
    BY DEF RunInv, MapInv, ThreadInv, NumberInv, HandedOut
  <1>1. PICK key \in EmitKeys : \E n \in 0..counts[key] :
           /\ key = Call(w).key /\ key \in DOMAIN counts /\ n \in Nat
           /\ slot[w] = GenerateShadowKey(key, n) /\ InHand(w) = {slot[w]}
           /\ main \notin {"create", "open"} /\ slot[w] \notin DOMAIN db
           /\ DOMAIN db' = DOMAIN db \cup {slot[w]}
           /\ db'[slot[w]] = Call(w).value
           /\ \A k \in DOMAIN db : db'[k] = db[k]
           /\ UNCHANGED <<main, counts, taken>>
    BY <1>0, PutThere
  <1>2. PICK n \in 0..counts[key] :
           /\ key = Call(w).key /\ key \in DOMAIN counts /\ n \in Nat
           /\ slot[w] = GenerateShadowKey(key, n)
           /\ main \notin {"create", "open"} /\ slot[w] \notin DOMAIN db
           /\ DOMAIN db' = DOMAIN db \cup {slot[w]}
           /\ db'[slot[w]] = Call(w).value
           /\ \A k \in DOMAIN db : db'[k] = db[k]
           /\ UNCHANGED <<main, counts, taken>>
    BY <1>1
  <1>k. PICK k : k = p[1]
    OBVIOUS
  <1>v. PICK v : v = p[2]
    OBVIOUS
  <1>u. PICK u : u = Call(w).value
    OBVIOUS
  <1>3. k \in EmitKeys /\ p = <<k, v>>
    BY <1>k, <1>v DEF EmitPairs, EmitKeys
  <1> DEFINE There(i) == GenerateShadowKey(k, i) \in DOMAIN db /\ db[GenerateShadowKey(k, i)] = v
             There2(i) == GenerateShadowKey(k, i) \in DOMAIN db' /\ db'[GenerateShadowKey(k, i)] = v
  <1>4. NumbersOf(p) = {i \in 0..KeyCount(counts, k) : There(i)}
    BY <1>2, <1>k, <1>v DEF NumbersOf
  <1>5. NumbersOf(p)' = {i \in 0..KeyCount(counts, k) : There2(i)}
    BY <1>2, <1>k, <1>v DEF NumbersOf, KeyCount
  <1>c. KeyCount(counts, k) \in Nat
    BY <1>0 DEF KeyCount
  <1>6. ASSUME NEW i \in Nat
        PROVE  There2(i) <=> There(i) \/ (k = key /\ i = n /\ u = v)
    <2>s. PICK s : s = GenerateShadowKey(k, i)
      OBVIOUS
    <2>1. s = slot[w] => k = key /\ i = n
      <3> SUFFICES ASSUME s = slot[w] PROVE k = key /\ i = n
        OBVIOUS
      <3>1. IsPlain(k) /\ IsPlain(key) /\ n \in Nat
        BY <1>2, <1>3, EmitKeysPlain
      <3>2. GenerateShadowKey(k, i) = GenerateShadowKey(key, n)
        BY <1>2, <2>s
      <3> QED
        BY <3>1, <3>2, ShadowKeysDiffer
    <2>2. k = key /\ i = n => s = slot[w]
      BY <1>2, <2>s
    <2> QED
      BY <1>2, <1>u, <2>1, <2>2, <2>s
  <1>7. IsFiniteSet(NumbersOf(p))
    BY <1>0, NumbersFinite
  <1>8. CASE k = key /\ u = v
    <2>1. n \in 0..KeyCount(counts, k) /\ ~There(n)
      BY <1>2, <1>8 DEF KeyCount
    <2> HIDE DEF There, There2
    <2>2. NumbersOf(p)' = NumbersOf(p) \cup {n} /\ n \notin NumbersOf(p)
      BY <1>4, <1>5, <1>6, <1>8, <1>c, <2>1
    <2>3. Cardinality(NumbersOf(p) \cup {n}) = Cardinality(NumbersOf(p)) + 1
      BY <1>7, <2>2, FS_AddElement
    <2> QED
      BY <1>2, <1>3, <1>8, <1>u, <2>2, <2>3
  <1>9. CASE ~(k = key /\ u = v)
    <2> HIDE DEF There, There2
    <2>1. NumbersOf(p)' = NumbersOf(p)
      BY <1>4, <1>5, <1>6, <1>9, <1>c
    <2>2. p # <<key, u>>
      BY <1>3, <1>9
    <2> QED
      BY <1>2, <1>u, <2>1, <2>2
  <1> QED
    BY <1>8, <1>9

\* What the calls that are through emit changes only with the put of an emit.
LEMMA DoneStay ==
  ASSUME ListedCalls, RunInv, [Next]_vars, ~env.optimize_bucket_count,
         \A w \in Workers : ~EmitPut(w), NEW p
  PROVE  DoneCalls(p)' = DoneCalls(p)
  <1>0. /\ ShapeInv /\ JobInv /\ TakenTypes /\ OptionInv
    BY DEF RunInv, MapInv, ThreadInv
  <1>k. IsKind("emit", PutEarly) /\ "map" \in PutEarly /\ PutEarly # SizeEarly
    BY DEF IsKind, PutEarly, SizeEarly
  <1>1. ASSUME Counted("emit", PutEarly)' = Counted("emit", PutEarly),
               \A c \in CallsBegun : CallAt(c)' = CallAt(c)
        PROVE  DoneCalls(p)' = DoneCalls(p)
    <2>1. Counted("emit", PutEarly) \subseteq CallsBegun
      BY DEF Counted, CallsMade
    <2> QED
      BY <1>1, <2>1 DEF DoneCalls
  <1>2. ASSUME UNCHANGED taken,
               \A v \in Workers : Late(v, "emit", PutEarly)' = Late(v, "emit", PutEarly)
        PROVE  DoneCalls(p)' = DoneCalls(p)
    <2>1. Counted("emit", PutEarly)' = Counted("emit", PutEarly)
      BY <1>2, CountedStays
    <2>2. \A c \in CallsBegun : CallAt(c)' = CallAt(c)
      BY <1>2 DEF CallAt, CallsOf
    <2> QED
      BY <1>1, <2>1, <2>2
  <1>3. CASE UNCHANGED vars
    BY <1>2, <1>3 DEF vars, workerVars, queueVars, Late, CallsOf
  <1>4. CASE MainThread
    BY <1>0, <1>2, <1>4, MainLate
  <1>5. ASSUME NEW w \in Workers, Worker(w) PROVE DoneCalls(p)' = DoneCalls(p)
    <2>1. CASE TakeRecord(w)
      BY <1>0, <1>1, <1>k, <2>1, CountedTaken
    <2>2. CASE ~TakeRecord(w)
      <3>1. pc[w] \notin {"size_load", "size_add"}
        BY <1>0 DEF OptionInv
      <3>2. \A v \in Workers : Late(v, "emit", PutEarly)' = Late(v, "emit", PutEarly)
        BY <1>0, <1>5, <1>k, <2>2, <3>1, WorkerLate
      <3> QED
        BY <1>2, <1>5, <2>2, <3>2, TakenKept
    <2> QED
      BY <2>1, <2>2
  <1> QED
    BY <1>3, <1>4, <1>5 DEF Next, Terminated

\* The put of an emit completes one call.
LEMMA PutDone ==
  ASSUME ListedCalls, RunInv, NEW w \in Workers, EmitPut(w)
  PROVE  \E call \in CallsMade("emit") :
           /\ CallAt(call) = Call(w) /\ Call(w).op = "emit"
           /\ call \notin Counted("emit", PutEarly)
           /\ \A p : DoneCalls(p)' = IF p = <<Call(w).key, Call(w).value>>
                                     THEN DoneCalls(p) \cup {call} ELSE DoneCalls(p)
  <1>0. /\ ShapeInv /\ JobInv /\ TakenTypes /\ LastInv
    BY DEF RunInv, MapInv, ThreadInv
  <1>1. /\ pc[w] = "emit_put" /\ pc' = [pc EXCEPT ![w] = "map"]
        /\ UNCHANGED <<job, slot, taken>> /\ at' = [at EXCEPT ![w] = @ + 1]
    BY DEF EmitPut, Return, Goto, queueVars
  <1>2. PICK to : to = "map"
    OBVIOUS
  <1>3. Moves(w, to) /\ to \notin Waiting /\ to \in PutEarly
    BY <1>0, <1>1, <1>2 DEF Moves, Waiting, PutEarly, ShapeInv
  <1>4. pc[w] \notin Waiting /\ pc[w] \in PutEarly /\ pc[w] \in EmitPC
    BY <1>1 DEF Waiting, PutEarly, EmitPC
  <1>5. Call(w).op = "emit" /\ at[w] \in DOMAIN CallsOf(job[w])
    BY <1>0, <1>4 DEF JobInv
  <1>6. /\ at[w] \in Late(w, "emit", PutEarly)
        /\ Late(w, "emit", PutEarly)' = Late(w, "emit", PutEarly) \ {at[w]}
        /\ \A v \in Workers \ {w} : Late(v, "emit", PutEarly)' = Late(v, "emit", PutEarly)
    <2>1. \/ UNCHANGED at /\ to \notin PutEarly
          \/ at' = [at EXCEPT ![w] = @ + 1] /\ to \in PutEarly
      BY <1>1, <1>3
    <2>2. UNCHANGED job
      BY <1>1
    <2> QED
      BY <1>0, <1>3, <1>4, <1>5, <2>1, <2>2, LateLess
  <1>7. PICK call \in CallsMade("emit") :
          /\ call \notin Counted("emit", PutEarly)
          /\ CallAt(call) = Call(w)
          /\ Counted("emit", PutEarly)' = Counted("emit", PutEarly) \cup {call}
    BY <1>0, <1>1, <1>4, <1>6, CountedOne
  <1>8. \A c : CallAt(c)' = CallAt(c)
    BY <1>1 DEF CallAt, CallsOf
  <1>9. ASSUME NEW p
        PROVE  DoneCalls(p)' = IF p = <<Call(w).key, Call(w).value>>
                               THEN DoneCalls(p) \cup {call} ELSE DoneCalls(p)
    <2>1. DoneCalls(p)' = {c \in Counted("emit", PutEarly) \cup {call} : Emits(CallAt(c), p)}
      BY <1>7, <1>8 DEF DoneCalls
    <2>2. Emits(CallAt(call), p) <=> p = <<Call(w).key, Call(w).value>>
      BY <1>5, <1>7 DEF Emits
    <2> QED
      BY <2>1, <2>2 DEF DoneCalls
  <1> QED
    BY <1>5, <1>7, <1>9

LEMMA DoneFinite ==
  ASSUME ListedCalls, RunInv, NEW p
  PROVE  IsFiniteSet(DoneCalls(p)) /\ Cardinality(DoneCalls(p)) \in Nat
  <1>1. IsFiniteSet(Counted("emit", PutEarly))
    BY CountedFinite DEF RunInv
  <1>2. DoneCalls(p) \subseteq Counted("emit", PutEarly)
    BY DEF DoneCalls
  <1> QED
    BY <1>1, <1>2, FS_Subset, FS_CardinalityType

LEMMA StoredStep ==
  ASSUME PlainEmits, ListedCalls, KeysApart, NoWrap, GroupInv, StoredInv, [Next]_vars
  PROVE  StoredInv'
  <1>0. RunInv /\ KeptInv /\ SlotInv
    BY DEF GroupInv
  <1>e. UNCHANGED env
    BY DEF Next, MainThread, Worker, Terminated, vars
  <1> SUFFICES ASSUME ~env.optimize_bucket_count, NEW p \in EmitPairs
               PROVE  Cardinality(NumbersOf(p)') = Cardinality(DoneCalls(p)')
    BY <1>e DEF StoredInv, EmitPairs
  <1>1. Cardinality(NumbersOf(p)) = Cardinality(DoneCalls(p))
    BY DEF StoredInv
  <1>2. CASE \A w \in Workers : ~EmitPut(w)
    BY <1>0, <1>1, <1>2, NumbersStay, DoneStay
  <1>3. ASSUME NEW w \in Workers, EmitPut(w)
        PROVE  Cardinality(NumbersOf(p)') = Cardinality(DoneCalls(p)')
    <2>1. PICK call \in CallsMade("emit") :
           /\ call \notin Counted("emit", PutEarly)
           /\ \A q : DoneCalls(q)' = IF q = <<Call(w).key, Call(w).value>>
                                     THEN DoneCalls(q) \cup {call} ELSE DoneCalls(q)
      BY <1>0, <1>3, PutDone
    <2>2. Cardinality(NumbersOf(p)') =
            IF p = <<Call(w).key, Call(w).value>>
            THEN Cardinality(NumbersOf(p)) + 1 ELSE Cardinality(NumbersOf(p))
      BY <1>0, <1>3, PutNumbers
    <2>3. call \notin DoneCalls(p) /\ IsFiniteSet(DoneCalls(p))
      BY <1>0, <2>1, DoneFinite DEF DoneCalls
    <2>4. Cardinality(DoneCalls(p) \cup {call}) = Cardinality(DoneCalls(p)) + 1
      BY <2>3, FS_AddElement
    <2> QED
      BY <1>1, <2>1, <2>2, <2>4
  <1> QED
    BY <1>2, <1>3

------------------------------------------------------------------------------
\* The output is complete.
Finished ==
  /\ main = "exited"
  /\ \E w \in Workers : pc[w] = "ended"
  /\ ~env.optimize_bucket_count

\* The phase exits once, when the file is closed, and does nothing after it.
LEMMA ExitOnce ==
  ASSUME RunInv, [Next]_vars
  PROVE  /\ main = "exited" => UNCHANGED vars
         /\ main # "exited" /\ ~CloseMapOut => main' # "exited"
         /\ \A w \in Workers : Worker(w) => main # "exited"
  <1>0. FileInv
    BY DEF RunInv, MapInv, ThreadInv
  <1>1. ASSUME NEW w \in Workers, Worker(w) PROVE main # "exited" /\ UNCHANGED main
    <2>1. pc[w] \notin {"ended", "failed"}
      BY <1>1 DEF Worker, Start, StartFails, TakeRecord, EndThread, MapReturns, EmitLoad, EmitAdd,
        EmitLock, EmitIncrement, EmitKey, EmitUnlock, EmitPut, SizeLoad, SizeAdd, SetLock, SetLoad,
        SetAdd, SetUnlock, SetPut, PutFails, Lock, Unlock, Return, Goto, Makes
    <2> QED
      BY <1>0, <1>1, <2>1, WorkerFile DEF FileInv, mainVars
  <1>2. MainThread => main # "exited" /\ (~CloseMapOut => main' # "exited")
    BY DEF MainThread, CreateThread, ThreadsCreated, OpenMapOut, OpenMapOutFails, OpenInput,
      SkipInput, EnqueueRecord, DropRecord, InputComplete, CloseQueue, JoinWorkers,
      JoinGarbage, CloseMapOut, mainVars
  <1>3. UNCHANGED vars => UNCHANGED main
    BY DEF vars, mainVars
  <1> QED
    BY <1>1, <1>2, <1>3 DEF Next, Terminated

\* The put of an emit stores one more of the pair it emits, of which the input
\* has more than the file held.
LEMMA PutStores ==
  ASSUME PlainEmits, ListedCalls, KeysApart, NoWrap, GroupInv, StoredInv, [Next]_vars,
         NEW w \in Workers, EmitPut(w)
  PROVE  \E p \in EmitPairs :
           /\ Stored[p] < Emitted[p]
           /\ Stored' = [Stored EXCEPT ![p] = @ + 1]
  <1>0. RunInv /\ KeptInv /\ SlotInv /\ ShapeInv /\ JobInv /\ TakenTypes /\ ChannelInv /\ OptionInv /\ HandedOut
    BY DEF GroupInv, RunInv, MapInv, ThreadInv, NumberInv
  <1>1. pc[w] = "emit_put"
    BY DEF EmitPut, Return, Goto
  <1>2. ~env.optimize_bucket_count
    BY <1>0, <1>1 DEF OptionInv
  <1>p. PICK p : p = <<Call(w).key, Call(w).value>>
    OBVIOUS
  <1>3. p \in EmitPairs
    BY <1>0, <1>1, <1>p, CallListed DEF EmitPC
  <1>4. PICK call \in CallsMade("emit") :
          /\ CallAt(call) = Call(w) /\ Call(w).op = "emit"
          /\ call \notin Counted("emit", PutEarly)
    BY <1>0, PutDone
  <1>5. DoneCalls(p) \cup {call} \subseteq DueCalls(p)
    <2>1. Emits(CallAt(call), p)
      BY <1>4, <1>p DEF Emits
    <2> QED
      BY <1>0, <1>4, <2>1, DoneAreDue
  <1>6. Cardinality(DoneCalls(p)) < Cardinality(DueCalls(p))
    <2>1. call \notin DoneCalls(p) /\ IsFiniteSet(DoneCalls(p)) /\ Cardinality(DoneCalls(p)) \in Nat
      BY <1>0, <1>4, DoneFinite DEF DoneCalls
    <2>2. Cardinality(DoneCalls(p) \cup {call}) = Cardinality(DoneCalls(p)) + 1
      BY <2>1, FS_AddElement
    <2>3. /\ Cardinality(DoneCalls(p) \cup {call}) <= Cardinality(DueCalls(p))
          /\ Cardinality(DueCalls(p)) \in Nat
      BY <1>5, DueFinite, FS_Subset, FS_CardinalityType
    <2> QED
      BY <2>1, <2>2, <2>3
  <1>7. Stored[p] = Cardinality(DoneCalls(p)) /\ Emitted[p] = Cardinality(DueCalls(p))
    <2>1. Stored[p] = Cardinality(NumbersOf(p))
      BY <1>3 DEF Stored
    <2>2. Emitted[p] = Cardinality(DueCalls(p))
      BY <1>3 DEF Emitted, DueCalls
    <2>3. Cardinality(NumbersOf(p)) = Cardinality(DoneCalls(p))
      BY <1>2, <1>3 DEF StoredInv
    <2> QED
      BY <2>1, <2>2, <2>3
  <1>8. \A q \in EmitPairs : Cardinality(NumbersOf(q)') =
           IF q = p THEN Cardinality(NumbersOf(q)) + 1 ELSE Cardinality(NumbersOf(q))
    BY <1>0, <1>p, PutNumbers
  <1>9. Stored' = [q \in EmitPairs |-> Cardinality(NumbersOf(q)')]
    BY DEF Stored
  <1>10. Stored' = [Stored EXCEPT ![p] = @ + 1]
    BY <1>3, <1>8, <1>9 DEF Stored
  <1> QED
    BY <1>3, <1>6, <1>7, <1>10

\* No other step changes what the file holds of a pair.
LEMMA StoredStays ==
  ASSUME PlainEmits, KeysApart, NoWrap, GroupInv, [Next]_vars, \A w \in Workers : ~EmitPut(w)
  PROVE  Stored' = Stored
  <1>1. \A p \in EmitPairs : NumbersOf(p)' = NumbersOf(p)
    BY NumbersStay DEF GroupInv
  <1>2. Stored' = [p \in EmitPairs |-> Cardinality(NumbersOf(p)')]
    BY DEF Stored
  <1> QED
    BY <1>1, <1>2 DEF Stored

\* When the workers have ended the file holds all the input emits.
LEMMA AllStored ==
  ASSUME ListedCalls, GroupInv, StoredInv, main = "end", ~env.optimize_bucket_count,
         \E w \in Workers : pc[w] = "ended"
  PROVE  Stored = Emitted
  <1>0. /\ RunInv /\ ShapeInv /\ FileInv /\ TakenTypes /\ ChannelInv
    BY DEF GroupInv, RunInv, MapInv, ThreadInv
  <1>1. \A w \in Workers : \A op, early : Late(w, op, early) = {}
    BY <1>0 DEF FileInv, Late, Waiting
  <1>2. Counted("emit", PutEarly) = CallsMade("emit")
    BY <1>1 DEF Counted
  <1>3. DOMAIN taken = DOMAIN Selected
    <2>1. queue = <<>>
      BY <1>0 DEF ChannelInv
    <2>2. Passed = Places
      BY DEF Passed
    <2>3. Len(taken) \in Nat /\ DOMAIN taken = 1..Len(taken) /\ Len(queue) = 0
      BY <1>0, <2>1, TakenRecords
    <2>4. Len(taken) + Len(queue) = Cardinality(Places)
      BY <1>0, <2>2 DEF ChannelInv
    <2> QED
      BY <2>3, <2>4, SelectedRecords
  <1>4. ASSUME NEW p \in EmitPairs PROVE DueCalls(p) = DoneCalls(p)
    <2>1. DoneCalls(p) \subseteq DueCalls(p)
      BY <1>0, DoneAreDue
    <2>2. ASSUME NEW c \in DueCalls(p) PROVE c \in DoneCalls(p)
      <3>1. PICK i \in DOMAIN Selected :
              c \in {i} \X {j \in DOMAIN CallsOf(Selected[i]) : Emits(CallsOf(Selected[i])[j], p)}
        BY DEF DueCalls
      <3>2. PICK j \in DOMAIN CallsOf(Selected[i]) : c = <<i, j>> /\ Emits(CallsOf(Selected[i])[j], p)
        BY <3>1
      <3>3. i \in DOMAIN taken /\ taken[i].item = Selected[i]
        BY <1>0, <1>3 DEF ChannelInv
      <3>4. <<i, j>> \in CallsBegun
        BY <3>3, CallPairs
      <3>5. CallAt(<<i, j>>) = CallsOf(Selected[i])[j]
        BY <3>3 DEF CallAt
      <3>6. Emits(CallAt(<<i, j>>), p) /\ CallAt(<<i, j>>).op = "emit"
        BY <3>2, <3>5 DEF Emits
      <3>7. c \in CallsMade("emit")
        BY <3>2, <3>4, <3>6 DEF CallsMade
      <3> QED
        BY <1>2, <3>2, <3>6, <3>7 DEF DoneCalls
    <2> QED
      BY <2>1, <2>2
  <1>5. ASSUME NEW p \in EmitPairs
        PROVE  Cardinality(NumbersOf(p)) = Cardinality(DueCalls(p))
    BY <1>4 DEF StoredInv
  <1>6. Emitted = [p \in EmitPairs |-> Cardinality(DueCalls(p))]
    BY DEF Emitted, DueCalls
  <1> QED
    BY <1>5, <1>6 DEF Stored

------------------------------------------------------------------------------
\* The inductive invariant of the file.
GroupIInv == GroupInv /\ StoredInv

LEMMA GroupInit == Init => GroupIInv /\ Grouped!Init
  <1> SUFFICES ASSUME Init PROVE GroupIInv /\ Grouped!Init
    OBVIOUS
  <1>1. /\ MapInv /\ Types /\ TakenTypes /\ LastInv /\ ChannelInv
    BY MapInit, PhaseInit, ChannelInit DEF PhaseIInv
  <1>2. /\ main = "create" /\ taken = <<>> /\ ~dbOpen
        /\ db = IF Existing = NoFile THEN EmptyDb ELSE Existing
        /\ \A w \in Workers : pc[w] = "unborn"
    BY DEF Init
  <1>3. OptionInv /\ FoundInv /\ KeptInv /\ SlotInv
    BY <1>2 DEF OptionInv, FoundInv, KeptInv, SlotInv
  <1>4. \A p : NumbersOf(p) = {}
    BY <1>2 DEF NumbersOf
  <1>5. \A p : DoneCalls(p) = {}
    <2>1. CallsBegun = {}
      BY <1>2 DEF CallsBegun
    <2> QED
      BY <2>1 DEF DoneCalls, Counted, CallsMade
  <1>6. StoredInv
    BY <1>4, <1>5 DEF StoredInv
  <1>7. Stored = [p \in EmitPairs |-> 0]
    BY <1>4, FS_EmptySet DEF Stored
  <1>8. Finished = FALSE
    BY <1>2 DEF Finished
  <1> QED
    BY <1>1, <1>3, <1>6, <1>7, <1>8 DEF GroupIInv, GroupInv, RunInv, Grouped!Init, Finished

LEMMA GroupStep ==
  ASSUME PlainEmits, KeysApart, NoWrap, GroupIInv, [Next]_vars
  PROVE  GroupIInv'
  <1>0. /\ ListedCalls /\ GroupInv /\ StoredInv /\ RunInv /\ KeptInv /\ SlotInv
        /\ MapInv /\ ThreadInv /\ ShapeInv /\ MutexInv /\ FreshInv /\ JobInv /\ HandedOut /\ NumberInv
        /\ Types /\ TakenTypes /\ LastInv /\ ChannelInv /\ OptionInv /\ FoundInv
    BY DEF GroupIInv, GroupInv, RunInv, MapInv, ThreadInv, NumberInv, PlainEmits, ListedCalls
  <1>1. MapInv'
    BY <1>0, ThreadStep, JobStep, NumberStep DEF MapInv
  <1>2. Types' /\ TakenTypes' /\ LastInv'
    BY <1>0, TypesStep, TakenTypesStep, LastStep
  <1>3. ChannelInv'
    BY <1>0, ChannelStep
  <1>4. OptionInv' /\ FoundInv'
    BY <1>0, OptionStep, FoundStep
  <1>5. KeptInv'
    BY <1>0, KeptStep
  <1>6. SlotInv'
    BY <1>0, SlotStep
  <1>7. StoredInv'
    BY <1>0, StoredStep
  <1> QED
    BY <1>1, <1>2, <1>3, <1>4, <1>5, <1>6, <1>7 DEF GroupIInv, GroupInv, RunInv

\* Every step stores a value that is due, completes the output, or leaves it
\* alone.
LEMMA GroupedStep ==
  ASSUME PlainEmits, KeysApart, NoWrap, GroupIInv, [Next]_vars
  PROVE  [Grouped!Next]_(Grouped!groupVars)
  <1>0. /\ ListedCalls /\ GroupInv /\ StoredInv /\ RunInv
    BY DEF GroupIInv, GroupInv, PlainEmits, ListedCalls
  <1>s. UNCHANGED <<Stored, Finished>> => UNCHANGED Grouped!groupVars
    BY DEF Grouped!groupVars, Finished
  <1>1. CASE \E w \in Workers : EmitPut(w)
    <2>1. PICK w \in Workers : EmitPut(w)
      BY <1>1
    <2>2. PICK p \in EmitPairs :
           /\ Stored[p] < Emitted[p]
           /\ Stored' = [Stored EXCEPT ![p] = @ + 1]
      BY <1>0, <2>1, PutStores
    <2>3. main # "exited" /\ main' = main
      <3>1. pc[w] = "emit_put" /\ main' = main
        BY <2>1 DEF EmitPut, Return, Goto, mainVars
      <3> QED
        BY <1>0, <3>1 DEF RunInv, MapInv, ThreadInv, FileInv
    <2>4. Grouped!Store(p)
      BY <2>2, <2>3 DEF Grouped!Store
    <2> QED
      BY <2>4 DEF Grouped!Next
  <1>2. CASE \A w \in Workers : ~EmitPut(w)
    <2>1. Stored' = Stored
      BY <1>0, <1>2, StoredStays
    <2>2. CASE main = "exited"
      <3>1. UNCHANGED vars
        BY <1>0, <2>2, ExitOnce
      <3>2. Finished' = Finished
        BY <3>1 DEF Finished, vars, mainVars, workerVars
      <3> QED
        BY <1>s, <2>1, <3>2
    <2>3. CASE main # "exited" /\ main' # "exited"
      <3>1. Finished' = Finished
        BY <2>3 DEF Finished
      <3> QED
        BY <1>s, <2>1, <3>1
    <2>4. CASE main # "exited" /\ main' = "exited"
      <3>1. CloseMapOut
        BY <1>0, <2>4, ExitOnce
      <3>2. main = "end" /\ UNCHANGED pc
        BY <3>1 DEF CloseMapOut, workerVars
      <3>3. UNCHANGED env
        BY DEF Next, MainThread, Worker, Terminated, vars
      <3>4. CASE (\E w \in Workers : pc[w] = "ended") /\ ~env.optimize_bucket_count
        <4>1. Stored = Emitted
          BY <1>0, <3>2, <3>4, AllStored
        <4>2. Grouped!Complete
          BY <2>1, <2>4, <3>2, <3>3, <3>4, <4>1 DEF Grouped!Complete
        <4> QED
          BY <4>2 DEF Grouped!Next
      <3>5. CASE ~((\E w \in Workers : pc[w] = "ended") /\ ~env.optimize_bucket_count)
        <4>1. Finished = FALSE /\ Finished' = FALSE
          BY <3>2, <3>3, <3>5 DEF Finished
        <4> QED
          BY <1>s, <2>1, <4>1
      <3> QED
        BY <3>4, <3>5
    <2> QED
      BY <2>2, <2>3, <2>4
  <1> QED
    BY <1>1, <1>2

\* The map phase keeps what it promises: the queue is the channel between the
\* input files and the workers, and the output file groups by key every value
\* the input emits, as often as it is emitted, and is complete when the phase
\* ends normally; for any input, map function, workers, capacity, options and
\* failures, as long as no emitted key holds "|m" or collides with what
\* Meguro.set or an incremental map put into the file, and no count wraps around.
THEOREM ImplementsTheorem ==
  ASSUME PlainEmits, KeysApart
  PROVE  Spec /\ []NoWrap => Implements
  <1>1. Init => GroupIInv /\ Grouped!Init
    BY GroupInit
  <1>2. GroupIInv /\ NoWrap /\ [Next]_vars => GroupIInv'
    BY GroupStep
  <1>3. GroupIInv /\ NoWrap /\ [Next]_vars => [Grouped!Next]_(Grouped!groupVars)
    BY GroupedStep
  <1>4. Spec => ImplementsChannel
    BY MapUsesChannel
  <1>5. Spec /\ []NoWrap => Grouped!Spec
    <2> HIDE DEF GroupIInv
    <2> QED
      BY <1>1, <1>2, <1>3, PTL DEF Spec, Grouped!Spec
  <1> QED
    BY <1>4, <1>5, PTL DEF Implements, ImplementsGrouped

\* A value in the file, stored by emit or found there by an incremental map, is
\* never replaced by an emit.  The file that is found must hold none of the keys
\* map emits: without that an incremental map does replace values.
THEOREM EmittedValuesTheorem ==
  ASSUME PlainEmits, KeysApart
  PROVE  Spec /\ []NoWrap => EmittedValuesStay
  <1> DEFINE Kept == dbOpen => \A k \in DOMAIN db \ SetKeys : k \in DOMAIN db' /\ db'[k] = db[k]
  <1>1. Init => GroupIInv
    BY GroupInit
  <1>2. GroupIInv /\ NoWrap /\ [Next]_vars => GroupIInv'
    BY GroupStep
  <1>3. GroupIInv /\ NoWrap /\ [Next]_vars => Kept
    <2> SUFFICES ASSUME GroupIInv, [Next]_vars, dbOpen
                 PROVE  \A k \in DOMAIN db \ SetKeys : k \in DOMAIN db' /\ db'[k] = db[k]
      OBVIOUS
    <2>0. ShapeInv /\ FreshInv /\ JobInv /\ HandedOut /\ KeptInv /\ SlotInv /\ FoundInv
      BY DEF GroupIInv, GroupInv, RunInv, MapInv, ThreadInv, NumberInv
    <2>1. CASE UNCHANGED vars
      BY <2>1 DEF vars, fileVars
    <2>2. CASE MainThread
      <3>1. ~OpenMapOut
        BY <2>0 DEF OpenMapOut, FoundInv
      <3> QED
        BY <2>0, <2>2, <3>1, MainFile
    <2>3. ASSUME NEW w \in Workers, Worker(w)
          PROVE  \A k \in DOMAIN db \ SetKeys : k \in DOMAIN db' /\ db'[k] = db[k]
      <3>1. CASE EmitPut(w)
        BY <2>0, <3>1, PutThere
      <3>2. CASE SetPut(w)
        <4>k. PICK key : key = Call(w).key
          OBVIOUS
        <4>1. pc[w] = "set_put" /\ db' = Put(db, key, Call(w).value)
          BY <3>2, <4>k DEF SetPut, Return, Goto
        <4>2. key \in SetKeys
          BY <2>0, <4>1, <4>k, CallListed DEF SetPC
        <4> QED
          BY <4>1, <4>2 DEF Put
      <3>3. CASE ~EmitPut(w) /\ ~SetPut(w)
        BY <2>3, <3>3, WorkerFile
      <3> QED
        BY <3>1, <3>2, <3>3
    <2> QED
      BY <2>1, <2>2, <2>3 DEF Next, Terminated
  <1>4. Spec /\ []NoWrap => [][Kept]_vars
    <2> HIDE DEF GroupIInv, Kept
    <2> QED
      BY <1>1, <1>2, <1>3, PTL DEF Spec
  <1> QED
    BY <1>4 DEF EmittedValuesStay
=============================================================================
