------------------------------ MODULE MapPhase ------------------------------
(***************************************************************************)
(* The map phase: map_master and Mapper on the main thread, threaded_map   *)
(* on the workers, and what the JavaScript map function calls back         *)
(* (Meguro.emit and Meguro.set).                                           *)
(*                                                                         *)
(* The main thread creates the workers, opens the map output file, reads   *)
(* the input files record by record, enqueues the selected records, closes *)
(* the queue, joins the workers and closes the file.  A worker dequeues a  *)
(* record and runs map on it.  What map does with a record is the constant *)
(* Calls: the emits and sets it makes before it returns or throws.  The    *)
(* queue is used at the grain of BoundedChannel, which ThreadSafeQueue     *)
(* implements; emit and set are split at every access to shared state.     *)
(***************************************************************************)
EXTENDS ShadowKeys, FiniteSets, FiniteSetsExt, SequencesExt

CONSTANTS
  Workers,      \* the threads env->number_of_threads asks for
  NoThread,     \* the owner of a free mutex
  Records,      \* the key/value pairs of the input
  NoRecord,     \* what a worker has that has no record
  Files,        \* the input files: [opens |-> BOOLEAN, records |-> Seq(Records)]
  RecordKey,    \* the key of each record
  KeyPattern,   \* env->key_pattern (-k), or NoPattern
  NoPattern,
  Calls,        \* for each record, the calls [op, key, value, size] map makes
  Refused,      \* the records SpiderMonkey cannot allocate as strings
  Capacity,     \* the capacity of the queue, 1000 in the code
  Environments, \* the options: [optimize_bucket_count, incremental_map]
  Existing,     \* the map output file found on disk, or NoFile
  NoFile,
  Faults        \* the calls that may fail: "create", "handle", "open", "put"

Ops == {"emit", "set"}

ASSUME MapAssumption ==
  /\ NoThread \notin Workers
  /\ NoRecord \notin Records
  /\ Files \in Seq([opens : BOOLEAN, records : Seq(Records)])
  /\ Refused \subseteq Records
  /\ Capacity \in Nat \ {0}
  /\ Environments \subseteq [optimize_bucket_count : BOOLEAN,
                         incremental_map : BOOLEAN]
  /\ CountMod \in Nat \ {0}
  /\ Faults \subseteq {"create", "handle", "open", "put"}

VARIABLES
  env,          \* the options of this run, -o and --incremental-map
  main,         \* where the main thread is
  fileNo,       \* input_path_index_, counted from 1
  recNo,        \* the record the iterator returns next
  queue,        \* tsq_
  qdone,        \* done(true) was called
  taken,        \* history: who dequeued which record, in order
  pc,           \* where each worker is
  job,          \* the record a worker runs map on
  at,           \* which of the record's calls comes next
  reg,          \* the counter value a worker has read and will write back
  slot,         \* the shadow key an emit was given
  emitOwner,    \* the owner of emit_mutex_
  counts,       \* env->shadow_key_map
  db,           \* map_out_db_: what the map output file holds
  dbOpen,
  emit_count_, set_count_, emit_size_estimate_,
  dead          \* the process exited early or was aborted

mainVars   == <<main, fileNo, recNo>>
queueVars  == <<queue, qdone, taken>>
workerVars == <<pc, job, at, reg, slot>>
keyVars    == <<emitOwner, counts>>
fileVars   == <<db, dbOpen>>
totals     == <<emit_count_, set_count_, emit_size_estimate_>>

vars == <<env, mainVars, queueVars, workerVars, keyVars, fileVars, totals, dead>>

NoKey == Key("", <<>>)

EmptyDb == [key \in {} |-> 0]

\* tchdbput: the last value put under a key stays.
Put(file, key, value) ==
  [k \in DOMAIN file \cup {key} |-> IF k = key THEN value ELSE file[k]]

Init ==
  /\ env \in Environments
  /\ main = "create" /\ fileNo = 1 /\ recNo = 1
  /\ queue = <<>> /\ qdone = FALSE /\ taken = <<>>
  /\ pc = [w \in Workers |-> "unborn"]
  /\ job = [w \in Workers |-> NoRecord]
  /\ at = [w \in Workers |-> 1]
  /\ reg = [w \in Workers |-> 0]
  /\ slot = [w \in Workers |-> NoKey]
  /\ emitOwner = NoThread /\ counts = EmptyMap
  /\ db = IF Existing = NoFile THEN EmptyDb ELSE Existing
  /\ dbOpen = FALSE
  /\ emit_count_ = 0 /\ set_count_ = 0 /\ emit_size_estimate_ = 0
  /\ dead = FALSE

\* exit(-1), or an exception nobody catches.
Abort == dead' = TRUE

------------------------------------------------------------------------------
(* map_master, Mapper::begin and Mapper::end                               *)

\* pthread_create; a failure is printed and forgotten.
CreateThread(w) ==
  /\ main = "create"
  /\ pc[w] = "unborn"
  /\ \E born \in {"start"} \cup (IF "create" \in Faults THEN {"failed"} ELSE {}) :
       pc' = [pc EXCEPT ![w] = born]
  /\ UNCHANGED <<mainVars, queueVars, job, at, reg, slot, keyVars, fileVars,
                 totals, dead>>

ThreadsCreated ==
  /\ main = "create"
  /\ \A w \in Workers : pc[w] # "unborn"
  /\ main' = "open"
  /\ UNCHANGED <<fileNo, recNo, queueVars, workerVars, keyVars, fileVars,
                 totals, dead>>

\* tchdbopen: truncates the file unless the map is incremental.
OpenMapOut ==
  /\ main = "open"
  /\ env.incremental_map => Existing # NoFile
  /\ main' = "pick"
  /\ db' = IF env.incremental_map THEN db ELSE EmptyDb
  /\ dbOpen' = TRUE
  /\ UNCHANGED <<fileNo, recNo, queueVars, workerVars, keyVars, totals, dead>>

\* An incremental map creates no file; other errors come from the disk.
OpenMapOutFails ==
  /\ main = "open"
  /\ "open" \in Faults \/ (env.incremental_map /\ Existing = NoFile)
  /\ Abort
  /\ UNCHANGED <<mainVars, queueVars, workerVars, keyVars, fileVars, totals>>

\* pick_an_iterator and initialize.
OpenInput ==
  /\ main = "pick"
  /\ fileNo <= Len(Files)
  /\ Files[fileNo].opens
  /\ main' = "read"
  /\ recNo' = 1
  /\ UNCHANGED <<fileNo, queueVars, workerVars, keyVars, fileVars, totals, dead>>

\* IteratorInitException: the file is skipped.
SkipInput ==
  /\ main = "pick"
  /\ fileNo <= Len(Files)
  /\ ~Files[fileNo].opens
  /\ fileNo' = fileNo + 1
  /\ UNCHANGED <<main, recNo, queueVars, workerVars, keyVars, fileVars, totals,
                 dead>>

Matches(r) == KeyPattern = NoPattern \/ RecordKey[r] = KeyPattern

\* iterator_->next() returned a record that is enqueued.
EnqueueRecord ==
  /\ main = "read"
  /\ recNo <= Len(Files[fileNo].records)
  /\ Matches(Files[fileNo].records[recNo])
  /\ Len(queue) # Capacity
  /\ queue' = Append(queue, Files[fileNo].records[recNo])
  /\ recNo' = recNo + 1
  /\ UNCHANGED <<main, fileNo, qdone, taken, workerVars, keyVars, fileVars,
                 totals, dead>>

\* A record with another key than -k names is deleted.
DropRecord ==
  /\ main = "read"
  /\ recNo <= Len(Files[fileNo].records)
  /\ ~Matches(Files[fileNo].records[recNo])
  /\ recNo' = recNo + 1
  /\ UNCHANGED <<main, fileNo, queueVars, workerVars, keyVars, fileVars,
                 totals, dead>>

\* IteratorCompleteException.
InputComplete ==
  /\ main = "read"
  /\ recNo > Len(Files[fileNo].records)
  /\ main' = "pick"
  /\ fileNo' = fileNo + 1
  /\ UNCHANGED <<recNo, queueVars, workerVars, keyVars, fileVars, totals, dead>>

\* Mutant of CloseQueue: done(true) is forgotten.
CloseForgotten ==
  /\ main = "pick"
  /\ fileNo > Len(Files)
  /\ main' = "join"
  /\ UNCHANGED <<fileNo, recNo, queueVars, workerVars, keyVars, fileVars, totals,
                 dead>>

\* tsq_->done(true), after the last file.
CloseQueue ==
  /\ main = "pick"
  /\ fileNo > Len(Files)
  /\ qdone' = TRUE
  /\ main' = "join"
  /\ UNCHANGED <<fileNo, recNo, queue, taken, workerVars, keyVars, fileVars,
                 totals, dead>>

\* Mutant of JoinWorkers: Mapper::end does not wait for the workers.
JoinSkipped ==
  /\ main = "join"
  /\ main' = "end"
  /\ UNCHANGED <<fileNo, recNo, queueVars, workerVars, keyVars, fileVars,
                 totals, dead>>

\* pthread_join returned for every thread.
JoinWorkers ==
  /\ main = "join"
  /\ \A w \in Workers : pc[w] \in {"ended", "failed"}
  /\ main' = "end"
  /\ UNCHANGED <<fileNo, recNo, queueVars, workerVars, keyVars, fileVars,
                 totals, dead>>

\* tid[i] of a thread that was not created is an uninitialized value: joining
\* it may crash.
JoinGarbage ==
  /\ main = "join"
  /\ \E w \in Workers : pc[w] = "failed"
  /\ Abort
  /\ UNCHANGED <<mainVars, queueVars, workerVars, keyVars, fileVars, totals>>

\* Mapper::end closes the file and prints the totals.
CloseMapOut ==
  /\ main = "end"
  /\ dbOpen' = FALSE
  /\ main' = "exited"
  /\ UNCHANGED <<fileNo, recNo, queueVars, workerVars, keyVars, db, totals, dead>>

------------------------------------------------------------------------------
(* threaded_map                                                            *)

Goto(w, from, to) ==
  /\ pc[w] = from
  /\ pc' = [pc EXCEPT ![w] = to]

\* new TraceMonkeyJSHandle, under tracemonkey_init_mutex.
Start(w) ==
  /\ Goto(w, "start", "idle")
  /\ UNCHANGED <<mainVars, queueVars, job, at, reg, slot, keyVars, fileVars,
                 totals, dead>>

\* Its JSHandleException is not caught in the thread.
StartFails(w) ==
  /\ pc[w] = "start"
  /\ "handle" \in Faults
  /\ Abort
  /\ UNCHANGED <<mainVars, queueVars, workerVars, keyVars, fileVars, totals>>

\* env->mapper->next() returned a record; js->map gets it.
TakeRecord(w) ==
  /\ Goto(w, "idle", "map")
  /\ queue # <<>>
  /\ job' = [job EXCEPT ![w] = Head(queue)]
  /\ at' = [at EXCEPT ![w] = 1]
  /\ queue' = Tail(queue)
  /\ taken' = Append(taken, [by |-> w, item |-> Head(queue)])
  /\ UNCHANGED <<mainVars, qdone, reg, slot, keyVars, fileVars, totals, dead>>

\* QueueEmptyException ends the thread.
EndThread(w) ==
  /\ Goto(w, "idle", "ended")
  /\ queue = <<>>
  /\ qdone
  /\ UNCHANGED <<mainVars, queueVars, job, at, reg, slot, keyVars, fileVars,
                 totals, dead>>

\* The calls map makes for a record; none when map throws JSHandleException
\* before it runs the function.
CallsOf(r) == IF r \in Refused THEN <<>> ELSE Calls[r]

\* js->map returned, or its JSHandleException was caught: the next record.
MapReturns(w) ==
  /\ Goto(w, "map", "idle")
  /\ at[w] > Len(CallsOf(job[w]))
  /\ job' = [job EXCEPT ![w] = NoRecord]
  /\ UNCHANGED <<mainVars, queueVars, at, reg, slot, keyVars, fileVars, totals,
                 dead>>

Call(w) == CallsOf(job[w])[at[w]]

\* The function calls Meguro.op next.
Makes(w, op) ==
  /\ pc[w] = "map"
  /\ at[w] <= Len(CallsOf(job[w]))
  /\ Call(w).op = op

\* The callback returned to the function.
Return(w, from) ==
  /\ Goto(w, from, "map")
  /\ at' = [at EXCEPT ![w] = @ + 1]

Lock(w, from, to) ==
  /\ Goto(w, from, to)
  /\ emitOwner = NoThread
  /\ emitOwner' = w
  /\ UNCHANGED <<mainVars, queueVars, job, at, reg, slot, counts, fileVars,
                 totals, dead>>

Unlock(w, from, to) ==
  /\ Goto(w, from, to)
  /\ emitOwner' = NoThread
  /\ UNCHANGED <<mainVars, queueVars, job, at, reg, slot, counts, fileVars,
                 totals, dead>>

------------------------------------------------------------------------------
(* Mapper::emit, and emit_noop under -o                                    *)

\* emit_count_++ is a load and a store, outside the mutex.
EmitLoad(w) ==
  /\ Makes(w, "emit")
  /\ pc' = [pc EXCEPT ![w] = "emit_add"]
  /\ reg' = [reg EXCEPT ![w] = emit_count_]
  /\ UNCHANGED <<mainVars, queueVars, job, at, slot, keyVars, fileVars, totals,
                 dead>>

EmitAdd(w) ==
  /\ Goto(w, "emit_add", IF env.optimize_bucket_count THEN "size_load" ELSE "emit_lock")
  /\ emit_count_' = reg[w] + 1
  /\ UNCHANGED <<mainVars, queueVars, job, at, reg, slot, keyVars, fileVars,
                 set_count_, emit_size_estimate_, dead>>

\* Mutant of EmitLock: the shadow key map is not protected.
EmitLockMissing(w) ==
  /\ Goto(w, "emit_lock", "emit_incr")
  /\ emitOwner' = w
  /\ UNCHANGED <<mainVars, queueVars, job, at, reg, slot, counts, fileVars,
                 totals, dead>>

EmitLock(w) == Lock(w, "emit_lock", "emit_incr")

\* increment_and_return_shadow_key: count the emit ...
EmitIncrement(w) ==
  /\ Goto(w, "emit_incr", "emit_key")
  /\ counts' = Increment(counts, Call(w).key)
  /\ UNCHANGED <<mainVars, queueVars, job, at, reg, slot, emitOwner, fileVars,
                 totals, dead>>

\* ... and make a key out of the count as it now stands.
EmitKey(w) ==
  /\ Goto(w, "emit_key", "emit_unlock")
  /\ slot' = [slot EXCEPT ![w] = CurrentShadowKey(counts, Call(w).key)]
  /\ UNCHANGED <<mainVars, queueVars, job, at, reg, keyVars, fileVars, totals,
                 dead>>

EmitUnlock(w) == Unlock(w, "emit_unlock", "emit_put")

\* Mutant of EmitPut: the key is looked up again at the put.
EmitPutCurrent(w) ==
  /\ Return(w, "emit_put")
  /\ db' = Put(db, CurrentShadowKey(counts, Call(w).key), Call(w).value)
  /\ UNCHANGED <<mainVars, queueVars, job, reg, slot, keyVars, dbOpen, totals,
                 dead>>

EmitPut(w) ==
  /\ Return(w, "emit_put")
  /\ db' = Put(db, slot[w], Call(w).value)
  /\ UNCHANGED <<mainVars, queueVars, job, reg, slot, keyVars, dbOpen, totals,
                 dead>>

\* emit_size_estimate_ += size, as unprotected as the count.
SizeLoad(w) ==
  /\ Goto(w, "size_load", "size_add")
  /\ reg' = [reg EXCEPT ![w] = emit_size_estimate_]
  /\ UNCHANGED <<mainVars, queueVars, job, at, slot, keyVars, fileVars, totals,
                 dead>>

SizeAdd(w) ==
  /\ Return(w, "size_add")
  /\ emit_size_estimate_' = reg[w] + Call(w).size
  /\ UNCHANGED <<mainVars, queueVars, job, reg, slot, keyVars, fileVars,
                 emit_count_, set_count_, dead>>

------------------------------------------------------------------------------
(* Mapper::set                                                             *)

SetLock(w) == Makes(w, "set") /\ Lock(w, "map", "set_load")

SetLoad(w) ==
  /\ Goto(w, "set_load", "set_add")
  /\ reg' = [reg EXCEPT ![w] = set_count_]
  /\ UNCHANGED <<mainVars, queueVars, job, at, slot, keyVars, fileVars, totals,
                 dead>>

SetAdd(w) ==
  /\ Goto(w, "set_add", "set_unlock")
  /\ set_count_' = reg[w] + 1
  /\ UNCHANGED <<mainVars, queueVars, job, at, reg, slot, keyVars, fileVars,
                 emit_count_, emit_size_estimate_, dead>>

SetUnlock(w) == Unlock(w, "set_unlock", "set_put")

SetPut(w) ==
  /\ Return(w, "set_put")
  /\ db' = Put(db, Call(w).key, Call(w).value)
  /\ UNCHANGED <<mainVars, queueVars, job, reg, slot, keyVars, dbOpen, totals,
                 dead>>

\* The MapperException of a failed tchdbput is caught by nobody.
PutFails(w) ==
  /\ pc[w] \in {"emit_put", "set_put"}
  /\ "put" \in Faults
  /\ Abort
  /\ UNCHANGED <<mainVars, queueVars, workerVars, keyVars, fileVars, totals>>

------------------------------------------------------------------------------
MainThread ==
  /\ ~dead
  /\ UNCHANGED env
  /\ \/ \E w \in Workers : CreateThread(w)
     \/ ThreadsCreated \/ OpenMapOut \/ OpenMapOutFails
     \/ OpenInput \/ SkipInput \/ EnqueueRecord \/ DropRecord \/ InputComplete
     \/ CloseQueue \/ JoinWorkers \/ JoinGarbage \/ CloseMapOut

Worker(w) ==
  /\ ~dead
  /\ UNCHANGED env
  /\ \/ Start(w) \/ StartFails(w) \/ TakeRecord(w) \/ EndThread(w)
     \/ MapReturns(w)
     \/ EmitLoad(w) \/ EmitAdd(w) \/ EmitLock(w) \/ EmitIncrement(w)
     \/ EmitKey(w) \/ EmitUnlock(w) \/ EmitPut(w)
     \/ SizeLoad(w) \/ SizeAdd(w)
     \/ SetLock(w) \/ SetLoad(w) \/ SetAdd(w) \/ SetUnlock(w) \/ SetPut(w)
     \/ PutFails(w)

\* No thread could be created and the main thread waits for room in the queue.
Starved ==
  /\ \A w \in Workers : pc[w] = "failed"
  /\ main = "read"
  /\ Len(queue) = Capacity

\* The map phase is over, or waits for ever; else it never stands still.
Terminated == (dead \/ main = "exited" \/ Starved) /\ UNCHANGED vars

Next == MainThread \/ (\E w \in Workers : Worker(w)) \/ Terminated

Spec == Init /\ [][Next]_vars

\* Every thread is scheduled.  emit_mutex_ is contended a bounded number of
\* times, so that weak fairness is enough to get it.
FairSpec ==
  /\ Spec
  /\ WF_vars(MainThread)
  /\ \A w \in Workers : WF_vars(Worker(w))

------------------------------------------------------------------------------
WorkerPC == {"unborn", "failed", "start", "idle", "map", "ended",
             "emit_add", "emit_lock", "emit_incr", "emit_key", "emit_unlock",
             "emit_put", "size_load", "size_add",
             "set_load", "set_add", "set_unlock", "set_put"}

CallsTo(op) == {c \in UNION {ToSet(CallsOf(r)) : r \in Records} : c.op = op}

EmitKeys == {c.key : c \in CallsTo("emit")}

SetKeys == {c.key : c \in CallsTo("set")}

TypeOK ==
  /\ env \in Environments
  /\ main \in {"create", "open", "pick", "read", "join", "end", "exited"}
  /\ fileNo \in 1..Len(Files) + 1
  /\ recNo \in Nat \ {0}
  /\ queue \in Seq(Records)
  /\ qdone \in BOOLEAN
  /\ taken \in Seq([by : Workers, item : Records])
  /\ pc \in [Workers -> WorkerPC]
  /\ job \in [Workers -> Records \cup {NoRecord}]
  /\ at \in [Workers -> Nat \ {0}]
  /\ reg \in [Workers -> Nat]
  /\ \A w \in Workers : slot[w] = NoKey \/ slot[w].name \in {k.name : k \in EmitKeys}
  /\ emitOwner \in Workers \cup {NoThread}
  /\ counts \in [DOMAIN counts -> 0..CountMod - 1]
  /\ DOMAIN counts \subseteq EmitKeys
  /\ dbOpen \in BOOLEAN
  /\ {emit_count_, set_count_, emit_size_estimate_} \subseteq Nat
  /\ dead \in BOOLEAN

\* The shadow keys worker w was given or is about to be given, and has not
\* stored a value under yet.
InHand(w) ==
  IF pc[w] = "emit_key" THEN {CurrentShadowKey(counts, Call(w).key)}
  ELSE IF pc[w] \in {"emit_unlock", "emit_put"} THEN {slot[w]}
  ELSE {}

\* Reducer::begin looks for the values of a key under the numbers 0 to its
\* count.  Every number that was handed out has its value in the file, or in
\* the hands of exactly the one worker that is still to put it: no hole
\* remains, and no two emits race for one shadow key.
EveryNumberHasItsEmit ==
  /\ \A k \in DOMAIN counts : \A n \in 0..counts[k] :
       \/ GenerateShadowKey(k, n) \in DOMAIN db
       \/ \E w \in Workers : GenerateShadowKey(k, n) \in InHand(w)
  /\ \A v, w \in Workers : v # w => InHand(v) \cap InHand(w) = {}

\* A value in the output file, stored by emit or found there by an incremental
\* map, is never replaced: only keys the map function names
\* in Meguro.set may get another value while the file is open.
EmittedValuesStay ==
  [][dbOpen => \A k \in DOMAIN db \ SetKeys :
                 k \in DOMAIN db' /\ db'[k] = db[k]]_vars

\* map_out_db_ is created, opened and closed by the main thread without a
\* lock.  No worker ever calls tchdbput on it before or after.
PutWhileOpen ==
  \A w \in Workers : pc[w] \in {"emit_put", "set_put"} => dbOpen

\* The calls the records dequeued so far stand for: <<i, j>> is call j of the
\* record that was dequeued as number i.
CallsBegun == UNION {{i} \X DOMAIN CallsOf(taken[i].item) : i \in DOMAIN taken}

CallAt(call) == CallsOf(taken[call[1]].item)[call[2]]

CallsMade(op) == {call \in CallsBegun : CallAt(call).op = op}

\* The bytes calls emit, one by one.
BytesOf(calls) == UNION {{call} \X (1..CallAt(call).size) : call \in calls}

\* The totals Mapper::end prints: the sets are counted under the mutex and
\* exact; the emits and their size are summed up outside it, so that these
\* may be short, but they never exceed what was emitted.
TotalsAtExit ==
  main = "exited" =>
    /\ set_count_ = Cardinality(CallsMade("set"))
    /\ emit_count_ <= Cardinality(CallsMade("emit"))
    /\ emit_size_estimate_ <= Cardinality(BytesOf(CallsMade("emit")))

\* The map phase ends: the queue is closed, every worker leaves its loop and
\* the file is closed.  Only if a call fails does the process stop early, and
\* only without any worker does the main thread wait for ever.
CompletesOrStops == <>(main = "exited" \/ dead \/ Starved)

------------------------------------------------------------------------------
(* What the map phase promises                                             *)

\* Where the input files hold the records the main thread enqueues.
Places ==
  UNION {{i} \X {j \in DOMAIN Files[i].records : Matches(Files[i].records[j])} :
         i \in {i \in DOMAIN Files : Files[i].opens}}

\* The places before record j of file i.
PlacesBefore(i, j) == {q \in Places : q[1] < i \/ (q[1] = i /\ q[2] < j)}

\* The record with n - 1 others before it.
SelectedAt(n) ==
  LET place == CHOOSE p \in Places : Cardinality(PlacesBefore(p[1], p[2])) = n - 1
  IN  Files[place[1]].records[place[2]]

\* The records the main thread enqueues, in the order of the input files.
Selected == [n \in 1..Cardinality(Places) |-> SelectedAt(n)]

\* The iteration over the files and the workers use the queue as a channel
\* that carries exactly the selected records, each to one worker.
Channel == INSTANCE BoundedChannel WITH
  Items <- Records, Input <- Selected, buf <- queue, closed <- qdone,
  ended <- {w \in Workers : pc[w] = "ended"}

ImplementsChannel == Channel!Spec

EmitPairs == {<<c.key, c.value>> : c \in CallsTo("emit")}

Emits(call, p) == call.op = "emit" /\ p = <<call.key, call.value>>

\* How often the whole input emits a pair.
Emitted ==
  [p \in EmitPairs |->
    Cardinality(UNION {{i} \X {j \in DOMAIN CallsOf(Selected[i]) : Emits(CallsOf(Selected[i])[j], p)} :
                       i \in DOMAIN Selected})]

\* The numbers under which the output file holds a pair, as the reduce phase
\* looks for them.
NumbersOf(p) ==
  {n \in 0..KeyCount(counts, p[1]) :
     LET k == GenerateShadowKey(p[1], n)
     IN  main \notin {"create", "open"} /\ k \in DOMAIN db /\ db[k] = p[2]}

\* How often it holds it.
Stored == [p \in EmitPairs |-> Cardinality(NumbersOf(p))]

\* The output file groups by key every value the input emits, and a map phase
\* that ends normally, after any failure of a call that leaves some worker
\* running, has lost none of them.  Under -o nothing is promised.
Grouped == INSTANCE GroupedOutput WITH
  Pairs <- EmitPairs, Due <- Emitted, stored <- Stored,
  complete <- /\ main = "exited"
              /\ \E w \in Workers : pc[w] = "ended"
              /\ ~env.optimize_bucket_count

ImplementsGrouped == Grouped!Spec

\* The map phase keeps what the queue and the grouped output promise.
Implements == ImplementsChannel /\ ImplementsGrouped

\* What holds at every step of the phase, the file and the totals included.
PhaseInv == TypeOK /\ PutWhileOpen /\ TotalsAtExit
=============================================================================
