----------------------------- MODULE ReducePhase -----------------------------
(***************************************************************************)
(* The reduce phase: reduce_master and Reducer on the main thread,         *)
(* threaded_reduce on the workers, and Meguro.save.                        *)
(*                                                                         *)
(* The main thread creates the workers, opens the map output for reading   *)
(* and the reduce output for writing, walks the shadow key map and         *)
(* enqueues every key with the list of its values, closes the queue, joins *)
(* the workers and closes the output.  A worker hands a key and its list   *)
(* to the JavaScript reduce function.  Which keys reduce saves under is    *)
(* the constant SavesOf; what it saves stands for the list it was given.   *)
(***************************************************************************)
EXTENDS ShadowKeys, FiniteSets, FiniteSetsExt, SequencesExt

CONSTANTS
  Workers,        \* the threads env->number_of_threads asks for
  Roots,          \* the shadow key map, [key, count] in the order of its list
  MapOut,         \* the map output file, from keys to values
  Environments,   \* the options: [cap_amount, incremental_reduce]
  SavesOf,        \* for each key, the keys its reduce call saves under, in order
  Capacity,       \* the capacity of the queue, 100 in the code
  Existing,       \* the reduce output file found on disk, or NoFile
  NoFile,
  NoPair,         \* what a worker has that has nothing to reduce
  Faults          \* what may fail: "create", "handle", "mapopen", "outopen",
                  \* "string", "save", "close"

ASSUME ReduceAssumption ==
  /\ Capacity \in Nat \ {0}
  /\ Environments \subseteq [cap_amount : Nat, incremental_reduce : BOOLEAN]
  /\ CountMod \in Nat \ {0}
  /\ Faults \subseteq {"create", "handle", "mapopen", "outopen", "string", "save",
                 "close"}

VARIABLES
  env,         \* the options of this run, -c and --incremental-reduce
  main,        \* where the main thread is
  mapOpen,     \* the map output could be opened
  elem,        \* the element of Roots that comes next
  queue,       \* tsq_
  qdone,       \* done(true) was called
  taken,       \* history: who dequeued which pair, in order
  pc,          \* where each worker is
  job,         \* the pair a worker reduces
  at,          \* which of the reduce call's saves comes next
  out,         \* reduce_out_db_: what the reduce output file holds
  outOpen,
  lost,        \* history: the keys a save failed for
  dead         \* the process exited early or was aborted

mainVars   == <<main, mapOpen, elem>>
queueVars  == <<queue, qdone, taken>>
workerVars == <<pc, job, at>>
outVars    == <<out, outOpen, lost>>

vars == <<env, mainVars, queueVars, workerVars, outVars, dead>>

EmptyOut == [key \in {} |-> <<>>]

\* tchdbput2: the last value put under a key stays.
Put(file, key, value) ==
  [k \in DOMAIN file \cup {key} |-> IF k = key THEN value ELSE file[k]]

Init ==
  /\ env \in Environments
  /\ main = "create" /\ mapOpen = FALSE /\ elem = 1
  /\ queue = <<>> /\ qdone = FALSE /\ taken = <<>>
  /\ pc = [w \in Workers |-> "unborn"]
  /\ job = [w \in Workers |-> NoPair]
  /\ at = [w \in Workers |-> 1]
  /\ out = IF Existing = NoFile THEN EmptyOut ELSE Existing
  /\ outOpen = FALSE /\ lost = {}
  /\ dead = FALSE

\* An exception nobody catches.
Abort == dead' = TRUE

May(fault) == fault \in Faults

------------------------------------------------------------------------------
(* reduce_master, Reducer::begin and Reducer::end                          *)

\* pthread_create; a failure is printed and forgotten.
CreateThread(w) ==
  /\ main = "create"
  /\ pc[w] = "unborn"
  /\ \E born \in {"start"} \cup (IF May("create") THEN {"failed"} ELSE {}) :
       pc' = [pc EXCEPT ![w] = born]
  /\ UNCHANGED <<mainVars, queueVars, job, at, outVars, dead>>

ThreadsCreated ==
  /\ main = "create"
  /\ \A w \in Workers : pc[w] # "unborn"
  /\ main' = "open_map"
  /\ UNCHANGED <<mapOpen, elem, queueVars, workerVars, outVars, dead>>

\* tchdbopen of the map output; a failure is only printed.
OpenMapOut ==
  /\ main = "open_map"
  /\ mapOpen' \in {TRUE} \cup (IF May("mapopen") THEN {FALSE} ELSE {})
  /\ main' = "open_out"
  /\ UNCHANGED <<elem, queueVars, workerVars, outVars, dead>>

\* Mutant of OpenReducerOut: the file is never truncated.
OpenAppending ==
  /\ main = "open_out"
  /\ env.incremental_reduce => Existing # NoFile
  /\ main' = "walk"
  /\ outOpen' = TRUE
  /\ UNCHANGED <<mapOpen, elem, queueVars, workerVars, out, lost, dead>>

\* open_reducer_out: truncates the file unless the reduce is incremental.
OpenReducerOut ==
  /\ main = "open_out"
  /\ env.incremental_reduce => Existing # NoFile
  /\ main' = "walk"
  /\ out' = IF env.incremental_reduce THEN out ELSE EmptyOut
  /\ outOpen' = TRUE
  /\ UNCHANGED <<mapOpen, elem, queueVars, workerVars, lost, dead>>

\* Its ReducerException is not caught; an incremental reduce creates no file.
OpenReducerOutFails ==
  /\ main = "open_out"
  /\ May("outopen") \/ (env.incremental_reduce /\ Existing = NoFile)
  /\ Abort
  /\ UNCHANGED <<mainVars, queueVars, workerVars, outVars>>

\* The last number begin looks up: the count, or the cap, a 64 bit number cut
\* to 32 bits.
MaxKeyCount(count, cap) ==
  IF cap > 0 THEN Min({count, cap % CountMod}) ELSE count

\* Mutant of ValueList: the loop stops before the last number.
ValueListShort(root, readable, cap) ==
  LET last    == MaxKeyCount(root.count, cap)
      numbers == {n \in 0..last : n < last /\ readable
                                    /\ GenerateShadowKey(root.key, n) \in DOMAIN MapOut}
  IN  [n \in numbers |-> MapOut[GenerateShadowKey(root.key, n)]]

\* The values found under the numbers 0 to MaxKeyCount, in the order of their
\* numbers; missing keys are left out, and so is everything when the map output
\* is not readable.
ValueList(root, readable, cap) ==
  LET numbers == {n \in 0..MaxKeyCount(root.count, cap) :
                    readable /\ GenerateShadowKey(root.key, n) \in DOMAIN MapOut}
  IN  [n \in numbers |-> MapOut[GenerateShadowKey(root.key, n)]]

PairOf(root, readable, cap) ==
  [key |-> root.key, values |-> ValueList(root, readable, cap)]

\* One turn of the loop over the shadow key map.
EnqueuePair ==
  /\ main = "walk"
  /\ elem <= Len(Roots)
  /\ Len(queue) # Capacity
  /\ queue' = Append(queue, PairOf(Roots[elem], mapOpen, env.cap_amount))
  /\ elem' = elem + 1
  /\ UNCHANGED <<main, mapOpen, qdone, taken, workerVars, outVars, dead>>

\* Mutant of CloseQueue: done(true) before the last key.
CloseEarly ==
  /\ main = "walk"
  /\ elem >= Len(Roots)
  /\ qdone' = TRUE
  /\ main' = "join"
  /\ UNCHANGED <<mapOpen, elem, queue, taken, workerVars, outVars, dead>>

\* Close the map output and call tsq_->done(true).
CloseQueue ==
  /\ main = "walk"
  /\ elem > Len(Roots)
  /\ qdone' = TRUE
  /\ main' = "join"
  /\ UNCHANGED <<mapOpen, elem, queue, taken, workerVars, outVars, dead>>

JoinWorkers ==
  /\ main = "join"
  /\ \A w \in Workers : pc[w] \in {"ended", "failed"}
  /\ main' = "end"
  /\ UNCHANGED <<mapOpen, elem, queueVars, workerVars, outVars, dead>>

\* Joining an uninitialized tid may crash.
JoinGarbage ==
  /\ main = "join"
  /\ \E w \in Workers : pc[w] = "failed"
  /\ Abort
  /\ UNCHANGED <<mainVars, queueVars, workerVars, outVars>>

\* close_reducer_out.
CloseReducerOut ==
  /\ main = "end"
  /\ outOpen' = FALSE
  /\ main' = "exited"
  /\ UNCHANGED <<mapOpen, elem, queueVars, workerVars, out, lost, dead>>

\* Its ReducerException is not caught.
CloseReducerOutFails ==
  /\ main = "end"
  /\ May("close")
  /\ Abort
  /\ UNCHANGED <<mainVars, queueVars, workerVars, outVars>>

------------------------------------------------------------------------------
(* threaded_reduce                                                         *)

Goto(w, from, to) ==
  /\ pc[w] = from
  /\ pc' = [pc EXCEPT ![w] = to]

\* new TraceMonkeyJSHandle, under tracemonkey_init_mutex.
Start(w) ==
  /\ Goto(w, "start", "idle")
  /\ UNCHANGED <<mainVars, queueVars, job, at, outVars, dead>>

\* Its JSHandleException is not caught in the thread.
StartFails(w) ==
  /\ pc[w] = "start"
  /\ May("handle")
  /\ Abort
  /\ UNCHANGED <<mainVars, queueVars, workerVars, outVars>>

\* env->reducer->next() returned a pair; js->reduce gets it.
TakePair(w) ==
  /\ Goto(w, "idle", "reduce")
  /\ queue # <<>>
  /\ job' = [job EXCEPT ![w] = Head(queue)]
  /\ at' = [at EXCEPT ![w] = 1]
  /\ queue' = Tail(queue)
  /\ taken' = Append(taken, [by |-> w, item |-> Head(queue)])
  /\ UNCHANGED <<mainVars, qdone, outVars, dead>>

\* QueueEmptyException ends the thread.
EndThread(w) ==
  /\ Goto(w, "idle", "ended")
  /\ queue = <<>>
  /\ qdone
  /\ UNCHANGED <<mainVars, queueVars, job, at, outVars, dead>>

\* JSHandleException "Unable to allocate string", for bad UTF-8 or for want of
\* memory: unlike threaded_map, threaded_reduce does not catch it.
RefuseString(w) ==
  /\ pc[w] = "reduce"
  /\ at[w] = 1
  /\ May("string")
  /\ Abort
  /\ UNCHANGED <<mainVars, queueVars, workerVars, outVars>>

\* The function calls Meguro.save for this key next.
SavesNext(w, key) ==
  /\ pc[w] = "reduce"
  /\ at[w] <= Len(SavesOf[job[w].key])
  /\ key = SavesOf[job[w].key][at[w]]
  /\ at' = [at EXCEPT ![w] = @ + 1]

\* Meguro.save: tchdbput2.
Save(w, key) ==
  /\ SavesNext(w, key)
  /\ out' = Put(out, key, job[w].values)
  /\ UNCHANGED <<mainVars, queueVars, pc, job, outOpen, lost, dead>>

\* A failed tchdbput2 is printed and forgotten.
SaveFails(w, key) ==
  /\ SavesNext(w, key)
  /\ May("save")
  /\ lost' = lost \cup {key}
  /\ UNCHANGED <<mainVars, queueVars, pc, job, out, outOpen, dead>>

ReduceReturns(w) ==
  /\ Goto(w, "reduce", "idle")
  /\ at[w] > Len(SavesOf[job[w].key])
  /\ job' = [job EXCEPT ![w] = NoPair]
  /\ UNCHANGED <<mainVars, queueVars, at, outVars, dead>>

------------------------------------------------------------------------------
MainThread ==
  /\ ~dead
  /\ UNCHANGED env
  /\ \/ \E w \in Workers : CreateThread(w)
     \/ ThreadsCreated \/ OpenMapOut \/ OpenReducerOut \/ OpenReducerOutFails
     \/ EnqueuePair \/ CloseQueue \/ JoinWorkers \/ JoinGarbage
     \/ CloseReducerOut \/ CloseReducerOutFails

SavedKeys == UNION {ToSet(SavesOf[root.key]) : root \in ToSet(Roots)}

Worker(w) ==
  /\ ~dead
  /\ UNCHANGED env
  /\ \/ Start(w) \/ StartFails(w) \/ TakePair(w) \/ EndThread(w)
     \/ RefuseString(w) \/ ReduceReturns(w)
     \/ \E key \in SavedKeys : Save(w, key) \/ SaveFails(w, key)

\* No thread could be created and the main thread waits for room in the queue.
Starved ==
  /\ \A w \in Workers : pc[w] = "failed"
  /\ main = "walk"
  /\ Len(queue) = Capacity

\* The reduce phase is over, or waits for ever; else it never stands still.
Terminated == (dead \/ main = "exited" \/ Starved) /\ UNCHANGED vars

Next == MainThread \/ (\E w \in Workers : Worker(w)) \/ Terminated

Spec == Init /\ [][Next]_vars

\* Every thread is scheduled.
FairSpec ==
  /\ Spec
  /\ WF_vars(MainThread)
  /\ \A w \in Workers : WF_vars(Worker(w))

------------------------------------------------------------------------------
WorkerPC == {"unborn", "failed", "start", "idle", "reduce", "ended"}

Pairs == {PairOf(root, readable, env.cap_amount) :
            root \in ToSet(Roots), readable \in BOOLEAN}

TypeOK ==
  /\ env \in Environments
  /\ main \in {"create", "open_map", "open_out", "walk", "join", "end", "exited"}
  /\ mapOpen \in BOOLEAN
  /\ elem \in 1..Len(Roots) + 1
  /\ queue \in Seq(Pairs)
  /\ qdone \in BOOLEAN
  /\ taken \in Seq([by : Workers, item : Pairs])
  /\ pc \in [Workers -> WorkerPC]
  /\ job \in [Workers -> Pairs \cup {NoPair}]
  /\ at \in [Workers -> Nat \ {0}]
  /\ outOpen \in BOOLEAN
  /\ lost \subseteq SavedKeys
  /\ dead \in BOOLEAN

\* What the map output holds for a key: the shadow keys of the key.
SlotsOf(key) == {k \in DOMAIN MapOut : RootOf(k) = key}

\* Every reduce call gets the whole group of its key: without a cap, as many
\* values as the map output has shadow keys of the key, and the same values.
\* With a cap it gets at least that many of them, or all.
WholeGroups ==
  \A i \in DOMAIN taken :
    LET values == taken[i].item.values
        group  == SlotsOf(taken[i].item.key)
        wanted == {MapOut[k] : k \in group}
    IN  mapOpen =>
          /\ Range(values) \subseteq wanted
          /\ env.cap_amount = 0 =>
               /\ Cardinality(DOMAIN values) = Cardinality(group)
               /\ wanted \subseteq Range(values)
          /\ env.cap_amount > 0 =>
               Cardinality(DOMAIN values) >= Min({env.cap_amount, Cardinality(group)})

\* reduce_out_db_ is opened and closed by the main thread without a lock; no
\* reduce call runs before or after.
ReduceWhileOpen == \A w \in Workers : pc[w] = "reduce" => outOpen

\* The lists reduce calls save under a key.
ListsFor(key) ==
  {PairOf(root, mapOpen, env.cap_amount).values :
     root \in {r \in ToSet(Roots) : key \in ToSet(SavesOf[r.key])}}

\* What an incremental run finds in the output and nobody saves is kept.
Kept == IF env.incremental_reduce THEN Existing ELSE EmptyOut

\* When the reduce phase ends normally the output holds, under every key some
\* reduce call saved, a list one of these calls got, whole and untouched by the
\* others; under all other keys it holds what an incremental run found there.
\* A save that failed may leave a key out, or with what was found there.
OutputAtExit ==
  main = "exited" /\ (\E w \in Workers : pc[w] = "ended") =>
    /\ SavedKeys \ lost \subseteq DOMAIN out
    /\ DOMAIN out \ SavedKeys = DOMAIN Kept \ SavedKeys
    /\ \A key \in DOMAIN out :
         \/ key \in SavedKeys /\ out[key] \in ListsFor(key)
         \/ key \in (DOMAIN Kept \ SavedKeys) \cup (DOMAIN Kept \cap lost)
              /\ out[key] = Kept[key]

\* The reduce phase ends: every worker leaves its loop and the output is closed.
\* Only if a call fails does the process stop early, and only without any
\* worker does the main thread wait for ever.
CompletesOrStops == <>(main = "exited" \/ dead \/ Starved)

\* Every call of reduce gets the whole group of its key, and the output is open.
ReduceInv == TypeOK /\ WholeGroups /\ ReduceWhileOpen

\* The keys of pairs, in their order, and of what the workers took.
KeysOf(pairs) == [i \in DOMAIN pairs |-> pairs[i].key]

KeysTaken(items) == [i \in DOMAIN items |-> [by |-> items[i].by, item |-> items[i].item.key]]

\* The walk over the shadow key map and the workers use the queue as a channel
\* that carries every key once, to one worker.
Channel == INSTANCE BoundedChannel WITH
  Items <- {root.key : root \in ToSet(Roots)},
  Input <- KeysOf(Roots),
  buf <- KeysOf(queue),
  taken <- KeysTaken(taken),
  closed <- qdone,
  ended <- {w \in Workers : pc[w] = "ended"}

ImplementsChannel == Channel!Spec

\* The queue is used as a channel that carries every key, and the phase ends.
ReduceCompletes == ImplementsChannel /\ CompletesOrStops
=============================================================================
