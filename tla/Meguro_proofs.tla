--------------------------- MODULE Meguro_proofs ---------------------------
(***************************************************************************)
(* Proofs about meguro over its two files, for any options, inputs and     *)
(* files, and any number of invocations and crashes.                       *)
(*                                                                         *)
(* IInv is for OutputsKept alone, which is not inductive: that -e keeps    *)
(* the map output needs that an invocation with -e never comes to the      *)
(* places that write it.                                                   *)
(*                                                                         *)
(* ResultsInv is for what the two files hold.  It ties the shadow key map  *)
(* and the map output to the part of the input that is done (EmittedInv,   *)
(* WrittenInv), the map output to the last map phase that wrote it, over   *)
(* the invocations in between (MappedInv), the counts of -e to the file    *)
(* (LoadInv), and the reduce output to the keys that are reduced           *)
(* (ReducedInv, CarriedInv).                                               *)
(***************************************************************************)
EXTENDS Meguro, TLAPS

\* disk and before map the paths to files.
FilesOnly ==
  /\ disk = [f \in Files |-> disk[f]]
  /\ before = [f \in Files |-> before[f]]
  /\ env.just_reduce \in BOOLEAN

SkipMapSkips == pc \in {"open_map", "map"} => ~env.just_reduce

IInv == FilesOnly /\ OutputsKept /\ SkipMapSkips

------------------------------------------------------------------------------
\* Before the first invocation.
LEMMA InitIInv == Init => IInv
  BY DEF Init, IInv, FilesOnly, OutputsKept, SkipMapSkips, Kept, NoEnvironment, Files

\* An invocation starts from the files as they are.
LEMMA StartStep ==
  ASSUME IInv, NEW options \in Environments, NEW in \in Inputs, Start(options, in)
  PROVE  IInv'
  BY MeguroAssumption
  DEF IInv, FilesOnly, OutputsKept, SkipMapSkips, Kept, Start, Files

\* A step that writes no file keeps what OutputsKept asks of the place it leads
\* to, if it asked as much of the place it comes from.
LEMMA QuietStep ==
  ASSUME IInv, UNCHANGED <<disk, before, env>>,
         pc' \in {"options", "check_map", "check_reduce", "parse", "dictionary",
                  "dispatch", "load", "open_map"} =>
           pc \in {"options", "check_map", "check_reduce", "parse", "dictionary",
                   "dispatch", "load", "open_map"},
         pc' \in {"map", "open_reduce"} =>
           pc \in {"options", "check_map", "check_reduce", "parse", "dictionary",
                   "dispatch", "load", "open_map", "map", "open_reduce"},
         pc' \in {"open_map", "map"} => ~env.just_reduce
  PROVE  IInv'
  BY DEF IInv, FilesOnly, OutputsKept, SkipMapSkips, Kept

\* check_write_permissions leaves a file it may write as it is.
LEMMA CheckStep ==
  ASSUME IInv, NEW file \in Files, NEW next, CheckWritePermissions(file, next),
         UNCHANGED <<before, env>>, next \in {"check_reduce", "parse"},
         pc \in {"check_map", "check_reduce"}
  PROVE  IInv'
<1>1. Kept("map.out") /\ Kept("reduce.out")
  BY DEF IInv, OutputsKept
<1>2. disk' = [f \in Files |-> disk'[f]]
  BY DEF IInv, FilesOnly, CheckWritePermissions
<1>3. ASSUME NEW f \in Files PROVE Kept(f)'
  <2>1. CASE f # file \/ disk[f].access = "rw"
    <3>1. disk'[f] = disk[f]
      BY <2>1 DEF IInv, FilesOnly, CheckWritePermissions
    <3> QED
      BY <1>1, <3>1 DEF Kept, Files
  <2>2. CASE disk[f].access # "rw"
    BY <1>1, <2>2 DEF Kept, Files
  <2> QED
    BY <2>1, <2>2
<1>4. pc' \in {"check_reduce", "parse", "idle"}
  BY DEF CheckWritePermissions, Goto, Fail, End
<1> QED
  BY <1>2, <1>3, <1>4 DEF IInv, FilesOnly, OutputsKept, SkipMapSkips, Files

\* What a phase writes is not what OutputsKept asks for where the phase runs.
LEMMA MapWrites ==
  ASSUME IInv, pc \in {"open_map", "map"}, UNCHANGED <<before, env>>,
         disk' = [f \in Files |-> disk'[f]],
         disk'["reduce.out"] = disk["reduce.out"],
         pc' \in {"map", "open_reduce", "idle"}
  PROVE  IInv'
  BY DEF IInv, FilesOnly, OutputsKept, SkipMapSkips, Kept

LEMMA ReduceWrites ==
  ASSUME IInv, pc \in {"open_reduce", "reduce"}, UNCHANGED <<before, env>>,
         disk' = [f \in Files |-> disk'[f]],
         disk'["map.out"] = disk["map.out"],
         pc' \in {"reduce", "idle"}
  PROVE  IInv'
  BY DEF IInv, FilesOnly, OutputsKept, SkipMapSkips, Kept

------------------------------------------------------------------------------
\* Every step keeps IInv.
LEMMA NextIInv == IInv /\ [Next]_vars => IInv'
<1> SUFFICES ASSUME IInv, [Next]_vars PROVE IInv'
  OBVIOUS
<1>0. Files = {"map.out", "reduce.out"} /\ disk = [f \in Files |-> disk[f]]
  BY DEF Files, IInv, FilesOnly
<1>1. CASE \E options \in Environments, in \in Inputs : Start(options, in)
  BY <1>1, StartStep
<1>2. CASE ParseOptions
  BY <1>2, QuietStep DEF ParseOptions, PrintInputFiles, Goto, Fail, End, runVars
<1>3. CASE CheckMapOut
  BY <1>0, <1>3, CheckStep DEF CheckMapOut, runVars
<1>4. CASE CheckReduceOut
  BY <1>0, <1>4, CheckStep DEF CheckReduceOut, runVars
<1>5. CASE ParseJavascriptFile \/ LoadDictionary
  BY <1>5, QuietStep
  DEF ParseJavascriptFile, LoadDictionary, DictionaryLoad, Goto, Fail, End, runVars
<1>6. CASE Dispatch
  BY <1>6, QuietStep DEF Dispatch, Goto, Fail, End, runVars
<1>7. CASE Load
  BY <1>7, QuietStep DEF Load, Goto, Fail, End, runVars
<1>8. CASE OpenMap
  BY <1>0, <1>8, MapWrites DEF OpenMap, OpenForWriting, Goto, Fail, End, runVars
<1>9. CASE \E k \in Keys : Emit(k) \/ EmitNoop(k) \/ Set(k)
  <2>1. PICK k \in Keys : Emit(k) \/ EmitNoop(k) \/ Set(k)
    BY <1>9
  <2>2. /\ pc = "map" /\ pc' = "map" /\ UNCHANGED <<before, env>>
        /\ disk' = [f \in Files |-> disk'[f]]
        /\ disk'["reduce.out"] = disk["reduce.out"]
    BY <1>0, <2>1 DEF Emit, EmitNoop, Set, runVars
  <2> QED
    BY <2>2, MapWrites
<1>10. CASE EndMap
  BY <1>0, <1>10, MapWrites DEF EndMap, Close, Goto, End, runVars
<1>11. CASE OpenReduce
  BY <1>0, <1>11, ReduceWrites DEF OpenReduce, OpenForWriting, Goto, Fail, End, runVars
<1>12. CASE \E key \in DOMAIN counts : Reduce(key)
  <2>1. PICK key \in DOMAIN counts : Reduce(key)
    BY <1>12
  <2>2. /\ pc = "reduce" /\ pc' = "reduce" /\ UNCHANGED <<before, env>>
        /\ disk' = [f \in Files |-> disk'[f]]
        /\ disk'["map.out"] = disk["map.out"]
    BY <1>0, <2>1 DEF Reduce, runVars
  <2> QED
    BY <2>2, ReduceWrites
<1>13. CASE EndReduce
  BY <1>0, <1>13, ReduceWrites DEF EndReduce, Close, End, runVars
<1>14. CASE Crash
  <2>1. PICK m \in Remains("map.out"), r \in Remains("reduce.out") :
          disk' = [disk EXCEPT !["map.out"] = m, !["reduce.out"] = r]
    BY <1>14 DEF Crash
  <2>2. disk' = [f \in Files |-> disk'[f]] /\ disk'["map.out"] = m /\ disk'["reduce.out"] = r
    BY <1>0, <2>1
  <2>3. pc' = "idle" /\ UNCHANGED <<before, env>>
    BY <1>14 DEF Crash, End
  <2>4. CASE pc = "map"
    <3>1. r = disk["reduce.out"]
      BY <2>4 DEF Remains, Open
    <3> QED
      BY <2>2, <2>3, <2>4, <3>1, MapWrites
  <2>5. CASE pc = "reduce"
    <3>1. m = disk["map.out"]
      BY <2>5 DEF Remains, Open
    <3> QED
      BY <2>2, <2>3, <2>5, <3>1, ReduceWrites
  <2>6. CASE pc \notin {"map", "reduce"}
    <3>1. m = disk["map.out"] /\ r = disk["reduce.out"]
      BY <2>6 DEF Remains, Open
    <3>2. disk' = disk
      BY <1>0, <2>2, <3>1
    <3> QED
      BY <2>3, <3>2, QuietStep
  <2> QED
    BY <2>4, <2>5, <2>6
<1>15. CASE Terminated \/ UNCHANGED vars
  BY <1>15, QuietStep DEF Terminated, vars, IInv, SkipMapSkips
<1> QED
  BY <1>1, <1>2, <1>3, <1>4, <1>5, <1>6, <1>7, <1>8, <1>9, <1>10, <1>11, <1>12,
     <1>13, <1>14, <1>15 DEF Next

\* IInv always holds.
THEOREM MeguroInvariant == Spec => []IInv
<1>1. Init => IInv
  BY InitIInv
<1>2. IInv /\ [Next]_vars => IInv'
  BY NextIInv
<1> QED
  BY <1>1, <1>2, PTL DEF Spec

\* check_write_permissions, map_master and reduce_master: an output of an earlier
\* invocation is lost only to the phase that writes it anew, whatever fails or
\* crashes before.
THEOREM MeguroOutputsKept == Spec => []OutputsKept
<1>1. IInv => OutputsKept
  BY DEF IInv
<1> QED
  BY <1>1, MeguroInvariant, PTL

------------------------------------------------------------------------------
(* What the files hold.                                                    *)

EnvType ==
  [just_reduce : BOOLEAN, incremental_map : BOOLEAN, incremental_reduce : BOOLEAN,
   optimize_bucket_count : BOOLEAN, dictionary : BOOLEAN, list : BOOLEAN]

InputType == [emits : [Keys -> 0..CountMod - 1], sets : SUBSET Keys]

Early == {"options", "check_map", "check_reduce", "parse", "dictionary", "dispatch",
          "load", "open_map"}

IsFile(f) ==
  /\ f = [access |-> f.access, ok |-> f.ok, data |-> f.data]
  /\ f.access \in {"missing", "rw", "ro"}

\* How often k was emitted so far in this invocation.
Made == [k \in Keys |-> input.emits[k] - todo.emits[k]]

ShapeInv ==
  /\ disk = [f \in Files |-> disk[f]]
  /\ \A f \in Files : IsFile(disk[f])
  /\ run \in Nat
  /\ env \in EnvType
  /\ input \in InputType
  /\ todo \in InputType
  /\ mapped.input \in InputType
  /\ \A k \in Keys : todo.emits[k] <= input.emits[k]
  /\ todo.sets \subseteq input.sets

\* Which invocations come to which place, and what they did before.
StageInv ==
  /\ (pc = "idle") = (status # "running")
  /\ pc \in Early => todo = input /\ counts = EmptyMap /\ reduced = {}
  /\ pc = "load" => env.just_reduce /\ do_reduce
  /\ pc \in {"open_map", "map"} => ~env.just_reduce
  /\ pc \in {"map", "open_reduce"} => reduced = {}
  /\ pc \in {"open_reduce", "reduce"} => do_reduce
  /\ pc \in {"open_reduce", "reduce"} \/ status = "done" =>
       (IF env.just_reduce THEN do_reduce ELSE todo = NoInput)

\* The counts after some emits, and the keys of a file with these emits and sets.
CountsOf(made) ==
  [key \in {Key(k, <<>>) : k \in {k \in Keys : made[k] > 0}} |-> made[key.name] - 1]

KeysOf(made, sets) ==
  (UNION {{GenerateShadowKey(Key(k, <<>>), n) : n \in 0..made[k] - 1} : k \in Keys})
    \cup {Key(k, <<>>) : k \in sets}

\* From the first emit on, in an invocation that counts.
Counted ==
  /\ ~env.just_reduce /\ ~env.optimize_bucket_count
  /\ pc \in {"map", "open_reduce", "reduce"} \/ status = "done"

\* Every emit is counted, and its value is under the key that it was given.
EmittedInv ==
  Counted =>
    /\ counts = CountsOf(Made)
    /\ \A k \in Keys : \A n \in 0..Made[k] - 1 :
         LET key == GenerateShadowKey(Key(k, <<>>), n)
         IN  /\ key \in DOMAIN disk["map.out"].data
             /\ disk["map.out"].data[key] = run

\* A map output that was begun anew holds nothing else.
WrittenInv ==
  Counted /\ ~env.incremental_map =>
    disk["map.out"] =
      [access |-> "rw", ok |-> pc # "map",
       data |-> [key \in KeysOf(Made, input.sets \ todo.sets) |-> run]]

\* The map output still holds what the last complete map phase wrote.
MappedInv ==
  mapped # NoMap =>
    /\ pc # "map"
    /\ disk["map.out"] =
         [access |-> "rw", ok |-> TRUE,
          data |-> [key \in KeysOf(mapped.input.emits, mapped.input.sets) |-> mapped.run]]

\* With -e the counts are those of the file.
LoadInv ==
  env.just_reduce /\ (pc \in {"open_reduce", "reduce"} \/ status = "done") =>
    counts = LoadedCounts(DOMAIN disk["map.out"].data)

\* The reduce output holds the list of every key that is reduced.
ReducedInv ==
  pc = "reduce" \/ (status = "done" /\ do_reduce) =>
    /\ reduced \subseteq DOMAIN counts
    /\ \A key \in reduced :
         /\ key \in DOMAIN disk["reduce.out"].data
         /\ disk["reduce.out"].data[key] =
              ValueList(disk["map.out"].data, key, counts[key])
    /\ ~env.incremental_reduce => DOMAIN disk["reduce.out"].data = reduced
    /\ status = "done" => reduced = DOMAIN counts

\* An incremental reduce carries over what it has not reduced.
CarriedInv ==
  LET old == before["reduce.out"].data
      new == disk["reduce.out"].data
  IN  env.incremental_reduce /\ before["reduce.out"].access = "rw"
        /\ (pc = "reduce" \/ status = "done") =>
        \A key \in DOMAIN old \ reduced : key \in DOMAIN new /\ new[key] = old[key]

\* What check_write_permissions leaves for open_reducer_out.
AccessInv ==
  LET f == disk["reduce.out"] IN
  /\ pc \in {"options", "check_map", "check_reduce"} => f = before["reduce.out"]
  /\ pc \in {"parse", "dictionary", "dispatch", "load", "open_map", "map", "open_reduce"} =>
       \/ f.access = "rw"
       \/ f.access = "missing" /\ dirs["reduce.out"]
       \/ before["reduce.out"].access = "ro"

ResultsInv ==
  /\ ShapeInv /\ StageInv /\ EmittedInv /\ WrittenInv /\ MappedInv /\ LoadInv
  /\ ReducedInv /\ CarriedInv /\ AccessInv

------------------------------------------------------------------------------
LEMMA NoInputType == NoInput \in InputType
  BY MeguroAssumption DEF NoInput, InputType

LEMMA TwoFiles ==
  ASSUME ShapeInv
  PROVE  Files = {"map.out", "reduce.out"} /\ disk = [f \in Files |-> disk[f]]
  BY DEF Files, ShapeInv

\* A step that writes at most the file with this path.
Writes(file, f) ==
  /\ disk' = [g \in Files |-> IF g = file THEN f ELSE disk[g]]
  /\ IsFile(f)

LEMMA CheckWrites ==
  ASSUME ShapeInv, NEW file \in Files, NEW next, CheckWritePermissions(file, next)
  PROVE  /\ Writes(file, disk'[file])
         /\ disk'[file] = disk[file] \/ (disk'[file] = MissingFile /\ dirs[file]
                                           /\ disk[file].access # "rw")
         /\ \/ pc' = "idle" /\ status' = "failed"
            \/ pc' = next /\ status' = status /\ (disk'[file].access = "missing" => dirs[file])
<1>1. disk = [f \in Files |-> disk[f]] /\ IsFile(disk[file]) /\ IsFile(MissingFile)
  BY DEF ShapeInv, IsFile, MissingFile
<1> QED
  BY <1>1 DEF CheckWritePermissions, Goto, Fail, End, Writes, IsFile, MissingFile

LEMMA OpenWrites ==
  ASSUME ShapeInv, NEW file \in Files, NEW keep \in BOOLEAN, NEW next,
         OpenForWriting(file, keep, next)
  PROVE  /\ Writes(file, disk'[file])
         /\ \/ /\ pc' = next /\ status' = status
               /\ keep => /\ disk[file].access = "rw"
                          /\ disk'[file] = [access |-> "rw", ok |-> FALSE,
                                            data |-> disk[file].data]
               /\ ~keep => disk'[file] = [access |-> "rw", ok |-> FALSE, data |-> EmptyMap]
            \/ /\ pc' = "idle" /\ status' = "failed" /\ disk' = disk
               /\ \/ disk[file].access = "ro"
                  \/ disk[file].access = "missing" /\ (keep \/ ~dirs[file])
                  \/ keep
<1>1. disk = [f \in Files |-> disk[f]] /\ IsFile(disk[file])
  BY DEF ShapeInv
<1>2. CASE /\ keep /\ disk[file].access = "rw" /\ Goto(next)
           /\ disk' = [disk EXCEPT ![file] = [disk[file] EXCEPT !.ok = FALSE]]
  <2>1. disk'[file] = [access |-> "rw", ok |-> FALSE, data |-> disk[file].data]
    BY <1>1, <1>2 DEF IsFile
  <2> QED
    BY <1>1, <1>2, <2>1 DEF Writes, IsFile, Goto
<1>3. CASE /\ ~keep /\ Goto(next)
           /\ disk' = [disk EXCEPT ![file] = [NewFile EXCEPT !.ok = FALSE]]
  <2>1. disk'[file] = [access |-> "rw", ok |-> FALSE, data |-> EmptyMap]
    BY <1>1, <1>3 DEF NewFile
  <2> QED
    BY <1>1, <1>3, <2>1 DEF Writes, IsFile, Goto
<1>4. CASE /\ Fail /\ UNCHANGED disk
           /\ \/ disk[file].access = "ro"
              \/ disk[file].access = "missing" /\ (keep \/ ~dirs[file])
              \/ keep
  BY <1>1, <1>4 DEF Writes, Fail, End
<1> QED
  BY <1>2, <1>3, <1>4 DEF OpenForWriting

\* What a step that stores a value under a key makes of a file.
Stored(f, key, value) ==
  [access |-> f.access, ok |-> f.ok, data |-> Put(f.data, key, value)]

LEMMA PutWrites ==
  ASSUME ShapeInv, NEW file \in Files, NEW key, NEW value,
         disk' = [disk EXCEPT ![file].data = Put(@, key, value)]
  PROVE  Writes(file, Stored(disk[file], key, value))
<1>1. disk = [f \in Files |-> disk[f]] /\ IsFile(disk[file])
  BY DEF ShapeInv
<1>2. [disk[file] EXCEPT !.data = Put(@, key, value)] = Stored(disk[file], key, value)
  BY <1>1 DEF IsFile, Stored
<1>3. IsFile(Stored(disk[file], key, value))
  BY <1>1 DEF IsFile, Stored
<1> QED
  BY <1>1, <1>2, <1>3 DEF Writes

LEMMA CloseWrites ==
  ASSUME ShapeInv, NEW file \in Files, Close(file)
  PROVE  Writes(file, [access |-> disk[file].access, ok |-> TRUE, data |-> disk[file].data])
<1>1. disk = [f \in Files |-> disk[f]] /\ IsFile(disk[file])
  BY DEF ShapeInv
<1>2. [disk[file] EXCEPT !.ok = TRUE]
        = [access |-> disk[file].access, ok |-> TRUE, data |-> disk[file].data]
  <2>1. \A a, o, d, t : [[access |-> a, ok |-> o, data |-> d] EXCEPT !.ok = t]
                          = [access |-> a, ok |-> t, data |-> d]
    OBVIOUS
  <2>2. [[access |-> disk[file].access, ok |-> disk[file].ok, data |-> disk[file].data]
           EXCEPT !.ok = TRUE]
          = [access |-> disk[file].access, ok |-> TRUE, data |-> disk[file].data]
    BY <2>1, Zenon
  <2> QED
    BY <1>1, <2>2, Zenon DEF IsFile
<1> QED
  BY <1>1, <1>2 DEF Writes, Close, IsFile

LEMMA EmitStep ==
  ASSUME ShapeInv, NEW k \in Keys, Emit(k) \/ EmitNoop(k)
  PROVE  /\ todo.emits[k] > 0
         /\ todo' \in InputType /\ todo'.sets = todo.sets
         /\ todo'.emits = [todo.emits EXCEPT ![k] = @ - 1]
         /\ \A l \in Keys : todo'.emits[l] <= input.emits[l]
<1>1. todo \in InputType /\ todo.emits[k] > 0 /\ todo' = [todo EXCEPT !.emits[k] = @ - 1]
  BY DEF Emit, EmitNoop, ShapeInv
<1>2. todo = [emits |-> todo.emits, sets |-> todo.sets] /\ todo.emits \in [Keys -> 0..CountMod - 1]
        /\ todo.sets \in SUBSET Keys
  BY <1>1 DEF InputType
<1>3. todo' = [emits |-> [todo.emits EXCEPT ![k] = @ - 1], sets |-> todo.sets]
  BY <1>1, <1>2
<1>4. [todo.emits EXCEPT ![k] = @ - 1] \in [Keys -> 0..CountMod - 1]
  BY <1>1, <1>2, MeguroAssumption
<1>5. todo' \in InputType /\ todo'.sets = todo.sets /\ todo'.emits = [todo.emits EXCEPT ![k] = @ - 1]
  BY <1>2, <1>3, <1>4 DEF InputType
<1>6. \A l \in Keys : todo'.emits[l] <= todo.emits[l] /\ todo'.emits[l] \in Nat /\ todo.emits[l] \in Nat
  BY <1>1, <1>2, <1>5, MeguroAssumption
<1>7. \A l \in Keys : todo.emits[l] <= input.emits[l] /\ input.emits[l] \in Nat
  BY MeguroAssumption DEF ShapeInv, InputType
<1> QED
  BY <1>1, <1>5, <1>6, <1>7

LEMMA SetStep ==
  ASSUME ShapeInv, NEW k \in Keys, Set(k)
  PROVE  /\ k \in todo.sets
         /\ todo' \in InputType /\ todo'.sets = todo.sets \ {k} /\ todo'.emits = todo.emits
<1>1. todo \in InputType /\ k \in todo.sets /\ todo' = [todo EXCEPT !.sets = @ \ {k}]
  BY DEF Set, ShapeInv
<1>2. todo = [emits |-> todo.emits, sets |-> todo.sets] /\ todo.emits \in [Keys -> 0..CountMod - 1]
        /\ todo.sets \in SUBSET Keys
  BY <1>1 DEF InputType
<1>3. todo' = [emits |-> todo.emits, sets |-> todo.sets \ {k}]
  BY <1>1, <1>2
<1> QED
  BY <1>1, <1>2, <1>3 DEF InputType

\* What a crash leaves of a file.
LEMMA CrashWrites ==
  ASSUME ShapeInv, Crash
  PROVE  /\ disk' = [f \in Files |-> disk'[f]]
         /\ \A f \in Files : IsFile(disk'[f]) /\ disk'[f].access = disk[f].access
         /\ \A f \in Files : disk'[f] = disk[f] \/ Open(f)
<1>1. PICK m \in Remains("map.out"), r \in Remains("reduce.out") :
        disk' = [disk EXCEPT !["map.out"] = m, !["reduce.out"] = r]
  BY DEF Crash
<1>2. ASSUME NEW f \in Files, NEW g \in Remains(f)
      PROVE  IsFile(g) /\ g.access = disk[f].access /\ (g = disk[f] \/ Open(f))
  <2>1. IsFile(disk[f])
    BY DEF ShapeInv
  <2>2. CASE ~Open(f)
    BY <1>2, <2>1, <2>2 DEF Remains
  <2>3. CASE Open(f)
    <3>1. PICK kept \in SUBSET DOMAIN disk[f].data :
            g = [disk[f] EXCEPT !.data = [k \in kept |-> disk[f].data[k]]]
      BY <1>2, <2>3 DEF Remains
    <3>2. g = [access |-> disk[f].access, ok |-> disk[f].ok,
               data |-> [k \in kept |-> disk[f].data[k]]]
      BY <2>1, <3>1 DEF IsFile
    <3> QED
      BY <2>1, <2>3, <3>2 DEF IsFile
  <2> QED
    BY <2>2, <2>3
<1>3. disk' = [f \in Files |-> IF f = "map.out" THEN m ELSE r]
  BY <1>1, TwoFiles
<1>4. "map.out" \in Files /\ "reduce.out" \in Files
  BY TwoFiles
<1>5. \A f \in Files : disk'[f] \in Remains(f)
  BY <1>1, <1>3, TwoFiles
<1> QED
  BY <1>2, <1>3, <1>5

------------------------------------------------------------------------------
LEMMA FilesStep ==
  ASSUME ShapeInv, [Next]_vars
  PROVE  disk' = [f \in Files |-> disk'[f]] /\ \A f \in Files : IsFile(disk'[f])
<1> DEFINE Goal == disk' = [f \in Files |-> disk'[f]] /\ \A f \in Files : IsFile(disk'[f])
<1>1. Files = {"map.out", "reduce.out"} /\ disk = [f \in Files |-> disk[f]]
        /\ \A f \in Files : IsFile(disk[f])
  BY TwoFiles DEF ShapeInv
<1>2. ASSUME NEW file \in Files, NEW f, Writes(file, f)
      PROVE  Goal
  BY <1>1, <1>2 DEF Writes
<1>3. ASSUME UNCHANGED disk PROVE Goal
  BY <1>1, <1>3
<1>4. ASSUME CheckMapOut \/ CheckReduceOut PROVE Goal
  BY <1>1, <1>2, <1>4, CheckWrites DEF CheckMapOut, CheckReduceOut
<1>5. ASSUME OpenMap \/ OpenReduce PROVE Goal
  <2>1. env.incremental_map \in BOOLEAN /\ env.incremental_reduce \in BOOLEAN
    BY DEF ShapeInv, EnvType, NoEnvironment
  <2> QED
    BY <1>1, <1>2, <1>5, <2>1, OpenWrites DEF OpenMap, OpenReduce
<1>6. ASSUME NEW k \in Keys, Emit(k) \/ Set(k)
      PROVE  Goal
  BY <1>1, <1>2, <1>6, PutWrites DEF Emit, Set
<1>7. ASSUME NEW key \in DOMAIN counts, Reduce(key)
      PROVE  Goal
  BY <1>1, <1>2, <1>7, PutWrites DEF Reduce
<1>8. ASSUME EndMap \/ EndReduce PROVE Goal
  BY <1>1, <1>2, <1>8, CloseWrites DEF EndMap, EndReduce
<1>9. ASSUME Crash PROVE Goal
  BY <1>9, CrashWrites
<1>10. ASSUME
           \/ \E options \in Environments, in \in Inputs : Start(options, in)
           \/ ParseOptions \/ ParseJavascriptFile \/ LoadDictionary \/ Dispatch \/ Load
           \/ \E k \in Keys : EmitNoop(k)
           \/ Terminated \/ UNCHANGED vars
       PROVE Goal
  BY <1>3, <1>10
  DEF Start, ParseOptions, ParseJavascriptFile, LoadDictionary, Dispatch, Load, EmitNoop,
      Terminated, vars
<1> HIDE DEF Goal
<1>11. Goal
  BY <1>4, <1>5, <1>6, <1>7, <1>8, <1>9, <1>10 DEF Next
<1> QED
  BY <1>11 DEF Goal

LEMMA ShapeInit == Init => ShapeInv
<1> SUFFICES ASSUME Init PROVE ShapeInv
  OBVIOUS
<1>1. disk \in [Files -> InitialFiles]
  BY DEF Init
<1>2. \A f \in Files : IsFile(disk[f])
  BY <1>1, MeguroAssumption DEF IsFile
<1>3. env \in EnvType
  <2>1. env = NoEnvironment
    BY DEF Init
  <2> QED
    BY <2>1 DEF EnvType, NoEnvironment
<1>4. input \in InputType /\ todo \in InputType /\ mapped.input \in InputType /\ todo = input
  BY NoInputType DEF Init, NoMap
<1>5. \A k \in Keys : todo.emits[k] <= input.emits[k]
  BY <1>4, MeguroAssumption DEF InputType
<1> QED
  BY <1>1, <1>2, <1>3, <1>4, <1>5 DEF Init, ShapeInv

LEMMA ShapeStep == ShapeInv /\ [Next]_vars => ShapeInv'
<1> SUFFICES ASSUME ShapeInv, [Next]_vars PROVE ShapeInv'
  OBVIOUS
<1>1. disk' = [f \in Files |-> disk'[f]] /\ \A f \in Files : IsFile(disk'[f])
  BY FilesStep
<1>2. ASSUME UNCHANGED <<run, env, input, mapped>>, todo' \in InputType,
             \A k \in Keys : todo'.emits[k] <= input.emits[k], todo'.sets \subseteq todo.sets
      PROVE  ShapeInv'
  BY <1>1, <1>2 DEF ShapeInv
<1>3. CASE UNCHANGED <<run, env, input, mapped, todo>>
  BY <1>1, <1>3 DEF ShapeInv
<1>4. ASSUME NEW options \in Environments, NEW in \in Inputs, Start(options, in)
      PROVE  ShapeInv'
  <2>1. in \in InputType
    BY MeguroAssumption DEF InputType
  <2>2. \A k \in Keys : in.emits[k] <= in.emits[k]
    BY <2>1, MeguroAssumption DEF InputType
  <2>3. options \in EnvType
    BY MeguroAssumption DEF EnvType, NoEnvironment
  <2> QED
    BY <1>1, <1>4, <2>1, <2>2, <2>3 DEF Start, ShapeInv
<1>5. ASSUME NEW k \in Keys, Emit(k) \/ EmitNoop(k) PROVE ShapeInv'
  BY <1>2, <1>5, EmitStep DEF Emit, EmitNoop, runVars
<1>6. ASSUME NEW k \in Keys, Set(k) PROVE ShapeInv'
  <2>1. \A l \in Keys : todo'.emits[l] <= input.emits[l]
    BY <1>6, SetStep DEF ShapeInv
  <2> QED
    BY <1>2, <1>6, <2>1, SetStep DEF Set, runVars
<1>7. CASE OpenMap \/ EndMap
  <2>1. mapped'.input \in InputType
    BY <1>7, NoInputType DEF OpenMap, EndMap, NoMap, runVars, ShapeInv
  <2>2. UNCHANGED <<run, env, input, todo>>
    BY <1>7 DEF OpenMap, EndMap, runVars
  <2> QED
    BY <1>1, <2>1, <2>2 DEF ShapeInv
<1>8. CASE CheckMapOut \/ CheckReduceOut \/ ParseOptions \/ ParseJavascriptFile
           \/ LoadDictionary \/ Dispatch \/ Load
  BY <1>3, <1>8 DEF CheckMapOut, CheckReduceOut, ParseOptions, ParseJavascriptFile,
     LoadDictionary, Dispatch, Load, runVars
<1>9. CASE OpenReduce \/ (\E key \in DOMAIN counts : Reduce(key)) \/ EndReduce \/ Crash
           \/ Terminated \/ UNCHANGED vars
  BY <1>3, <1>9 DEF OpenReduce, Reduce, EndReduce, Crash, Terminated, vars, runVars
<1> QED
  BY <1>4, <1>5, <1>6, <1>7, <1>8, <1>9 DEF Next

------------------------------------------------------------------------------
\* tchdbopen leaves the other file, and keeps or empties its own.
Opens(file, keep, next) ==
  \/ /\ pc' = next /\ status' = status
     /\ \A g \in Files \ {file} : disk'[g] = disk[g]
     /\ keep => /\ disk[file].access = "rw"
                /\ disk'[file] = [access |-> "rw", ok |-> FALSE, data |-> disk[file].data]
     /\ ~keep => disk'[file] = [access |-> "rw", ok |-> FALSE, data |-> EmptyMap]
  \/ /\ pc' = "idle" /\ status' = "failed" /\ disk' = disk
     /\ \/ disk[file].access = "ro"
        \/ disk[file].access = "missing" /\ (keep \/ ~dirs[file])
        \/ keep

LEMMA OpenStep ==
  ASSUME ShapeInv
  PROVE  /\ OpenMap => Opens("map.out", env.incremental_map, "map")
         /\ OpenReduce => Opens("reduce.out", env.incremental_reduce, "reduce")
<1>1. ASSUME NEW file \in Files, NEW keep \in BOOLEAN, NEW next,
             OpenForWriting(file, keep, next)
      PROVE  Opens(file, keep, next)
  <2>1. \A g \in Files \ {file} : disk'[g] = disk[g]
    BY <1>1, OpenWrites DEF Writes
  <2> QED
    BY <1>1, <2>1, OpenWrites DEF Opens
<1>2. env.incremental_map \in BOOLEAN /\ env.incremental_reduce \in BOOLEAN
  BY DEF ShapeInv, EnvType
<1> QED
  BY <1>1, <1>2, TwoFiles DEF OpenMap, OpenReduce

LEMMA StageStep == ShapeInv /\ StageInv /\ [Next]_vars => StageInv'
<1> SUFFICES ASSUME ShapeInv, StageInv, [Next]_vars PROVE StageInv'
  OBVIOUS
<1> USE DEF StageInv, Early, Goto, Fail, End, do_reduce, runVars
<1>1. ASSUME NEW options \in Environments, NEW in \in Inputs, Start(options, in)
      PROVE  StageInv'
  BY <1>1 DEF Start
<1>2. CASE ParseOptions
  BY <1>2 DEF ParseOptions, PrintInputFiles
<1>3. CASE CheckMapOut
  BY <1>3, CheckWrites, TwoFiles DEF CheckMapOut
<1>4. CASE CheckReduceOut
  BY <1>4, CheckWrites, TwoFiles DEF CheckReduceOut
<1>5. CASE ParseJavascriptFile
  BY <1>5 DEF ParseJavascriptFile
<1>6. CASE LoadDictionary
  BY <1>6 DEF LoadDictionary, DictionaryLoad
<1>7. CASE Dispatch
  BY <1>7 DEF Dispatch
<1>8. CASE Load
  BY <1>8 DEF Load
<1>9. CASE OpenMap
  <2>1. \/ pc' = "map" /\ status' = status
        \/ pc' = "idle" /\ status' = "failed"
    BY <1>9, OpenStep DEF Opens
  <2> QED
    BY <1>9, <2>1 DEF OpenMap
<1>10. CASE \E k \in Keys : Emit(k) \/ EmitNoop(k) \/ Set(k)
  BY <1>10 DEF Emit, EmitNoop, Set
<1>11. CASE EndMap
  BY <1>11 DEF EndMap
<1>12. CASE OpenReduce
  <2>1. \/ pc' = "reduce" /\ status' = status
        \/ pc' = "idle" /\ status' = "failed"
    BY <1>12, OpenStep DEF Opens
  <2> QED
    BY <1>12, <2>1 DEF OpenReduce
<1>13. CASE \E key \in DOMAIN counts : Reduce(key)
  BY <1>13 DEF Reduce
<1>14. CASE EndReduce
  BY <1>14 DEF EndReduce
<1>15. CASE Crash
  BY <1>15 DEF Crash
<1>16. CASE Terminated \/ UNCHANGED vars
  BY <1>16 DEF Terminated, vars
<1> QED
  BY <1>1, <1>2, <1>3, <1>4, <1>5, <1>6, <1>7, <1>8, <1>9, <1>10, <1>11, <1>12,
     <1>13, <1>14, <1>15, <1>16 DEF Next

------------------------------------------------------------------------------
\* Only the check of a file and the phase that writes it touch a file.
LEMMA OnlyWriters ==
  ASSUME ShapeInv, [Next]_vars
  PROVE  /\ pc \notin {"check_map", "open_map", "map"} => disk'["map.out"] = disk["map.out"]
         /\ pc \notin {"check_reduce", "open_reduce", "reduce"} =>
              disk'["reduce.out"] = disk["reduce.out"]
<1> DEFINE Goal ==
      /\ pc \notin {"check_map", "open_map", "map"} => disk'["map.out"] = disk["map.out"]
      /\ pc \notin {"check_reduce", "open_reduce", "reduce"} =>
           disk'["reduce.out"] = disk["reduce.out"]
<1>1. "map.out" \in Files /\ "reduce.out" \in Files /\ "map.out" # "reduce.out"
  BY TwoFiles
<1>2. ASSUME NEW file \in Files, NEW f, Writes(file, f),
             file = "map.out" => pc \in {"check_map", "open_map", "map"},
             file = "reduce.out" => pc \in {"check_reduce", "open_reduce", "reduce"}
      PROVE  Goal
  BY <1>1, <1>2 DEF Writes
<1>3. ASSUME UNCHANGED disk PROVE Goal
  BY <1>3
<1> HIDE DEF Goal
<1>4. ASSUME CheckMapOut \/ CheckReduceOut PROVE Goal
  BY <1>1, <1>2, <1>4, CheckWrites DEF CheckMapOut, CheckReduceOut
<1>5. ASSUME OpenMap \/ OpenReduce PROVE Goal
  <2>1. env.incremental_map \in BOOLEAN /\ env.incremental_reduce \in BOOLEAN
    BY DEF ShapeInv, EnvType
  <2>2. CASE OpenMap
    <3>1. Writes("map.out", disk'["map.out"]) /\ pc = "open_map"
      BY <1>1, <2>1, <2>2, OpenWrites DEF OpenMap
    <3> QED
      BY <1>1, <1>2, <3>1
  <2>3. CASE OpenReduce
    <3>1. Writes("reduce.out", disk'["reduce.out"]) /\ pc = "open_reduce"
      BY <1>1, <2>1, <2>3, OpenWrites DEF OpenReduce
    <3> QED
      BY <1>1, <1>2, <3>1
  <2> QED
    BY <1>5, <2>2, <2>3
<1>6. ASSUME NEW k \in Keys, Emit(k) \/ Set(k) PROVE Goal
  BY <1>1, <1>2, <1>6, PutWrites DEF Emit, Set
<1>7. ASSUME NEW key \in DOMAIN counts, Reduce(key) PROVE Goal
  BY <1>1, <1>2, <1>7, PutWrites DEF Reduce
<1>8. ASSUME EndMap \/ EndReduce PROVE Goal
  BY <1>1, <1>2, <1>8, CloseWrites DEF EndMap, EndReduce
<1>9. ASSUME Crash PROVE Goal
  BY <1>1, <1>9, CrashWrites DEF Goal, Open
<1>10. ASSUME \/ \E options \in Environments, in \in Inputs : Start(options, in)
              \/ ParseOptions \/ ParseJavascriptFile \/ LoadDictionary \/ Dispatch \/ Load
              \/ \E k \in Keys : EmitNoop(k)
              \/ Terminated \/ UNCHANGED vars
       PROVE  Goal
  BY <1>3, <1>10
  DEF Start, ParseOptions, ParseJavascriptFile, LoadDictionary, Dispatch, Load, EmitNoop,
      Terminated, vars
<1>11. Goal
  BY <1>4, <1>5, <1>6, <1>7, <1>8, <1>9, <1>10 DEF Next
<1> QED
  BY <1>11 DEF Goal

LEMMA AccessStep == ShapeInv /\ AccessInv /\ [Next]_vars => AccessInv'
<1> SUFFICES ASSUME ShapeInv, AccessInv, [Next]_vars PROVE AccessInv'
  OBVIOUS
<1> DEFINE Checking == {"options", "check_map", "check_reduce"}
           Checked  == {"parse", "dictionary", "dispatch", "load", "open_map", "map",
                        "open_reduce"}
           f == disk["reduce.out"]
<1>0. pc \notin {"check_reduce", "open_reduce", "reduce"} => f' = f
  BY OnlyWriters
<1>1. ASSUME NEW options \in Environments, NEW in \in Inputs, Start(options, in)
      PROVE  AccessInv'
  BY <1>1 DEF Start, AccessInv
<1>2. CASE CheckReduceOut
  <2>1. \/ pc' = "idle"
        \/ pc' = "parse" /\ (f'.access = "missing" => dirs["reduce.out"])
    BY <1>2, CheckWrites, TwoFiles DEF CheckReduceOut
  <2>2. f = before["reduce.out"] /\ UNCHANGED <<before, dirs>>
    BY <1>2 DEF CheckReduceOut, AccessInv, runVars
  <2>3. f' = f \/ f' = MissingFile
    BY <1>2, CheckWrites, TwoFiles DEF CheckReduceOut
  <2>4. IsFile(f)
    BY TwoFiles DEF ShapeInv
  <2> QED
    BY <2>1, <2>2, <2>3, <2>4 DEF AccessInv, IsFile, MissingFile
<1>3. ASSUME UNCHANGED <<before, dirs>>, f' = f, pc' \in Checking => pc \in Checking,
             pc' \in Checked => pc \in Checked
      PROVE  AccessInv'
  BY <1>3 DEF AccessInv
<1> HIDE DEF f
<1>4. CASE ParseOptions \/ CheckMapOut
  <2>1. pc' \in {"idle", "check_map", "check_reduce"}
    BY <1>4, CheckWrites, TwoFiles
    DEF ParseOptions, PrintInputFiles, CheckMapOut, Goto, Fail, End
  <2> QED
    BY <1>0, <1>3, <1>4, <2>1 DEF ParseOptions, CheckMapOut, runVars
<1>5. CASE ParseJavascriptFile \/ LoadDictionary \/ Dispatch \/ Load
  BY <1>0, <1>3, <1>5
  DEF ParseJavascriptFile, LoadDictionary, DictionaryLoad, Dispatch, Load, Goto, Fail, End, runVars
<1>6. CASE OpenMap
  BY <1>0, <1>3, <1>6, OpenStep DEF OpenMap, Opens, runVars
<1>7. CASE (\E k \in Keys : Emit(k) \/ EmitNoop(k) \/ Set(k)) \/ EndMap
  BY <1>0, <1>3, <1>7 DEF Emit, EmitNoop, Set, EndMap, Goto, End, runVars
<1>8. ASSUME pc' \in {"idle", "reduce"} PROVE AccessInv'
  BY <1>8 DEF AccessInv
<1>9. CASE OpenReduce
  BY <1>8, <1>9, OpenStep DEF Opens
<1>10. CASE (\E key \in DOMAIN counts : Reduce(key)) \/ EndReduce \/ Crash
  BY <1>8, <1>10 DEF Reduce, EndReduce, Crash, End
<1>11. CASE Terminated \/ UNCHANGED vars
  BY <1>3, <1>11 DEF Terminated, vars, f
<1> QED
  BY <1>1, <1>2, <1>4, <1>5, <1>6, <1>7, <1>9, <1>10, <1>11 DEF Next

\* The map output a complete map phase wrote stays until the next one begins.
LEMMA MappedStep ==
  ShapeInv /\ StageInv /\ WrittenInv /\ MappedInv /\ [Next]_vars => MappedInv'
<1> SUFFICES ASSUME ShapeInv, StageInv, WrittenInv, MappedInv, [Next]_vars PROVE MappedInv'
  OBVIOUS
<1> DEFINE f == disk["map.out"]
<1>1. ASSUME UNCHANGED mapped, f' = f, pc' # "map" \/ pc = "map" PROVE MappedInv'
  BY <1>1 DEF MappedInv
<1>2. pc \notin {"check_map", "open_map", "map"} => f' = f
  BY OnlyWriters
<1> HIDE DEF f
<1>3. CASE \E options \in Environments, in \in Inputs : Start(options, in)
  BY <1>1, <1>3 DEF Start, f
<1>4. CASE ParseOptions \/ CheckReduceOut
  <2>1. pc' \in {"idle", "check_map", "parse"}
    BY <1>4, CheckWrites, TwoFiles
    DEF ParseOptions, PrintInputFiles, CheckReduceOut, Goto, Fail, End
  <2> QED
    BY <1>1, <1>2, <1>4, <2>1 DEF ParseOptions, CheckReduceOut
<1>5. CASE CheckMapOut
  <2>1. CASE mapped = NoMap
    BY <1>5, <2>1 DEF CheckMapOut, MappedInv
  <2>2. CASE mapped # NoMap
    <3>1. f.access = "rw"
      BY <2>2 DEF MappedInv, f
    <3>2. f' = f /\ pc' \in {"check_reduce", "idle"}
      BY <1>5, <3>1, CheckWrites, TwoFiles DEF CheckMapOut, f
    <3> QED
      BY <1>1, <1>5, <3>2 DEF CheckMapOut
  <2> QED
    BY <2>1, <2>2
<1>6. CASE ParseJavascriptFile \/ LoadDictionary \/ Dispatch \/ Load
  BY <1>1, <1>2, <1>6
  DEF ParseJavascriptFile, LoadDictionary, DictionaryLoad, Dispatch, Load, Goto, Fail, End
<1>7. CASE OpenMap
  <2>1. CASE pc' = "map"
    BY <1>7, <2>1 DEF OpenMap, MappedInv
  <2>2. CASE pc' # "map"
    <3>1. f' = f /\ mapped' = mapped
      BY <1>7, <2>2, OpenStep DEF OpenMap, Opens, f
    <3> QED
      BY <1>1, <2>2, <3>1
  <2> QED
    BY <2>1, <2>2
<1>8. CASE \E k \in Keys : Emit(k) \/ EmitNoop(k) \/ Set(k)
  <2>1. mapped' = mapped /\ pc = "map"
    BY <1>8 DEF Emit, EmitNoop, Set
  <2> QED
    BY <2>1 DEF MappedInv
<1>9. CASE EndMap
  <2>1. CASE env.optimize_bucket_count \/ env.incremental_map
    <3>1. mapped' = mapped /\ pc = "map"
      BY <1>9, <2>1 DEF EndMap
    <3> QED
      BY <3>1 DEF MappedInv
  <2>2. CASE ~env.optimize_bucket_count /\ ~env.incremental_map
    <3>1. /\ mapped' = [run |-> run, input |-> input] /\ pc' # "map" /\ todo = NoInput
          /\ pc = "map"
      BY <1>9, <2>2 DEF EndMap, Goto, End
    <3>2. f = [access |-> "rw", ok |-> FALSE,
               data |-> [key \in KeysOf(Made, input.sets \ todo.sets) |-> run]]
      BY <2>2, <3>1 DEF WrittenInv, Counted, StageInv, f
    <3>3. f' = [access |-> "rw", ok |-> TRUE,
                data |-> [key \in KeysOf(Made, input.sets \ todo.sets) |-> run]]
      <4>1. f' = [access |-> f.access, ok |-> TRUE, data |-> f.data]
        BY <1>9, CloseWrites, TwoFiles DEF EndMap, Writes, f
      <4>2. f.access = "rw" /\ f.data = [key \in KeysOf(Made, input.sets \ todo.sets) |-> run]
        BY <3>2
      <4> QED
        BY <4>1, <4>2
    <3>4. Made = input.emits /\ input.sets \ todo.sets = input.sets
      <4>1. input.emits \in [Keys -> 0..CountMod - 1]
        BY DEF ShapeInv, InputType
      <4>2. \A k \in Keys : input.emits[k] - 0 = input.emits[k]
        BY <4>1, MeguroAssumption
      <4> QED
        BY <3>1, <4>1, <4>2 DEF NoInput, Made
    <3> QED
      BY <3>1, <3>3, <3>4 DEF MappedInv, f
  <2> QED
    BY <2>1, <2>2
<1>10. CASE OpenReduce
  <2>1. pc' # "map"
    BY <1>10, OpenStep DEF Opens
  <2> QED
    BY <1>1, <1>2, <1>10, <2>1 DEF OpenReduce
<1>11. CASE (\E key \in DOMAIN counts : Reduce(key)) \/ EndReduce
  BY <1>1, <1>2, <1>11 DEF Reduce, EndReduce, End
<1>12. CASE Crash
  <2>1. CASE pc = "map"
    BY <1>12, <2>1 DEF Crash, MappedInv
  <2>2. CASE pc # "map"
    <3>1. f' = f
      BY <1>12, <2>2, CrashWrites, TwoFiles DEF Open, f
    <3> QED
      BY <1>1, <1>12, <3>1 DEF Crash, End
  <2> QED
    BY <2>1, <2>2
<1>13. CASE Terminated \/ UNCHANGED vars
  BY <1>1, <1>13 DEF Terminated, vars, f
<1> QED
  BY <1>3, <1>4, <1>5, <1>6, <1>7, <1>8, <1>9, <1>10, <1>11, <1>12, <1>13 DEF Next

\* With -e nobody writes the map output after the load.
LEMMA LoadStep == ShapeInv /\ StageInv /\ LoadInv /\ [Next]_vars => LoadInv'
<1> SUFFICES ASSUME ShapeInv, StageInv, LoadInv, [Next]_vars PROVE LoadInv'
  OBVIOUS
<1> DEFINE f == disk["map.out"]
           Past == pc \in {"open_reduce", "reduce"} \/ status = "done"
<1>1. ASSUME UNCHANGED <<env, counts>>, f' = f, Past' => Past PROVE LoadInv'
  BY <1>1 DEF LoadInv
<1>2. ASSUME ~Past' \/ ~env'.just_reduce PROVE LoadInv'
  BY <1>2 DEF LoadInv
<1>3. pc \notin {"check_map", "open_map", "map"} => f' = f
  BY OnlyWriters
<1>4. CASE Load
  <2>1. \/ f.access # "missing" /\ counts' = LoadedCounts(DOMAIN f.data) /\ pc = "load"
        \/ ~Past'
    BY <1>4 DEF Load, Goto, Fail, End
  <2> QED
    BY <1>2, <1>3, <2>1 DEF LoadInv
<1> HIDE DEF f
<1>5. CASE \E options \in Environments, in \in Inputs : Start(options, in)
  BY <1>2, <1>5 DEF Start
<1>6. CASE ParseOptions \/ CheckMapOut \/ CheckReduceOut
  <2>1. ~Past'
    <3>1. CASE ParseOptions
      BY <3>1 DEF ParseOptions, PrintInputFiles, Goto, Fail, End, StageInv
    <3>2. CASE CheckMapOut \/ CheckReduceOut
      BY <3>2, CheckWrites, TwoFiles DEF CheckMapOut, CheckReduceOut, StageInv
    <3> QED
      BY <1>6, <3>1, <3>2
  <2> QED
    BY <1>2, <2>1
<1>7. CASE ParseJavascriptFile \/ LoadDictionary \/ Dispatch
  BY <1>2, <1>7
  DEF ParseJavascriptFile, LoadDictionary, DictionaryLoad, Dispatch, Goto, Fail, End, StageInv
<1>8. CASE OpenMap \/ (\E k \in Keys : Emit(k) \/ EmitNoop(k) \/ Set(k)) \/ EndMap
  BY <1>2, <1>8 DEF OpenMap, Emit, EmitNoop, Set, EndMap, StageInv, runVars
<1>9. CASE OpenReduce
  BY <1>1, <1>3, <1>9 DEF OpenReduce, runVars
<1>10. CASE (\E key \in DOMAIN counts : Reduce(key)) \/ EndReduce
  BY <1>1, <1>3, <1>10 DEF Reduce, EndReduce, runVars
<1>11. CASE Crash
  BY <1>2, <1>11 DEF Crash, End
<1>12. CASE Terminated \/ UNCHANGED vars
  BY <1>1, <1>12 DEF Terminated, vars, f
<1> QED
  BY <1>4, <1>5, <1>6, <1>7, <1>8, <1>9, <1>10, <1>11, <1>12 DEF Next

------------------------------------------------------------------------------
LEMMA KeyParts ==
  ASSUME NEW k, NEW l
  PROVE  /\ Key(k, <<>>).name = k
         /\ Key(k, <<>>) = Key(l, <<>>) => k = l
<1>1. Key(k, <<>>).name = k /\ Key(l, <<>>).name = l
  BY DEF Key
<1> QED
  BY <1>1

LEMMA MadeType ==
  ASSUME ShapeInv
  PROVE  /\ Made \in [Keys -> 0..CountMod - 1]
         /\ \A k \in Keys : todo.emits[k] > 0 => Made[k] + 1 < CountMod
<1>1. /\ input.emits \in [Keys -> 0..CountMod - 1]
      /\ todo.emits \in [Keys -> 0..CountMod - 1]
      /\ \A k \in Keys : todo.emits[k] <= input.emits[k]
  BY DEF ShapeInv, InputType
<1> QED
  BY <1>1, MeguroAssumption DEF Made

\* What the counts and the numbers are after one more emit.
LEMMA OneMoreEmit ==
  ASSUME NEW made \in [Keys -> 0..CountMod - 1], NEW k \in Keys, made[k] + 1 < CountMod
  PROVE  LET more == [made EXCEPT ![k] = @ + 1]
             key  == Key(k, <<>>)
         IN  /\ Increment(CountsOf(made), key) = CountsOf(more)
             /\ CurrentShadowKey(CountsOf(more), key) = GenerateShadowKey(key, made[k])
<1> DEFINE more == [made EXCEPT ![k] = @ + 1]
           key  == Key(k, <<>>)
           done(m) == {Key(l, <<>>) : l \in {l \in Keys : m[l] > 0}}
<1>1. made[k] \in Nat /\ more \in [Keys -> Nat] /\ more[k] = made[k] + 1
        /\ \A l \in Keys : made[l] \in Nat /\ (l # k => more[l] = made[l])
  BY MeguroAssumption
<1>2. DOMAIN CountsOf(made) = done(made) /\ DOMAIN CountsOf(more) = done(more)
  BY DEF CountsOf
<1>3. done(more) = done(made) \cup {key}
  <2>1. \A l \in Keys : (more[l] > 0) = (made[l] > 0 \/ l = k)
    BY <1>1
  <2> QED
    BY <2>1
<1>4. ASSUME NEW x \in done(more)
      PROVE  CountsOf(more)[x] = IF x # key THEN CountsOf(made)[x]
                                 ELSE IF key \in done(made) THEN CountsOf(made)[key] + 1
                                 ELSE 0
  <2>1. PICK l \in Keys : x = Key(l, <<>>) /\ more[l] > 0
    BY <1>4
  <2>2. CountsOf(more)[x] = more[l] - 1
    BY <2>1, <1>2, KeyParts DEF CountsOf
  <2>3. CASE l # k
    <3>1. x # key /\ more[l] = made[l] /\ x \in done(made)
      BY <1>1, <2>1, <2>3, KeyParts
    <3>2. CountsOf(made)[x] = made[l] - 1
      BY <2>1, <3>1, KeyParts DEF CountsOf
    <3> QED
      BY <2>2, <3>1, <3>2
  <2>4. CASE l = k
    <3>1. x = key /\ CountsOf(more)[x] = made[k]
      BY <1>1, <2>1, <2>2, <2>4
    <3>2. CASE key \in done(made)
      <4>1. CountsOf(made)[key] = made[k] - 1
        BY <3>2, KeyParts DEF CountsOf
      <4> QED
        BY <1>1, <3>1, <3>2, <4>1
    <3>3. CASE key \notin done(made)
      <4>1. ~(made[k] > 0)
        BY <3>3
      <4> QED
        BY <1>1, <3>1, <3>3, <4>1
    <3> QED
      BY <3>2, <3>3
  <2> QED
    BY <2>3, <2>4
<1>5. key \in done(made) => CountsOf(made)[key] = made[k] - 1 /\ made[k] > 0
  <2> SUFFICES ASSUME key \in done(made)
               PROVE  CountsOf(made)[key] = made[k] - 1 /\ made[k] > 0
    OBVIOUS
  <2>1. CountsOf(made)[key] = made[k] - 1
    BY KeyParts DEF CountsOf
  <2>2. made[k] > 0
    BY KeyParts
  <2> QED
    BY <2>1, <2>2
<1>6. key \in done(made) => (CountsOf(made)[key] + 1) % CountMod = CountsOf(made)[key] + 1
  BY <1>1, <1>5, MeguroAssumption
<1> HIDE DEF done, more, key
<1>7. Increment(CountsOf(made), key) = CountsOf(more)
  <2>1. DOMAIN Increment(CountsOf(made), key) = done(more)
    BY <1>2, <1>3 DEF Increment
  <2>2. \A x \in done(more) : Increment(CountsOf(made), key)[x] = CountsOf(more)[x]
    BY <1>2, <1>3, <1>4, <1>6 DEF Increment
  <2>3. CountsOf(more) = [x \in done(more) |-> CountsOf(more)[x]]
    BY <1>2 DEF CountsOf
  <2>4. Increment(CountsOf(made), key) = [x \in done(more) |-> Increment(CountsOf(made), key)[x]]
    BY <2>1 DEF Increment
  <2> QED
    BY <2>2, <2>3, <2>4
<1>8. CurrentShadowKey(CountsOf(more), key) = GenerateShadowKey(key, made[k])
  <2>1. key \in done(more)
    BY <1>3
  <2>2. CountsOf(more)[key] = made[k]
    BY <1>1, <1>4, <1>5, <2>1 DEF key, done
  <2> QED
    BY <1>2, <2>1, <2>2 DEF CurrentShadowKey, KeyCount
<1> QED
  BY <1>7, <1>8 DEF more, key

LEMMA OneMoreKey ==
  ASSUME NEW made \in [Keys -> 0..CountMod - 1], NEW k \in Keys, NEW sets
  PROVE  /\ KeysOf([made EXCEPT ![k] = @ + 1], sets)
              = KeysOf(made, sets) \cup {GenerateShadowKey(Key(k, <<>>), made[k])}
         /\ KeysOf(made, sets \cup {k}) = KeysOf(made, sets) \cup {Key(k, <<>>)}
<1> DEFINE more == [made EXCEPT ![k] = @ + 1]
           numbered(m, l) == {GenerateShadowKey(Key(l, <<>>), n) : n \in 0..m[l] - 1}
<1>1. made[k] \in Nat
  BY MeguroAssumption
<1>2. numbered(more, k) = numbered(made, k) \cup {GenerateShadowKey(Key(k, <<>>), made[k])}
  <2>1. 0..more[k] - 1 = (0..made[k] - 1) \cup {made[k]}
    BY <1>1
  <2> QED
    BY <2>1
<1>3. \A l \in Keys \ {k} : numbered(more, l) = numbered(made, l)
  OBVIOUS
<1> HIDE DEF numbered, more
<1>4. (UNION {numbered(more, l) : l \in Keys})
        = (UNION {numbered(made, l) : l \in Keys})
            \cup {GenerateShadowKey(Key(k, <<>>), made[k])}
  BY <1>2, <1>3
<1>5. KeysOf(more, sets) = (UNION {numbered(more, l) : l \in Keys}) \cup {Key(l, <<>>) : l \in sets}
      /\ KeysOf(made, sets) = (UNION {numbered(made, l) : l \in Keys}) \cup {Key(l, <<>>) : l \in sets}
  BY DEF KeysOf, numbered
<1>6. KeysOf(made, sets \cup {k}) = KeysOf(made, sets) \cup {Key(k, <<>>)}
  BY DEF KeysOf
<1> QED
  BY <1>4, <1>5, <1>6 DEF more

\* What a step before the map phase, an -e or a crash leads to does not count.
LEMMA CountedFrom ==
  ASSUME ShapeInv, StageInv, [Next]_vars
  PROVE  Counted' => \/ pc = "open_map" /\ OpenMap
                     \/ Counted /\ ~(\E options \in Environments, in \in Inputs : Start(options, in))
                         /\ ~Crash
<1>1. CASE \E options \in Environments, in \in Inputs : Start(options, in)
  BY <1>1 DEF Start, Counted
<1>2. CASE ParseOptions
  BY <1>2 DEF ParseOptions, PrintInputFiles, Goto, Fail, End, StageInv, Counted
<1>3. CASE CheckMapOut \/ CheckReduceOut
  BY <1>3, CheckWrites, TwoFiles DEF CheckMapOut, CheckReduceOut, StageInv, Counted
<1>4. CASE ParseJavascriptFile \/ LoadDictionary \/ Dispatch
  BY <1>4 DEF ParseJavascriptFile, LoadDictionary, DictionaryLoad, Dispatch, Goto, Fail, End,
              StageInv, Counted
<1>5. CASE Load
  BY <1>5 DEF Load, StageInv, Counted, runVars
<1>6. CASE OpenMap
  BY <1>6 DEF OpenMap
<1>7. CASE Crash
  BY <1>7 DEF Crash, End, Counted
<1>8. ASSUME UNCHANGED env, pc \in {"map", "open_reduce", "reduce"} \/ UNCHANGED <<pc, status>>,
             ~(\E options \in Environments, in \in Inputs : Start(options, in)), ~Crash
      PROVE  Counted' => Counted
  BY <1>8 DEF Counted
<1>9. CASE (\E k \in Keys : Emit(k) \/ EmitNoop(k) \/ Set(k)) \/ EndMap \/ OpenReduce
           \/ (\E key \in DOMAIN counts : Reduce(key)) \/ EndReduce \/ Terminated
           \/ UNCHANGED vars
  BY <1>1, <1>7, <1>8, <1>9
  DEF Emit, EmitNoop, Set, EndMap, OpenReduce, Reduce, EndReduce, Terminated, vars, runVars
<1> QED
  BY <1>1, <1>2, <1>3, <1>4, <1>5, <1>6, <1>7, <1>9 DEF Next

\* Every emit is counted and stored, and nothing else is stored but what is set.
LEMMA EmittedStep ==
  ShapeInv /\ StageInv /\ EmittedInv /\ WrittenInv /\ [Next]_vars
    => EmittedInv' /\ WrittenInv'
<1> SUFFICES ASSUME ShapeInv, StageInv, EmittedInv, WrittenInv, [Next]_vars, Counted'
             PROVE  EmittedInv' /\ WrittenInv'
  BY DEF EmittedInv, WrittenInv
<1> DEFINE f == disk["map.out"]
           sets == input.sets \ todo.sets
           Holds(data, made, number) ==
             \A k \in Keys : \A n \in 0..made[k] - 1 :
               LET key == GenerateShadowKey(Key(k, <<>>), n)
               IN  key \in DOMAIN data /\ data[key] = number
           Exact(made, s, number) == [key \in KeysOf(made, s) |-> number]
<1>1. ASSUME counts' = CountsOf(Made'), Holds(f'.data, Made', run'),
             ~env'.incremental_map =>
               f' = [access |-> "rw", ok |-> pc' # "map", data |-> Exact(Made', sets', run')]
      PROVE  EmittedInv' /\ WrittenInv'
  BY <1>1 DEF EmittedInv, WrittenInv
<1>2. Counted => /\ counts = CountsOf(Made)
                 /\ Holds(f.data, Made, run)
                 /\ ~env.incremental_map =>
                      f = [access |-> "rw", ok |-> pc # "map", data |-> Exact(Made, sets, run)]
  BY DEF EmittedInv, WrittenInv
<1>3. IsFile(f) /\ Made \in [Keys -> 0..CountMod - 1]
        /\ \A k \in Keys : Made[k] \in Nat
  BY MadeType, TwoFiles, MeguroAssumption DEF ShapeInv
<1> HIDE DEF f, sets, Exact
<1>4. CASE OpenMap
  <2>1. pc' = "map" /\ UNCHANGED <<run, env, input, todo, counts>> /\ todo = input
          /\ counts = EmptyMap
    BY <1>4, OpenStep DEF OpenMap, Opens, Counted, StageInv, Early, runVars
  <2>2. Made' = [k \in Keys |-> 0]
    <3>1. \A k \in Keys : input.emits[k] - input.emits[k] = 0
      BY MeguroAssumption DEF ShapeInv, InputType
    <3> QED
      BY <2>1, <3>1 DEF Made
  <2>3. counts' = CountsOf(Made')
    <3>1. {Key(k, <<>>) : k \in {k \in Keys : Made'[k] > 0}} = {}
      BY <2>2
    <3> QED
      BY <2>1, <3>1 DEF CountsOf, EmptyMap
  <2>4. \A k \in Keys : 0..Made'[k] - 1 = {}
    BY <2>2
  <2>5. Holds(f'.data, Made', run')
    BY <2>4
  <2>6. ~env.incremental_map => f' = [access |-> "rw", ok |-> FALSE, data |-> Exact(Made', sets', run')]
    <3>1. sets' = {}
      BY <2>1 DEF sets
    <3>2. KeysOf(Made', sets') = {}
      BY <2>4, <3>1 DEF KeysOf
    <3>3. Exact(Made', sets', run') = EmptyMap
      BY <3>2 DEF Exact, EmptyMap
    <3> QED
      BY <1>4, <2>1, <3>3, OpenStep DEF Opens, f
  <2> QED
    BY <1>1, <2>1, <2>3, <2>5, <2>6
<1>5. ASSUME NEW k \in Keys, Emit(k) PROVE EmittedInv' /\ WrittenInv'
  <2> DEFINE key == GenerateShadowKey(Key(k, <<>>), Made[k])
  <2>1. /\ Counted /\ pc = "map" /\ pc' = "map" /\ UNCHANGED <<run, env, input>>
        /\ todo.emits[k] > 0 /\ todo'.sets = todo.sets
        /\ todo'.emits = [todo.emits EXCEPT ![k] = @ - 1]
    BY <1>5, EmitStep DEF Emit, Counted, StageInv, runVars
  <2>2. Made' = [Made EXCEPT ![k] = @ + 1] /\ Made[k] + 1 < CountMod
    <3>1. /\ input.emits \in [Keys -> 0..CountMod - 1]
          /\ todo.emits \in [Keys -> 0..CountMod - 1]
      BY DEF ShapeInv, InputType
    <3>2. \A l \in Keys : input.emits[l] - todo'.emits[l]
                           = IF l = k THEN input.emits[l] - todo.emits[l] + 1
                             ELSE input.emits[l] - todo.emits[l]
      BY <2>1, <3>1, MeguroAssumption
    <3> QED
      BY <2>1, <3>2, MadeType DEF Made
  <2>3. counts = CountsOf(Made) /\ Holds(f.data, Made, run)
    BY <1>2, <2>1
  <2>4. counts' = CountsOf(Made')
    BY <1>3, <1>5, <2>2, <2>3, OneMoreEmit DEF Emit
  <2>5. CurrentShadowKey(counts', Key(k, <<>>)) = key
    BY <1>3, <2>2, <2>4, OneMoreEmit
  <2>6. f' = Stored(f, key, run)
    <3>1. disk' = [disk EXCEPT !["map.out"].data =
                     Put(@, CurrentShadowKey(Increment(counts, Key(k, <<>>)), Key(k, <<>>)), run)]
      BY <1>5 DEF Emit
    <3>2. Increment(counts, Key(k, <<>>)) = counts'
      BY <1>5 DEF Emit
    <3>3. disk' = [disk EXCEPT !["map.out"].data = Put(@, key, run)]
      BY <2>5, <3>1, <3>2
    <3>4. Writes("map.out", Stored(disk["map.out"], key, run))
      <4> HIDE DEF key
      <4> QED
        BY <3>3, PutWrites, TwoFiles
    <3> QED
      BY <3>4, TwoFiles DEF Writes, f
  <2>7. /\ DOMAIN f'.data = DOMAIN f.data \cup {key}
        /\ \A x \in DOMAIN f'.data : f'.data[x] = IF x = key THEN run ELSE f.data[x]
    <3> HIDE DEF key
    <3>1. f'.data = Put(f.data, key, run)
      BY <2>6 DEF Stored
    <3> QED
      BY <3>1 DEF Put
  <2>8. Holds(f'.data, Made', run')
    <3> SUFFICES ASSUME NEW l \in Keys, NEW n \in 0..Made'[l] - 1
                 PROVE  LET x == GenerateShadowKey(Key(l, <<>>), n)
                        IN  x \in DOMAIN f'.data /\ f'.data[x] = run
      BY <2>1
    <3>1. CASE l = k /\ n = Made[k]
      BY <2>7, <3>1
    <3>2. CASE n \in 0..Made[l] - 1
      <4> DEFINE x == GenerateShadowKey(Key(l, <<>>), n)
      <4>1. x \in DOMAIN f.data /\ f.data[x] = run
        BY <2>3, <3>2
      <4> QED
        BY <2>7, <4>1
    <3> QED
      BY <1>3, <2>2, <3>1, <3>2
  <2>9. ~env.incremental_map => f' = [access |-> "rw", ok |-> FALSE, data |-> Exact(Made', sets', run')]
    <3> SUFFICES ASSUME ~env.incremental_map
                 PROVE  f' = [access |-> "rw", ok |-> FALSE, data |-> Exact(Made', sets', run')]
      OBVIOUS
    <3>1. f = [access |-> "rw", ok |-> FALSE, data |-> Exact(Made, sets, run)]
      BY <1>2, <2>1
    <3>2. f.access = "rw" /\ f.ok = FALSE /\ f.data = Exact(Made, sets, run)
      BY <3>1
    <3>3. sets' = sets
      BY <2>1 DEF sets
    <3>4. KeysOf(Made', sets) = KeysOf(Made, sets) \cup {key}
      BY <1>3, <2>2, OneMoreKey
    <3>5. Put(Exact(Made, sets, run), key, run) = Exact(Made', sets, run)
      <4> HIDE DEF key
      <4> QED
        BY <3>4 DEF Exact, Put
    <3> QED
      BY <2>1, <2>6, <3>2, <3>3, <3>5 DEF Stored
  <2> QED
    BY <1>1, <2>1, <2>4, <2>8, <2>9
<1>6. ASSUME NEW k \in Keys, Set(k) PROVE EmittedInv' /\ WrittenInv'
  <2> DEFINE key == Key(k, <<>>)
  <2>1. /\ pc = "map" /\ pc' = "map" /\ UNCHANGED <<run, env, input, counts, status>>
        /\ todo'.sets = todo.sets \ {k} /\ todo'.emits = todo.emits /\ k \in todo.sets
    BY <1>6, SetStep DEF Set, runVars
  <2>2. Counted /\ Made' = Made
    BY <2>1 DEF Counted, Made
  <2>3. f' = Stored(f, key, run)
    <3>1. disk' = [disk EXCEPT !["map.out"].data = Put(@, key, run)]
      BY <1>6 DEF Set
    <3>2. Writes("map.out", Stored(disk["map.out"], key, run))
      <4> HIDE DEF key
      <4> QED
        BY <3>1, PutWrites, TwoFiles
    <3> QED
      BY <3>2, TwoFiles DEF Writes, f
  <2>4. /\ DOMAIN f'.data = DOMAIN f.data \cup {key}
        /\ \A x \in DOMAIN f'.data : f'.data[x] = IF x = key THEN run ELSE f.data[x]
    <3> HIDE DEF key
    <3>1. f'.data = Put(f.data, key, run)
      BY <2>3 DEF Stored
    <3> QED
      BY <3>1 DEF Put
  <2>5. Holds(f'.data, Made', run')
    <3> SUFFICES ASSUME NEW l \in Keys, NEW n \in 0..Made[l] - 1
                 PROVE  LET x == GenerateShadowKey(Key(l, <<>>), n)
                        IN  x \in DOMAIN f'.data /\ f'.data[x] = run
      BY <2>1, <2>2
    <3> DEFINE x == GenerateShadowKey(Key(l, <<>>), n)
    <3>1. x \in DOMAIN f.data /\ f.data[x] = run
      BY <1>2, <2>2
    <3> QED
      BY <2>4, <3>1
  <2>6. ~env.incremental_map => f' = [access |-> "rw", ok |-> FALSE, data |-> Exact(Made', sets', run')]
    <3> SUFFICES ASSUME ~env.incremental_map
                 PROVE  f' = [access |-> "rw", ok |-> FALSE, data |-> Exact(Made', sets', run')]
      OBVIOUS
    <3>1. f = [access |-> "rw", ok |-> FALSE, data |-> Exact(Made, sets, run)]
      BY <1>2, <2>1, <2>2
    <3>2. f.access = "rw" /\ f.ok = FALSE /\ f.data = Exact(Made, sets, run)
      BY <3>1
    <3>3. sets' = sets \cup {k}
      BY <2>1 DEF sets, ShapeInv
    <3>4. KeysOf(Made, sets') = KeysOf(Made, sets) \cup {key}
      BY <1>3, <3>3, OneMoreKey
    <3>5. Put(Exact(Made, sets, run), key, run) = Exact(Made, sets', run)
      <4> HIDE DEF key
      <4> QED
        BY <3>4 DEF Exact, Put
    <3> QED
      BY <2>1, <2>2, <2>3, <3>2, <3>5 DEF Stored
  <2> QED
    BY <1>1, <1>2, <2>1, <2>2, <2>5, <2>6
<1>7. CASE EndMap
  <2>1. /\ Counted /\ pc = "map" /\ pc' # "map" /\ UNCHANGED <<run, env, input, counts, todo>>
    BY <1>7, CountedFrom DEF EndMap, Goto, End, Counted, StageInv, runVars
  <2>2. f' = [access |-> f.access, ok |-> TRUE, data |-> f.data]
    BY <1>7, CloseWrites, TwoFiles DEF EndMap, Writes, f
  <2>3. Made' = Made /\ sets' = sets /\ f'.data = f.data
    BY <2>1, <2>2 DEF Made, sets
  <2>4. ~env.incremental_map => f' = [access |-> "rw", ok |-> TRUE, data |-> Exact(Made, sets, run)]
    <3> SUFFICES ASSUME ~env.incremental_map
                 PROVE  f' = [access |-> "rw", ok |-> TRUE, data |-> Exact(Made, sets, run)]
      OBVIOUS
    <3>1. f = [access |-> "rw", ok |-> FALSE, data |-> Exact(Made, sets, run)]
      BY <1>2, <2>1
    <3>2. f.access = "rw" /\ f.data = Exact(Made, sets, run)
      BY <3>1
    <3> QED
      BY <2>2, <3>2
  <2> QED
    BY <1>1, <1>2, <2>1, <2>3, <2>4
<1>8. ASSUME Counted, UNCHANGED <<run, env, input, counts, todo>>, f' = f,
              (pc' = "map") = (pc = "map")
       PROVE  EmittedInv' /\ WrittenInv'
  <2>1. Made' = Made /\ sets' = sets
    BY <1>8 DEF Made, sets
  <2> QED
    BY <1>1, <1>2, <1>8, <2>1
<1>9. CASE Counted /\ (OpenReduce \/ EndReduce)
  <2>1. f' = f
    BY <1>9, OnlyWriters DEF OpenReduce, EndReduce, f
  <2>2. pc # "map" /\ pc' # "map"
    BY <1>9, OpenStep DEF OpenReduce, EndReduce, Opens, End
  <2> QED
    BY <1>8, <1>9, <2>1, <2>2 DEF OpenReduce, EndReduce, runVars
<1>10. CASE Counted /\ ((\E key \in DOMAIN counts : Reduce(key)) \/ Terminated \/ UNCHANGED vars)
  <2>1. f' = f
    BY <1>10, OnlyWriters DEF Reduce, Terminated, vars, f
  <2> QED
    BY <1>8, <1>10, <2>1 DEF Reduce, Terminated, vars, runVars
<1>11. CASE Counted /\ \E k \in Keys : EmitNoop(k)
  BY <1>11 DEF EmitNoop, Counted
<1>12. CASE Counted /\ (CheckMapOut \/ CheckReduceOut \/ ParseOptions \/ ParseJavascriptFile
                         \/ LoadDictionary \/ Dispatch \/ Load)
  BY <1>12 DEF Counted, CheckMapOut, CheckReduceOut, ParseOptions, ParseJavascriptFile,
     LoadDictionary, Dispatch, Load, StageInv
<1> QED
  BY <1>4, <1>5, <1>6, <1>7, <1>9, <1>10, <1>11, <1>12, CountedFrom DEF Next

------------------------------------------------------------------------------
\* Where the results are looked at, and which steps lead there.
LEMMA ResultsFrom ==
  ASSUME ShapeInv, StageInv, [Next]_vars, pc' = "reduce" \/ status' = "done"
  PROVE  \/ EndMap /\ ~do_reduce /\ pc' # "reduce"
         \/ OpenReduce /\ pc' = "reduce"
         \/ \E key \in DOMAIN counts : Reduce(key)
         \/ EndReduce
         \/ UNCHANGED vars
<1>1. CASE \E options \in Environments, in \in Inputs : Start(options, in)
  BY <1>1 DEF Start
<1>2. CASE ParseOptions
  BY <1>2 DEF ParseOptions, PrintInputFiles, Goto, Fail, End, StageInv
<1>3. CASE CheckMapOut \/ CheckReduceOut
  BY <1>3, CheckWrites, TwoFiles DEF CheckMapOut, CheckReduceOut, StageInv
<1>4. CASE ParseJavascriptFile \/ LoadDictionary \/ Dispatch \/ Load
  BY <1>4 DEF ParseJavascriptFile, LoadDictionary, DictionaryLoad, Dispatch, Load, Goto, Fail,
              End, StageInv
<1>5. CASE OpenMap
  BY <1>5, OpenStep DEF OpenMap, Opens, StageInv
<1>6. CASE \E k \in Keys : Emit(k) \/ EmitNoop(k) \/ Set(k)
  BY <1>6 DEF Emit, EmitNoop, Set, StageInv
<1>7. CASE EndMap
  BY <1>7 DEF EndMap, Goto, End, StageInv
<1>8. CASE OpenReduce
  BY <1>8, OpenStep DEF OpenReduce, Opens, StageInv
<1>9. CASE Crash
  BY <1>9 DEF Crash, End
<1> QED
  BY <1>1, <1>2, <1>3, <1>4, <1>5, <1>6, <1>7, <1>8, <1>9 DEF Next, Terminated

\* A turn of the reduce loop saves the list of one more key.
LEMMA ReduceTurn ==
  ASSUME ShapeInv, NEW key \in DOMAIN counts, Reduce(key)
  PROVE  /\ pc = "reduce" /\ UNCHANGED <<pc, status, env, before, functions, counts>>
         /\ reduced' = reduced \cup {key}
         /\ disk'["map.out"] = disk["map.out"]
         /\ DOMAIN disk'["reduce.out"].data = DOMAIN disk["reduce.out"].data \cup {key}
         /\ disk'["reduce.out"].data[key] =
              ValueList(disk["map.out"].data, key, counts[key])
         /\ \A x \in DOMAIN disk["reduce.out"].data \ {key} :
              disk'["reduce.out"].data[x] = disk["reduce.out"].data[x]
<1> DEFINE list == ValueList(disk["map.out"].data, key, counts[key])
<1>1. disk' = [disk EXCEPT !["reduce.out"].data = Put(@, key, list)]
  BY DEF Reduce
<1> HIDE DEF list
<1>2. Writes("reduce.out", Stored(disk["reduce.out"], key, list))
  BY <1>1, PutWrites, TwoFiles
<1>3. /\ disk'["map.out"] = disk["map.out"]
      /\ disk'["reduce.out"].data = Put(disk["reduce.out"].data, key, list)
  BY <1>2, TwoFiles DEF Writes, Stored
<1>4. /\ pc = "reduce" /\ UNCHANGED <<pc, status, env, before, functions, counts>>
      /\ reduced' = reduced \cup {key}
  BY DEF Reduce, runVars
<1> DEFINE old == disk["reduce.out"].data
<1>5. /\ DOMAIN Put(old, key, list) = DOMAIN old \cup {key}
      /\ Put(old, key, list)[key] = list
      /\ \A x \in DOMAIN old \ {key} : Put(old, key, list)[x] = old[x]
  <2> HIDE DEF old
  <2>1. Put(old, key, list) = [x \in DOMAIN old \cup {key} |-> IF x = key THEN list ELSE old[x]]
    BY DEF Put
  <2> QED
    BY <2>1
<1>6. /\ DOMAIN disk'["reduce.out"].data = DOMAIN old \cup {key}
      /\ disk'["reduce.out"].data[key] = list
      /\ \A x \in DOMAIN old \ {key} : disk'["reduce.out"].data[x] = old[x]
  BY <1>3, <1>5
<1> QED
  BY <1>3, <1>4, <1>6 DEF list

LEMMA ReduceEnds ==
  ASSUME ShapeInv, EndReduce
  PROVE  /\ pc = "reduce" /\ status' = "done" /\ UNCHANGED <<env, before, functions, counts, reduced>>
         /\ reduced = DOMAIN counts
         /\ disk'["map.out"] = disk["map.out"]
         /\ disk'["reduce.out"].data = disk["reduce.out"].data
<1> DEFINE f == [access |-> disk["reduce.out"].access, ok |-> TRUE,
                 data |-> disk["reduce.out"].data]
<1>1. Close("reduce.out")
  BY DEF EndReduce
<1>2. Writes("reduce.out", f)
  BY <1>1, CloseWrites, TwoFiles
<1>3. f.data = disk["reduce.out"].data
  OBVIOUS
<1> HIDE DEF f
<1>4. disk'["map.out"] = disk["map.out"] /\ disk'["reduce.out"] = f
  BY <1>2, TwoFiles DEF Writes
<1> QED
  BY <1>3, <1>4 DEF EndReduce, End, runVars

LEMMA ReducedStep == ShapeInv /\ StageInv /\ ReducedInv /\ [Next]_vars => ReducedInv'
<1> DEFINE Reducing == pc = "reduce" \/ (status = "done" /\ do_reduce)
<1> SUFFICES ASSUME ShapeInv, StageInv, ReducedInv, [Next]_vars, Reducing'
             PROVE  ReducedInv'
  BY DEF ReducedInv
<1>1. CASE EndMap /\ ~do_reduce /\ pc' # "reduce"
  <2>1. functions' = functions
    BY <1>1 DEF EndMap
  <2> QED
    BY <1>1, <2>1 DEF do_reduce
<1>2. CASE OpenReduce /\ pc' = "reduce"
  <2>1. /\ reduced' = {} /\ counts' = counts /\ env' = env /\ status' # "done"
    BY <1>2, OpenStep DEF OpenReduce, Opens, StageInv, runVars
  <2>2. ~env.incremental_reduce => disk'["reduce.out"] = [access |-> "rw", ok |-> FALSE, data |-> EmptyMap]
    BY <1>2, OpenStep DEF Opens
  <2>3. ~env.incremental_reduce => DOMAIN disk'["reduce.out"].data = {}
    BY <2>2 DEF EmptyMap
  <2> QED
    BY <2>1, <2>3 DEF ReducedInv
<1>3. ASSUME NEW key \in DOMAIN counts, Reduce(key) PROVE ReducedInv'
  <2>1. status # "done"
    BY <1>3, ReduceTurn DEF StageInv
  <2> QED
    BY <1>3, <2>1, ReduceTurn DEF ReducedInv
<1>4. CASE EndReduce
  BY <1>4, ReduceEnds DEF ReducedInv
<1>5. CASE UNCHANGED vars
  BY <1>5 DEF vars, ReducedInv, do_reduce
<1> QED
  BY <1>1, <1>2, <1>3, <1>4, <1>5, ResultsFrom

LEMMA CarriedStep == IInv /\ ShapeInv /\ StageInv /\ CarriedInv /\ [Next]_vars => CarriedInv'
<1> SUFFICES ASSUME IInv, ShapeInv, StageInv, CarriedInv, [Next]_vars,
                    env'.incremental_reduce, before'["reduce.out"].access = "rw",
                    pc' = "reduce" \/ status' = "done"
             PROVE  CarriedInv'
  BY DEF CarriedInv
<1>1. CASE EndMap
  <2>1. pc = "map" /\ before' = before /\ disk'["reduce.out"] = disk["reduce.out"]
    BY <1>1, OnlyWriters DEF EndMap, runVars
  <2>2. disk["reduce.out"] = before["reduce.out"]
    BY <2>1 DEF IInv, OutputsKept, Kept
  <2> QED
    BY <2>1, <2>2 DEF CarriedInv
<1>2. CASE OpenReduce /\ pc' = "reduce"
  <2>1. pc = "open_reduce" /\ UNCHANGED <<before, env>>
    BY <1>2 DEF OpenReduce, runVars
  <2>2. disk["reduce.out"] = before["reduce.out"]
    BY <2>1 DEF IInv, OutputsKept, Kept
  <2>3. disk'["reduce.out"] = [access |-> "rw", ok |-> FALSE, data |-> disk["reduce.out"].data]
    BY <1>2, <2>1, OpenStep DEF Opens
  <2> QED
    BY <2>1, <2>2, <2>3 DEF CarriedInv
<1>3. ASSUME NEW key \in DOMAIN counts, Reduce(key) PROVE CarriedInv'
  BY <1>3, ReduceTurn DEF CarriedInv
<1>4. CASE EndReduce
  BY <1>4, ReduceEnds DEF CarriedInv
<1>5. CASE UNCHANGED vars
  BY <1>5 DEF vars, CarriedInv
<1> QED
  BY <1>1, <1>2, <1>3, <1>4, <1>5, ResultsFrom

------------------------------------------------------------------------------
\* ResultsInv holds in the beginning, and every step keeps it.
LEMMA ResultsInit == Init => ResultsInv
<1> SUFFICES ASSUME Init PROVE ResultsInv
  OBVIOUS
<1>1. ShapeInv
  BY ShapeInit
<1>2. pc = "idle" /\ status = "none" /\ mapped = NoMap
  BY DEF Init
<1> QED
  BY <1>1, <1>2
  DEF ResultsInv, StageInv, Early, EmittedInv, WrittenInv, Counted, MappedInv, LoadInv, ReducedInv,
      CarriedInv, AccessInv

\* What the shadow key map and the two files hold, in every reachable state.
THEOREM ResultsInvariant == Spec => []ResultsInv
<1>1. IInv /\ ResultsInv /\ [Next]_vars => ResultsInv'
  BY ShapeStep, StageStep, EmittedStep, MappedStep, LoadStep, ReducedStep, CarriedStep, AccessStep
  DEF ResultsInv
<1> QED
  BY <1>1, ResultsInit, MeguroInvariant, PTL DEF Spec

------------------------------------------------------------------------------
\* The map output of a completed map phase, over whatever file it found.
THEOREM MeguroFreshMapExact == Spec => []FreshMapExact
<1>1. ResultsInv => FreshMapExact
  <2> SUFFICES ASSUME ResultsInv, status = "done", ~env.just_reduce, ~env.incremental_map,
                      ~env.optimize_bucket_count
               PROVE  FreshMapExact
    BY DEF FreshMapExact
  <2>1. todo = NoInput /\ pc # "map"
    BY DEF ResultsInv, StageInv
  <2>2. Made = input.emits /\ input.sets \ todo.sets = input.sets
    <3>1. input.emits \in [Keys -> 0..CountMod - 1]
      BY DEF ResultsInv, ShapeInv, InputType
    <3>2. \A k \in Keys : input.emits[k] - 0 = input.emits[k]
      BY <3>1, MeguroAssumption
    <3> QED
      BY <2>1, <3>1, <3>2 DEF NoInput, Made
  <2>3. disk["map.out"] = [access |-> "rw", ok |-> TRUE,
                           data |-> [key \in KeysOf(input.emits, input.sets) |-> run]]
    BY <2>1, <2>2 DEF ResultsInv, WrittenInv, Counted
  <2>4. disk["map.out"].ok /\ disk["map.out"].data = [key \in KeysOf(input.emits, input.sets) |-> run]
    BY <2>3
  <2> QED
    BY <2>4 DEF FreshMapExact, KeysOf
<1> QED
  BY <1>1, ResultsInvariant, PTL

------------------------------------------------------------------------------
\* Cutting a generated key gives the name and the number back.
LEMMA CutKey ==
  ASSUME NEW k, NEW n \in 0..CountMod - 1
  PROVE  /\ RootOf(GenerateShadowKey(Key(k, <<>>), n)) = Key(k, <<>>)
         /\ ParsedCount(GenerateShadowKey(Key(k, <<>>), n)) = n
<1>1. n \in Nat /\ n % CountMod = n
  BY MeguroAssumption
<1>2. CASE n = 0
  BY <1>2 DEF GenerateShadowKey, RootOf, ParsedCount, Plain, Key
<1>3. CASE n # 0
  <2>1. GenerateShadowKey(Key(k, <<>>), n) = [name |-> k, marks |-> <<n>>]
    BY <1>3 DEF GenerateShadowKey, Key
  <2>2. <<n>> # <<>> /\ <<n>>[1] = n
    OBVIOUS
  <2> QED
    BY <1>1, <2>1, <2>2 DEF RootOf, ParsedCount, Plain, Key
<1> QED
  BY <1>2, <1>3

LEMMA MaxIs ==
  ASSUME NEW S, NEW m \in S, S \subseteq Int, \A n \in S : m >= n
  PROVE  Max(S) = m
<1>1. \A x \in S : (\A y \in S : x >= y) => x = m
  <2> SUFFICES ASSUME NEW x \in S, \A y \in S : x >= y PROVE x = m
    OBVIOUS
  <2>1. x >= m /\ m >= x /\ x \in Int /\ m \in Int
    OBVIOUS
  <2> QED
    BY <2>1
<1> QED
  BY <1>1 DEF Max

\* Which keys a map phase leaves in the file.
LEMMA WhichKeys ==
  ASSUME NEW in \in InputType, NEW key \in KeysOf(in.emits, in.sets)
  PROVE  \/ \E k \in Keys : \E n \in 0..in.emits[k] - 1 :
              key = GenerateShadowKey(Key(k, <<>>), n) /\ n \in 0..CountMod - 1 /\ in.emits[k] > 0
         \/ \E k \in in.sets : key = GenerateShadowKey(Key(k, <<>>), 0)
<1>1. \A k \in Keys : in.emits[k] \in 0..CountMod - 1
  BY DEF InputType
<1>2. ASSUME NEW k \in in.sets PROVE Key(k, <<>>) = GenerateShadowKey(Key(k, <<>>), 0)
  BY DEF GenerateShadowKey
<1>3. ASSUME NEW k \in Keys, NEW n \in 0..in.emits[k] - 1
      PROVE  n \in 0..CountMod - 1 /\ in.emits[k] > 0
  BY <1>1, MeguroAssumption
<1>4. CASE \E k \in in.sets : key = Key(k, <<>>)
  BY <1>2, <1>4
<1>5. CASE ~\E k \in in.sets : key = Key(k, <<>>)
  <2>1. PICK k \in Keys : key \in {GenerateShadowKey(Key(k, <<>>), n) : n \in 0..in.emits[k] - 1}
    BY <1>5 DEF KeysOf
  <2>2. PICK n \in 0..in.emits[k] - 1 : key = GenerateShadowKey(Key(k, <<>>), n)
    BY <2>1
  <2> QED
    BY <1>3, <2>2
<1> QED
  BY <1>4, <1>5

\* load rebuilds from the file of a map phase the counts that it ended with, and
\* the count 0 for a key that was only set.
LEMMA LoadedFrom ==
  ASSUME NEW in \in InputType
  PROVE  LET loaded == LoadedCounts(KeysOf(in.emits, in.sets))
         IN  /\ DOMAIN loaded = Emitted(in) \cup {Key(k, <<>>) : k \in in.sets}
             /\ \A k \in Keys : in.emits[k] > 0 => loaded[Key(k, <<>>)] = in.emits[k] - 1
             /\ \A k \in in.sets : in.emits[k] = 0 => loaded[Key(k, <<>>)] = 0
<1> DEFINE keys == KeysOf(in.emits, in.sets)
           found(root) == {ParsedCount(key) : key \in {key \in keys : RootOf(key) = root}}
           loaded == LoadedCounts(keys)
<1>1. in.sets \subseteq Keys /\ \A k \in Keys : in.emits[k] \in 0..CountMod - 1
  BY DEF InputType
<1>2. ASSUME NEW k \in Keys, NEW n \in 0..in.emits[k] - 1
      PROVE  /\ GenerateShadowKey(Key(k, <<>>), n) \in keys
             /\ RootOf(GenerateShadowKey(Key(k, <<>>), n)) = Key(k, <<>>)
             /\ ParsedCount(GenerateShadowKey(Key(k, <<>>), n)) = n
  <2>1. n \in 0..CountMod - 1
    BY <1>1, MeguroAssumption
  <2> QED
    BY <2>1, CutKey DEF KeysOf
<1>3. ASSUME NEW k \in in.sets
      PROVE  /\ GenerateShadowKey(Key(k, <<>>), 0) \in keys
             /\ RootOf(GenerateShadowKey(Key(k, <<>>), 0)) = Key(k, <<>>)
             /\ ParsedCount(GenerateShadowKey(Key(k, <<>>), 0)) = 0
  <2>1. 0 \in 0..CountMod - 1
    BY MeguroAssumption
  <2>2. GenerateShadowKey(Key(k, <<>>), 0) = Key(k, <<>>)
    BY DEF GenerateShadowKey
  <2>3. Key(k, <<>>) \in keys
    BY DEF KeysOf
  <2> QED
    BY <2>1, <2>2, <2>3, CutKey
<1>4. ASSUME NEW key \in keys
      PROVE  \/ \E k \in Keys : /\ in.emits[k] > 0 /\ RootOf(key) = Key(k, <<>>)
                                /\ ParsedCount(key) \in 0..in.emits[k] - 1
             \/ \E k \in in.sets : RootOf(key) = Key(k, <<>>) /\ ParsedCount(key) = 0
  BY <1>2, <1>3, WhichKeys
<1> HIDE DEF keys
<1>5. DOMAIN loaded = {RootOf(key) : key \in keys}
  BY DEF LoadedCounts
<1>6. \A root \in DOMAIN loaded : loaded[root] = Max(found(root))
  BY <1>5 DEF LoadedCounts
<1>7. DOMAIN loaded = Emitted(in) \cup {Key(k, <<>>) : k \in in.sets}
  <2>1. \A key \in keys : RootOf(key) \in Emitted(in) \cup {Key(k, <<>>) : k \in in.sets}
    BY <1>4 DEF Emitted
  <2>2. ASSUME NEW k \in Keys, in.emits[k] > 0
        PROVE  Key(k, <<>>) \in DOMAIN loaded
    <3>1. 0 \in 0..in.emits[k] - 1
      BY <1>1, <2>2, MeguroAssumption
    <3> QED
      BY <1>2, <1>5, <3>1
  <2>3. ASSUME NEW k \in in.sets PROVE Key(k, <<>>) \in DOMAIN loaded
    BY <1>3, <1>5
  <2> QED
    BY <1>5, <2>1, <2>2, <2>3 DEF Emitted
<1>8. ASSUME NEW k \in Keys, in.emits[k] > 0
      PROVE  loaded[Key(k, <<>>)] = in.emits[k] - 1
  <2> DEFINE root == Key(k, <<>>)
  <2>1. in.emits[k] - 1 \in 0..in.emits[k] - 1 /\ in.emits[k] - 1 \in Nat
    BY <1>1, <1>8, MeguroAssumption
  <2>2. in.emits[k] - 1 \in found(root) /\ root \in DOMAIN loaded
    BY <1>2, <1>5, <2>1
  <2>3. found(root) \subseteq 0..in.emits[k] - 1
    <3> SUFFICES ASSUME NEW key \in keys, RootOf(key) = root
                 PROVE  ParsedCount(key) \in 0..in.emits[k] - 1
      OBVIOUS
    <3>1. 0 \in 0..in.emits[k] - 1
      BY <2>1
    <3> QED
      BY <1>4, <3>1, KeyParts
  <2> HIDE DEF found, root
  <2>4. Max(found(root)) = in.emits[k] - 1
    <3>1. found(root) \subseteq Int /\ \A n \in found(root) : in.emits[k] - 1 >= n
      BY <2>1, <2>3
    <3> QED
      BY <2>2, <3>1, MaxIs
  <2> QED
    BY <1>6, <2>2, <2>4 DEF root
<1>9. ASSUME NEW k \in in.sets, in.emits[k] = 0
      PROVE  loaded[Key(k, <<>>)] = 0
  <2> DEFINE root == Key(k, <<>>)
  <2>1. 0 \in found(root) /\ root \in DOMAIN loaded
    BY <1>3, <1>5
  <2>2. found(root) \subseteq {0}
    <3> SUFFICES ASSUME NEW key \in keys, RootOf(key) = root
                 PROVE  ParsedCount(key) = 0
      OBVIOUS
    <3>1. \A l \in Keys : in.emits[l] > 0 => l # k
      BY <1>9
    <3> QED
      BY <1>4, <3>1, KeyParts
  <2> HIDE DEF found, root
  <2>3. Max(found(root)) = 0
    <3>1. found(root) \subseteq Int /\ \A n \in found(root) : 0 >= n
      BY <2>2
    <3> QED
      BY <2>1, <3>1, MaxIs
  <2> QED
    BY <1>6, <2>1, <2>3 DEF root
<1> QED
  BY <1>7, <1>8, <1>9 DEF keys

------------------------------------------------------------------------------
\* The list that holds this value under every number up to this count.
Copies(count, value) == [n \in 0..count |-> value]

\* The value list of a key all of whose values are there.
LEMMA FullList ==
  ASSUME NEW data, NEW key, NEW count \in Nat, NEW number,
         \A n \in 0..count : /\ GenerateShadowKey(key, n) \in DOMAIN data
                             /\ data[GenerateShadowKey(key, n)] = number
  PROVE  ValueList(data, key, count) = Copies(count, number)
<1>1. {n \in 0..count : GenerateShadowKey(key, n) \in DOMAIN data} = 0..count
  OBVIOUS
<1> QED
  BY <1>1 DEF ValueList, Copies

\* After the map phase all that is to be made is made.
LEMMA AllMade ==
  ASSUME ShapeInv, todo = NoInput
  PROVE  Made = input.emits
<1>1. input.emits \in [Keys -> 0..CountMod - 1]
  BY DEF ShapeInv, InputType
<1>2. \A k \in Keys : input.emits[k] - 0 = input.emits[k]
  BY <1>1, MeguroAssumption
<1> QED
  BY <1>1, <1>2 DEF NoInput, Made

LEMMA RunReduced == ResultsInv => ReducesThisRun
<1> SUFFICES ASSUME ResultsInv, status = "done", ~env.just_reduce, ~env.optimize_bucket_count,
                    do_reduce
             PROVE  ReducesThisRun
  BY DEF ReducesThisRun
<1> DEFINE data == disk["map.out"].data
           out == disk["reduce.out"].data
<1>1. Made = input.emits /\ Counted
  BY AllMade DEF ResultsInv, StageInv, Counted
<1>2. counts = CountsOf(input.emits)
  BY <1>1 DEF ResultsInv, EmittedInv
<1>3. \A k \in Keys : \A n \in 0..input.emits[k] - 1 :
        /\ GenerateShadowKey(Key(k, <<>>), n) \in DOMAIN data
        /\ data[GenerateShadowKey(Key(k, <<>>), n)] = run
  BY <1>1 DEF ResultsInv, EmittedInv
<1>4. \A k \in Keys : input.emits[k] \in Nat
  BY MeguroAssumption DEF ResultsInv, ShapeInv, InputType
<1>5. /\ \A key \in DOMAIN counts : /\ key \in DOMAIN out
                                    /\ out[key] = ValueList(data, key, counts[key])
      /\ ~env.incremental_reduce => DOMAIN out = DOMAIN counts
  BY DEF ResultsInv, ReducedInv
<1>6. DOMAIN counts = Emitted(input)
  BY <1>2 DEF CountsOf, Emitted
<1> HIDE DEF data, out
<1>7. ASSUME NEW key \in Emitted(input)
      PROVE  key \in DOMAIN out /\ out[key] = ValuesOf(input, run, key)
  <2>1. PICK k \in Keys : key = Key(k, <<>>) /\ input.emits[k] > 0
    BY <1>7 DEF Emitted
  <2>2. key.name = k
    BY <2>1, KeyParts
  <2>3. counts[key] = input.emits[k] - 1
    BY <1>2, <1>6, <2>2 DEF CountsOf
  <2>4. input.emits[k] - 1 \in Nat
    BY <1>4, <2>1
  <2>5. ValueList(data, key, input.emits[k] - 1) = Copies(input.emits[k] - 1, run)
    BY <1>3, <2>1, <2>4, FullList
  <2>6. out[key] = [n \in 0..input.emits[k] - 1 |-> run]
    BY <1>5, <1>6, <2>3, <2>5 DEF Copies
  <2> QED
    BY <1>5, <1>6, <2>2, <2>6 DEF ValuesOf
<1> QED
  BY <1>5, <1>6, <1>7 DEF ReducesThisRun, out

LEMMA SkipMapReduced == ResultsInv => SkipMapSame
<1> SUFFICES ASSUME ResultsInv, status = "done", env.just_reduce, mapped # NoMap
             PROVE  SkipMapSame
  BY DEF SkipMapSame
<1> DEFINE data == disk["map.out"].data
           out == disk["reduce.out"].data
           in == mapped.input
           only == {Key(k, <<>>) : k \in in.sets} \ Emitted(in)
<1>1. in \in InputType
  BY DEF ResultsInv, ShapeInv
<1>2. data = [key \in KeysOf(in.emits, in.sets) |-> mapped.run]
  BY DEF ResultsInv, MappedInv
<1>3. counts = LoadedCounts(DOMAIN data) /\ DOMAIN data = KeysOf(in.emits, in.sets)
  BY <1>2 DEF ResultsInv, LoadInv
<1>4. \A key \in DOMAIN counts : /\ key \in DOMAIN out
                                 /\ out[key] = ValueList(data, key, counts[key])
  BY DEF ResultsInv, ReducedInv, StageInv
<1>5. in.sets \subseteq Keys /\ \A k \in Keys : in.emits[k] \in 0..CountMod - 1
  BY <1>1 DEF InputType
<1>6. \A key \in KeysOf(in.emits, in.sets) : key \in DOMAIN data /\ data[key] = mapped.run
  BY <1>2
<1> HIDE DEF data, out, in
<1>7. DOMAIN counts = Emitted(in) \cup {Key(k, <<>>) : k \in in.sets}
  BY <1>1, <1>3, LoadedFrom
<1>8. ASSUME NEW key \in Emitted(in)
      PROVE  out[key] = ValuesOf(in, mapped.run, key)
  <2>1. PICK k \in Keys : key = Key(k, <<>>) /\ in.emits[k] > 0
    BY <1>8 DEF Emitted
  <2>2. key.name = k
    BY <2>1, KeyParts
  <2>3. counts[key] = in.emits[k] - 1 /\ key \in DOMAIN counts
    BY <1>1, <1>3, <1>7, <2>1, LoadedFrom
  <2>4. in.emits[k] - 1 \in Nat
    BY <1>5, <2>1, MeguroAssumption
  <2>5. \A n \in 0..in.emits[k] - 1 : GenerateShadowKey(key, n) \in KeysOf(in.emits, in.sets)
    BY <2>1 DEF KeysOf
  <2>6. ValueList(data, key, in.emits[k] - 1) = Copies(in.emits[k] - 1, mapped.run)
    BY <1>6, <2>4, <2>5, FullList
  <2>7. out[key] = [n \in 0..in.emits[k] - 1 |-> mapped.run]
    BY <1>4, <2>3, <2>6 DEF Copies
  <2> QED
    BY <2>2, <2>7 DEF ValuesOf
<1>9. ASSUME NEW key \in only
      PROVE  out[key] = [n \in {0} |-> mapped.run]
  <2>1. PICK k \in in.sets : key = Key(k, <<>>) /\ ~(in.emits[k] > 0)
    BY <1>5, <1>9 DEF Emitted
  <2>2. in.emits[k] = 0
    BY <1>5, <2>1, MeguroAssumption
  <2>3. counts[key] = 0 /\ key \in DOMAIN counts
    BY <1>1, <1>3, <1>7, <2>1, <2>2, LoadedFrom
  <2>4. 0..0 = {0}
    OBVIOUS
  <2>5. \A n \in 0..0 : GenerateShadowKey(key, n) = key /\ key \in KeysOf(in.emits, in.sets)
    BY <2>1 DEF KeysOf, GenerateShadowKey
  <2>6. ValueList(data, key, 0) = Copies(0, mapped.run)
    BY <1>6, <2>5, FullList
  <2> QED
    BY <1>4, <2>3, <2>4, <2>6 DEF Copies
<1>10. Emitted(in) \cup only \subseteq DOMAIN out
  BY <1>4, <1>7
<1> QED
  BY <1>8, <1>9, <1>10 DEF SkipMapSame, out, in

\* reduce_master, after map_master or with -e: the reduce output of a completed
\* invocation holds the lists of the values its map function emitted, those of
\* the map phase before it, and the earlier results it was to keep.
THEOREM MeguroReducedRight == Spec => []ReducedRight
<1>1. ResultsInv => IncrementalReduceKeeps
  BY DEF ResultsInv, CarriedInv, IncrementalReduceKeeps
<1>2. ResultsInv => ReducedRight
  BY <1>1, RunReduced, SkipMapReduced DEF ReducedRight
<1> QED
  BY <1>2, ResultsInvariant, PTL

\* open_reducer_out: the open after the map phase finds what the check before it
\* found, so that the work of a map phase is not lost to a path.
THEOREM MeguroFreshReduceOpens == Spec => FreshReduceOpens
<1> DEFINE Opening == pc = "open_reduce" /\ ~env.incremental_reduce
                        /\ before["reduce.out"].access # "ro"
<1>1. ResultsInv /\ [Next]_vars => [Opening => status' # "failed"]_vars
  <2> SUFFICES ASSUME ResultsInv, [Next]_vars, Opening PROVE status' # "failed" \/ UNCHANGED vars
    OBVIOUS
  <2>1. status = "running"
    BY DEF ResultsInv, StageInv
  <2>2. CASE OpenReduce
    <3>1. \/ disk["reduce.out"].access = "rw"
          \/ disk["reduce.out"].access = "missing" /\ dirs["reduce.out"]
      BY DEF ResultsInv, AccessInv
    <3> QED
      BY <2>1, <2>2, <3>1, OpenStep DEF ResultsInv, Opens
  <2>3. CASE Crash
    BY <2>3 DEF Crash, End
  <2> QED
    BY <2>2, <2>3
    DEF Next, vars, Start, ParseOptions, CheckMapOut, CheckReduceOut, ParseJavascriptFile,
        LoadDictionary, Dispatch, Load, OpenMap, Emit, EmitNoop, Set, EndMap, Reduce, EndReduce,
        Terminated
<1> QED
  BY <1>1, ResultsInvariant, PTL DEF Spec, FreshReduceOpens

=============================================================================
