------------------------------- MODULE Meguro -------------------------------
(***************************************************************************)
(* main: one invocation of meguro after the other over the same two output *)
(* files.  An invocation checks that it may write its files, parses the    *)
(* javascript, loads the dictionary, runs the map phase or - with -e -     *)
(* rebuilds the counts from the output of an earlier map, and reduces.     *)
(* Between two steps the process may be killed; the files stay.            *)
(*                                                                         *)
(* The phases are at the grain MapPhase and ReducePhase justify: an emit,  *)
(* a set and the reduction of a key are one step each, in any order.  A    *)
(* stored value is the number of the invocation that emitted it, and a     *)
(* reduce function saves the list it is given under the key it is given.   *)
(***************************************************************************)
EXTENDS ShadowKeys

CONSTANTS
  Keys,          \* the names map emits and sets
  Environments,  \* the options an invocation may get
  Inputs,        \* what map does with an input: how often it emits, what it sets
  Functions,     \* which functions a javascript file may define
  Directories,   \* whether the directory of each file may be written
  InitialFiles,  \* the files before the first invocation
  MaxRuns,       \* bound on the invocations
  MaxCrashes     \* bound on the crashes

Files == {"map.out", "reduce.out"}

\* What meguro finds at a path.  ok: closed by its last writer.
MissingFile == [access |-> "missing", ok |-> TRUE, data |-> EmptyMap]
NewFile     == [access |-> "rw", ok |-> TRUE, data |-> EmptyMap]

ASSUME MeguroAssumption ==
  /\ CountMod \in Nat \ {0}
  /\ MaxRuns \in Nat
  /\ MaxCrashes \in Nat
  /\ Inputs \subseteq [emits : [Keys -> 0..CountMod - 1], sets : SUBSET Keys]
  /\ Environments \subseteq
       [just_reduce : BOOLEAN, incremental_map : BOOLEAN, incremental_reduce : BOOLEAN,
        optimize_bucket_count : BOOLEAN, dictionary : BOOLEAN, list : BOOLEAN]
  /\ Functions \subseteq SUBSET {"map", "reduce"}
  /\ Directories \subseteq [Files -> BOOLEAN]
  /\ \A f \in InitialFiles :
       /\ f = [access |-> f.access, ok |-> f.ok, data |-> f.data]
       /\ f.access \in {"missing", "rw", "ro"}

VARIABLES
  disk,       \* the files
  dirs,       \* the directories that may be written
  run,        \* the number of this invocation
  crashes,    \* how many were killed
  pc,         \* where main is; "idle" when meguro does not run
  status,     \* how the last invocation ended, or "running"
  env,        \* the options of this invocation
  input,      \* what its map function does
  functions,  \* the functions of its javascript
  todo,       \* what is left of the input
  counts,     \* the shadow key map
  reduced,    \* the keys of it that are reduced
  before,     \* history: the files when it was started
  mapped      \* history: the last map phase that wrote map.out from nothing

vars == <<disk, dirs, run, crashes, pc, status, env, input, functions, todo,
          counts, reduced, before, mapped>>

\* What a step between two points of main leaves alone.
runVars == <<dirs, run, crashes, env, input, before>>

NoInput == [emits |-> [k \in Keys |-> 0], sets |-> {}]
NoMap   == [run |-> 0, input |-> NoInput]

NoEnvironment ==
  [just_reduce |-> FALSE, incremental_map |-> FALSE, incremental_reduce |-> FALSE,
   optimize_bucket_count |-> FALSE, dictionary |-> FALSE, list |-> FALSE]

Init ==
  /\ disk \in [Files -> InitialFiles]
  /\ dirs \in Directories
  /\ run = 0
  /\ crashes = 0
  /\ pc = "idle"
  /\ status = "none"
  /\ env = NoEnvironment
  /\ input = NoInput
  /\ functions = {}
  /\ todo = NoInput
  /\ counts = EmptyMap
  /\ reduced = {}
  /\ before = disk
  /\ mapped = NoMap

Goto(label) == pc' = label /\ UNCHANGED status

End(how) == pc' = "idle" /\ status' = how

\* exit(-1), or an exception nobody catches.
Fail == End("failed")

------------------------------------------------------------------------------
(* Before the phases.                                                      *)

\* A user starts meguro.
Start(options, in) ==
  /\ pc = "idle"
  /\ run < MaxRuns
  /\ run' = run + 1
  /\ env' = options
  /\ input' = in
  /\ todo' = in
  /\ counts' = EmptyMap
  /\ reduced' = {}
  /\ functions' = {}
  /\ before' = disk
  /\ status' = "running"
  /\ pc' = "options"
  /\ UNCHANGED <<disk, dirs, crashes, mapped>>

\* print_input_files only reads.
PrintInputFiles == env.list /\ End("listed")

\* The loop over the options: a usage error, -l, or the rest of main.
ParseOptions ==
  /\ pc = "options"
  /\ \/ Fail
     \/ PrintInputFiles
     \/ ~env.list /\ Goto("check_map")
  /\ UNCHANGED <<disk, runVars, functions, todo, counts, reduced, mapped>>

\* Mutant of CheckWritePermissions: unlinks the file it could open.
CheckUnlinksAll(file, next) ==
  \/ /\ disk[file].access # "missing" \/ dirs[file]
     /\ disk' = [disk EXCEPT ![file] = IF dirs[file] THEN MissingFile ELSE @]
     /\ Goto(next)
  \/ /\ disk[file].access = "missing" /\ ~dirs[file]
     /\ Fail
     /\ UNCHANGED disk

\* Mutant of CheckWritePermissions: open(O_CREAT) taken for granted.
CheckAlwaysPasses(file, next) ==
  /\ Goto(next)
  /\ UNCHANGED disk

\* check_write_permissions: a file it cannot open for reading and writing is
\* opened with O_CREAT alone, that is, for reading, and unlinked.
CheckWritePermissions(file, next) ==
  \/ /\ disk[file].access = "rw"
     /\ Goto(next)
     /\ UNCHANGED disk
  \/ /\ \/ disk[file].access = "ro"
        \/ (disk[file].access = "missing" /\ dirs[file])
     /\ disk' = [disk EXCEPT ![file] = IF dirs[file] THEN MissingFile ELSE @]
     /\ Goto(next)
  \/ /\ disk[file].access = "missing" /\ ~dirs[file]
     /\ Fail
     /\ UNCHANGED disk

\* The map output is the input when just reducing; both have one path here.
CheckMapOut ==
  /\ pc = "check_map"
  /\ CheckWritePermissions("map.out", "check_reduce")
  /\ UNCHANGED <<runVars, functions, todo, counts, reduced, mapped>>

CheckReduceOut ==
  /\ pc = "check_reduce"
  /\ CheckWritePermissions("reduce.out", "parse")
  /\ UNCHANGED <<runVars, functions, todo, counts, reduced, mapped>>

\* has_map_fn and has_reduce_fn of the script.
do_map    == "map" \in functions
do_reduce == "reduce" \in functions

\* parse_javascript_file: the script is compiled and run once.
ParseJavascriptFile ==
  /\ pc = "parse"
  /\ \/ /\ functions' \in Functions
        /\ Goto("dictionary")
     \/ Fail /\ UNCHANGED functions
  /\ UNCHANGED <<disk, runVars, todo, counts, reduced, mapped>>

\* Dictionary::load returns, or throws when the file cannot be opened.
DictionaryLoad == Goto("dispatch") \/ Fail

LoadDictionary ==
  /\ pc = "dictionary"
  /\ IF env.dictionary THEN DictionaryLoad ELSE Goto("dispatch")
  /\ UNCHANGED <<disk, runVars, functions, todo, counts, reduced, mapped>>

\* Which phases to run; with -e the map function is not asked for.
Dispatch ==
  /\ pc = "dispatch"
  /\ \/ env.just_reduce /\ do_reduce /\ Goto("load")
     \/ ~env.just_reduce /\ do_map /\ Goto("open_map")
     \/ ~(IF env.just_reduce THEN do_reduce ELSE do_map) /\ Fail
  /\ UNCHANGED <<disk, runVars, functions, todo, counts, reduced, mapped>>

------------------------------------------------------------------------------
(* The files, as Tokyo Cabinet keeps them.                                 *)

Put(data, key, value) ==
  [k \in DOMAIN data \cup {key} |-> IF k = key THEN value ELSE data[k]]

\* tchdbopen for writing: HDBOCREAT and HDBOTRUNC, or neither.  A file its last
\* writer did not close may be refused, when its header does not fit its size.
OpenForWriting(file, keep, next) ==
  LET f == disk[file] IN
  \/ /\ IF keep THEN f.access = "rw"
        ELSE f.access = "rw" \/ (f.access = "missing" /\ dirs[file])
     /\ disk' = [disk EXCEPT ![file] = [IF keep THEN f ELSE NewFile EXCEPT !.ok = FALSE]]
     /\ Goto(next)
  \/ /\ \/ f.access = "ro"
        \/ (f.access = "missing" /\ (keep \/ ~dirs[file]))
        \/ keep /\ ~f.ok
     /\ Fail
     /\ UNCHANGED disk

\* tchdbclose.
Close(file) == disk' = [disk EXCEPT ![file].ok = TRUE]

------------------------------------------------------------------------------
(* The map phase, or what replaces it.                                     *)

\* ShadowKeyMap::load; the order of the keys makes no difference (ShadowKeyLoad).
Load ==
  /\ pc = "load"
  /\ LET f == disk["map.out"] IN
     \/ /\ f.access # "missing"
        /\ counts' = LoadedCounts(DOMAIN f.data)
        /\ Goto("open_reduce")
     \/ /\ f.access = "missing" \/ ~f.ok
        /\ Fail
        /\ UNCHANGED counts
  /\ UNCHANGED <<disk, runVars, functions, todo, reduced, mapped>>

\* Mutant of OpenMap: the file of an earlier map is kept.
OpenMapKeeps ==
  /\ pc = "open_map"
  /\ OpenForWriting("map.out", disk["map.out"].access = "rw", "map")
  /\ mapped' = IF pc' = "map" THEN NoMap ELSE mapped
  /\ UNCHANGED <<runVars, functions, todo, counts, reduced>>

\* Mapper::begin, until it reads the input.
OpenMap ==
  /\ pc = "open_map"
  /\ OpenForWriting("map.out", env.incremental_map, "map")
  /\ mapped' = IF pc' = "map" THEN NoMap ELSE mapped
  /\ UNCHANGED <<runVars, functions, todo, counts, reduced>>

\* Mapper::emit: count, then put; not with -o.
Emit(k) ==
  /\ pc = "map"
  /\ ~env.optimize_bucket_count
  /\ todo.emits[k] > 0
  /\ todo' = [todo EXCEPT !.emits[k] = @ - 1]
  /\ LET key == Key(k, <<>>)
         map == Increment(counts, key)
     IN  /\ counts' = map
         /\ disk' = [disk EXCEPT !["map.out"].data =
                                   Put(@, CurrentShadowKey(map, key), run)]
  /\ UNCHANGED <<runVars, pc, status, functions, reduced, mapped>>

\* Mapper::emit_noop only adds up sizes.
EmitNoop(k) ==
  /\ pc = "map"
  /\ env.optimize_bucket_count
  /\ todo.emits[k] > 0
  /\ todo' = [todo EXCEPT !.emits[k] = @ - 1]
  /\ UNCHANGED <<disk, runVars, pc, status, functions, counts, reduced, mapped>>

\* Mapper::set: also with -o.
Set(k) ==
  /\ pc = "map"
  /\ k \in todo.sets
  /\ todo' = [todo EXCEPT !.sets = @ \ {k}]
  /\ disk' = [disk EXCEPT !["map.out"].data = Put(@, Key(k, <<>>), run)]
  /\ UNCHANGED <<runVars, pc, status, functions, counts, reduced, mapped>>

\* Mapper::end, after the workers are joined; main goes on to the reduce.
EndMap ==
  /\ pc = "map"
  /\ todo = NoInput
  /\ Close("map.out")
  /\ IF do_reduce THEN Goto("open_reduce") ELSE End("done")
  /\ mapped' = IF env.optimize_bucket_count \/ env.incremental_map THEN mapped
               ELSE [run |-> run, input |-> input]
  /\ UNCHANGED <<runVars, functions, todo, counts, reduced>>

------------------------------------------------------------------------------
(* The reduce phase.                                                       *)

\* open_reducer_out: nobody catches its ReducerException.
OpenReduce ==
  /\ pc = "open_reduce"
  /\ OpenForWriting("reduce.out", env.incremental_reduce, "reduce")
  /\ UNCHANGED <<runVars, functions, todo, counts, reduced, mapped>>

\* The value list of a key: what its shadow keys hold, by their numbers.
ValueList(data, key, count) ==
  LET numbers == {n \in 0..count : GenerateShadowKey(key, n) \in DOMAIN data}
  IN  [n \in numbers |-> data[GenerateShadowKey(key, n)]]

\* One turn of the loop of Reducer::begin, reduce, and Reducer::save.
Reduce(key) ==
  /\ pc = "reduce"
  /\ key \in DOMAIN counts \ reduced
  /\ reduced' = reduced \cup {key}
  /\ LET list == ValueList(disk["map.out"].data, key, counts[key])
     IN  disk' = [disk EXCEPT !["reduce.out"].data = Put(@, key, list)]
  /\ UNCHANGED <<runVars, pc, status, functions, todo, counts, mapped>>

\* Reducer::end, and the end of main.
EndReduce ==
  /\ pc = "reduce"
  /\ reduced = DOMAIN counts
  /\ Close("reduce.out")
  /\ End("done")
  /\ UNCHANGED <<runVars, functions, todo, counts, reduced, mapped>>

------------------------------------------------------------------------------
(* The process is killed, or one of its threads terminates it.  Of a file  *)
(* that was open for writing, any part may be found again.                 *)

Open(file) == pc = (IF file = "map.out" THEN "map" ELSE "reduce")

\* What may be found of a file, closed or not.
Remains(file) ==
  LET f == disk[file] IN
  IF Open(file) THEN {[f EXCEPT !.data = [k \in kept |-> f.data[k]]] :
                        kept \in SUBSET DOMAIN f.data}
  ELSE {f}

Crash ==
  /\ pc # "idle"
  /\ crashes < MaxCrashes
  /\ crashes' = crashes + 1
  /\ End("crashed")
  /\ \E m \in Remains("map.out"), r \in Remains("reduce.out") :
       disk' = [disk EXCEPT !["map.out"] = m, !["reduce.out"] = r]
  /\ UNCHANGED <<dirs, run, env, input, functions, todo, counts, reduced, before, mapped>>

Terminated == pc = "idle" /\ run = MaxRuns /\ UNCHANGED vars

Next ==
  \/ \E options \in Environments, in \in Inputs : Start(options, in)
  \/ ParseOptions
  \/ CheckMapOut \/ CheckReduceOut
  \/ ParseJavascriptFile \/ LoadDictionary \/ Dispatch
  \/ Load
  \/ OpenMap
  \/ \E k \in Keys : Emit(k) \/ EmitNoop(k) \/ Set(k)
  \/ EndMap
  \/ OpenReduce
  \/ \E key \in DOMAIN counts : Reduce(key)
  \/ EndReduce
  \/ Crash
  \/ Terminated

Spec == Init /\ [][Next]_vars

------------------------------------------------------------------------------

Emitted(in) == {Key(k, <<>>) : k \in {k \in Keys : in.emits[k] > 0}}

\* The values an invocation emitted for a key, in a list.
ValuesOf(in, number, key) == [n \in 0..in.emits[key.name] - 1 |-> number]

\* A completed invocation that does not continue an earlier map leaves a map
\* output with every value its map function emitted and set, under its shadow
\* key, and nothing else - whatever file an earlier invocation left, completed,
\* failed or killed.
FreshMapExact ==
  status = "done" /\ ~env.just_reduce /\ ~env.incremental_map
                  /\ ~env.optimize_bucket_count =>
    LET f    == disk["map.out"]
        keys == UNION {{GenerateShadowKey(Key(k, <<>>), n) : n \in 0..input.emits[k] - 1}
                         : k \in Keys}
    IN  f.ok /\ f.data = [k \in keys \cup {Key(k, <<>>) : k \in input.sets} |-> run]

\* A completed invocation that ran both phases has reduced every key it emitted
\* with all of its own values and none of another invocation's - also when it
\* added to the map output of an earlier one or to one that a crash cut short.
ReducesThisRun ==
  status = "done" /\ ~env.just_reduce /\ ~env.optimize_bucket_count
                  /\ do_reduce =>
    /\ \A key \in Emitted(input) :
         /\ key \in DOMAIN disk["reduce.out"].data
         /\ disk["reduce.out"].data[key] = ValuesOf(input, run, key)
    /\ ~env.incremental_reduce => DOMAIN disk["reduce.out"].data = Emitted(input)

\* meguro -e reduces what the map phase before it would have reduced itself: all
\* values of every key it emitted, also when its own reduce was killed.  A key
\* that was only set is one more key, with one value.
SkipMapSame ==
  status = "done" /\ env.just_reduce /\ mapped # NoMap =>
    LET out  == disk["reduce.out"].data
        sets == {Key(k, <<>>) : k \in mapped.input.sets} \ Emitted(mapped.input)
    IN  /\ Emitted(mapped.input) \cup sets \subseteq DOMAIN out
        /\ \A key \in Emitted(mapped.input) :
             out[key] = ValuesOf(mapped.input, mapped.run, key)
        /\ \A key \in sets : out[key] = [n \in {0} |-> mapped.run]

\* --incremental-reduce keeps what it does not save anew: a completed invocation
\* leaves the result of every key it did not reduce as it found it.
IncrementalReduceKeeps ==
  LET old == before["reduce.out"].data
      new == disk["reduce.out"].data
  IN  status = "done" /\ env.incremental_reduce /\ before["reduce.out"].access = "rw" =>
        \A key \in DOMAIN old \ reduced : key \in DOMAIN new /\ new[key] = old[key]

\* What a completed invocation leaves in the reduce output: the results of the
\* values it emitted or, with -e, of those the map phase before it emitted, and
\* the earlier ones that it was to keep.
ReducedRight == ReducesThisRun /\ SkipMapSame /\ IncrementalReduceKeeps

\* A file meguro may write is lost only when the phase that writes it begins: an
\* error in the options, the javascript or the dictionary costs neither output,
\* an error or a crash in the map phase does not cost the results of the last
\* reduce, and -e never touches the map output it reads.
Kept(file) == before[file].access = "rw" => disk[file] = before[file]
OutputsKept ==
  /\ pc \in {"options", "check_map", "check_reduce", "parse", "dictionary", "dispatch",
             "load", "open_map"} => Kept("map.out") /\ Kept("reduce.out")
  /\ pc \in {"map", "open_reduce"} => Kept("reduce.out")
  /\ env.just_reduce => Kept("map.out")

\* check_write_permissions does its work where the reduce starts a new file: the
\* open after the map phase finds what the check before it found.  (A read-only
\* file in a read-only directory passes the check.)
FreshReduceOpens ==
  [][pc = "open_reduce" /\ ~env.incremental_reduce
       /\ before["reduce.out"].access # "ro" => status' # "failed"]_vars

=============================================================================
