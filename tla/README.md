# A TLA+ model of meguro

meguro runs a JavaScript `map` and `reduce` function (on SpiderMonkey) over
input files, with Tokyo Cabinet files in between and at the end.  The repository
also carries the build system that configures, builds and installs it, waf, as
Python source in `src/tools/wafadmin`.  These modules model both:

- of meguro, two phases of threads around a blocking queue, a shared counter map
  that gives every emitted value a key of its own, and the files the phases and
  the invocations hand to each other;
- of waf, the scheduler and its consumer threads, the database of signatures that
  decides what is built again, the generators that turn a script into tasks, the
  configuration, the tree of nodes and the scan of C files for headers.

Source paths below are relative to the repository; meguro itself is in its `src/`
directory, and file names of waf are relative to `src/tools/wafadmin`.

## The system: meguro

`main` (meguro.cpp) parses the options into a `MeguroEnvironment`, compiles the
script once to see which functions it has, and then runs, in one thread each
after the other: `map_master` (or, with `-e`, `ShadowKeyMap::load`) and
`reduce_master`.  A master creates `-t` worker threads and feeds them through a
`ThreadSafeQueue`.

| component | state | operations | talks to |
|---|---|---|---|
| ThreadSafeQueue | `data`, `done_`, a mutex, `cond_full`, `cond_empty` | `enqueue`, `dequeue`, `done(true)` | filled by the main thread, drained by the workers |
| Mapper, `map_master`, `threaded_map` | queue, iterator, counters, `emit_mutex_`, map output file | `begin`, `next`, `emit`, `emit_noop`, `set`, `end` | iterators, queue, ShadowKeyMap, Tokyo Cabinet; called back from JavaScript |
| ShadowKeyMap | hash from keys to counts | `increment_and_return_shadow_key`, `generate_shadow_key`, `load` | shared by all map workers under `emit_mutex_`; walked by the Reducer |
| Reducer, `reduce_master`, `threaded_reduce` | queue, reduce output file | `begin`, `next`, `save`, `end` | ShadowKeyMap, map output file; called back from JavaScript |
| LineIterator, GzipIterator | file position | `initialize`, `next` | Mapper::begin |
| Tokyo Cabinet iterators | file position | `initialize`, `next` | Mapper::begin |
| TraceMonkeyJSHandle | a SpiderMonkey runtime per thread | `map`, `reduce`, the `Meguro.*` callbacks | Mapper, Reducer, Dictionary |
| main | the options, which functions the script has | permission checks, choice of the phases | everything; the two output files outlive it |
| Dictionary | hash of a file | `load`, `get` | loaded by main before the workers start |
| Progress | a count, a percentage, a sample counter | `tick`, `absolute`, `done` | iterators, masters |
| mgutil | none | parsing and printing of sizes | main |

What is hard in it: the queue broadcasts after it has unlocked; a shadow key is
reserved under a mutex but its value is stored after the unlock; counters are
updated inside and outside of the mutex; output files are opened and closed by
the main thread while workers exist; errors are exceptions that some threads
catch and others do not, or are only printed; the file formats of one phase are
parsed again by the next; the files of one invocation are found by the next one,
also when the first was killed.

What makes each component correct:

- the queue: bounded FIFO, nothing lost or doubled, no lost wakeup, `dequeue`
  throws only when all is drained, everybody gets on;
- the map phase: every selected record reaches one worker, every emitted value
  is in the output under a number the Reducer will look for, no value replaces
  another, the file is only used while it is open, a normal end is a complete one;
- the reduce phase: every key is reduced once with its whole group, the output
  holds what was saved;
- `load`: the counts it rebuilds are those the map phase ended with;
- the iterators: the records are the lines or values of the file, each once, and
  the progress shown is that of what was read;
- main: what a completed invocation leaves is what its script and its input
  say, whatever earlier invocations left; what they left is lost to nothing but
  the phase that replaces it.

## The system: waf

`wscript` is Python that waf calls.  `waf configure` runs its `configure` on a
`ConfigurationContext`, which asks the machine for compilers and libraries and
stores an environment.  `waf build` loads that and the database of the last
build, runs the script's `build`, which declares task generators, posts them, and
hands the tasks to the scheduler; each task is asked for its signature, which
goes back to the hashes of nodes and of the headers the scanner found.

| component | state | operations | talks to |
|---|---|---|---|
| Scripting, Options | the commands left, the lock file | `configure`, `build`, `install`, `uninstall`, `clean`, `distclean`, the autoconfig check | everything |
| ConfigurationContext and the compiler tools | environments by name, tools recorded, defines, the cache files | `check_tool`, `check`, `check_cfg`, `find_program`, `setenv`, `write_config_header`, `store` | the machine, Environment |
| Environment | a table and a parent | lookup, `copy`, `append_value`, `prepend_value`, `append_unique`, `store`, `load` | everything |
| task generators and the methods of ccroot, cc, cxx, misc | the generators, tasks made, methods to run | `apply`, `post`, the methods | BuildContext, Task, Environment, one another |
| BuildContext | node signatures, task signatures, implicit dependencies, the pickled file | `load`, `save`, `compile`, `clean`, `install`, `rescan`, `flush` | nodes, tasks, the disk |
| Node | the tree, which folders were listed | `find_resource`, `find_or_declare`, `find_dir`, `ensure_dir_node_from_path`, `exclusive_build_node`, `ant_glob`, `find_iter`, the paths | BuildContext.rescan |
| Task, TaskGroup, TaskManager | groups, classes of constraints, their order, `hasrun` | `get_next_set`, `prepare`, `extract_constraints`, `runnable_status`, `post_run`, signatures, the shared cache | Runner, BuildContext |
| Runner | the queues `ready` and `out`, `count`, `frozen`, `outstanding`, `stop`, `error` | `start`, `refill_task_list`, `get_out`, the consumers' loop | TaskManager, tasks |
| preproc | the lines to do, a stack of states, the macros, the parse cache | `start`, `addlines`, `tryfind`, the directives, `eval_macro` | nodes, the compile tasks |

What is hard in it: `stop`, `error` and `hasrun` are shared without a lock
between the main thread and the consumers; the order of task classes is put
together pair by pair in the order of a hash table; a signature is only as good
as the nodes and dependencies it was computed from, and those outlive the
process; a build may be killed between a task and the save; a candidate compiler
that fails leaves what it set; some thirty methods work on one generator in an
order sorted from hints; conditions, macros and headers nest.

What makes each component correct:

- the scheduler: tasks run once, in the order asked for, never more than allowed;
  after an error no new task starts; it ends, and with everything built if
  nothing failed;
- the database: after a build that succeeded every output is what its sources,
  flags and headers say now, and nothing was made again without need;
- the commands: what is installed is what was built, a configuration is that of
  the scripts;
- the generators: every source is compiled once with the flags of what it uses,
  and linked after, with and in front of the libraries it needs;
- the configuration: the tools found are what they are taken for, what failed
  leaves no trace, what is stored is complete;
- the nodes: a lookup answers what is on the disk, or what was declared;
- the scanner: it finds the headers the compiler opens, and ends.

## The modules

### meguro

| module | models | correspondence |
|---|---|---|
| `BoundedChannel` | what the queue promises | one step per operation; `Send`, `Close`, `Receive`, `Finish` |
| `ThreadSafeQueue` | thread_safe_queue.{h,cpp} | one action per POSIX call; `pc` is the place of a thread in `enqueue`, `done` or `dequeue`; `waitFull`/`waitEmpty` are the wait sets of the condition variables; wakeups may be spurious. Implements `BoundedChannel` |
| `GroupedOutput` | what the map phase promises | a bag of stored pairs that is complete at the end |
| `ShadowKeys` | the operators of shadow_key_map.cpp | a key is the text before the first `\|m` and the numbers `atoi` reads after each `\|m` |
| `MapPhase` | mapper.cpp, `map_master`, `threaded_map` | `main` is the place of the main thread, `pc[w]` of a worker; the queue is used at the grain of `BoundedChannel`; `emit`, `emit_noop` and `set` are split at each access to shared state (`x++` is a load and a store). Implements `BoundedChannel` (as a use of the queue) and `GroupedOutput` |
| `ReducePhase` | reducer.cpp, `reduce_master`, `threaded_reduce` | as above; `Roots` is the shadow key map in list order, `MapOut` the map output. Implements `BoundedChannel` |
| `ShadowKeyLoad` | `ShadowKeyMap::load` on a map output | the iteration order of Tokyo Cabinet is any order |
| `Progress` | progress.{h,cpp} | operators: the record is the object, `Tick` the set of its possible successors |
| `Iterators` | the four iterators | `initialize` and `next`; `Chunk` is `fgets` or `gzgets`, the loop's passes are actions; a `Progress` counts along; `ReadFails` turns every later read into an end |
| `Meguro` | `main`, `map_master`, `reduce_master`, `check_write_permissions`, the opening and closing of the outputs | several invocations over one `disk`; `pc` is the place of main; an emit, a set, a reduction is one step each |

The JavaScript functions are inputs: `Calls` says which emits and sets `map`
makes for a record before it returns or throws, `SavesOf` under which keys
`reduce` saves.  The value `reduce` saves stands for the list of values it was
given.  Threads run map or reduce calls at any pace: one action per callback.

Failures are part of the models where the code meets them: `Faults` lists the
calls that may fail (thread creation, script handle, opening, storing, closing,
string allocation), and each failure does what the code does - print and go on,
`exit(-1)`, or an exception nobody catches (`Abort`).  Joining the uninitialized
`tid` of a thread that could not be created may go well or crash.

`Meguro` composes what the other modules justify: that an emit or a set can be
one step is `Implements` (`ImplementsGrouped`) of `MapPhase`, that a reduction can be one is
`WholeGroups` in `ReduceInv` of `ReducePhase`, that load can ignore the order is
`LoadRestoresCounts`.  It shares the operators of `ShadowKeys` with them.  What it adds is the files:
`check_write_permissions` creates and unlinks, the phases truncate or continue,
a crash leaves any part of the records of the file that was open, and a file
nobody closed may be opened or refused by the next invocation.  A stored value
is the number of the invocation that emitted it, which is what tells stale
values from new ones.

### waf

| module | models | correspondence |
|---|---|---|
| `TaskOrder` | Task.py: `TaskGroup` and the constraints of tasks | operators on a group: `ExtractConstraints` gives the pairs in `cstr_order`, `Unconnected`, `Remainder` and `TasksByMaxJobs` what the methods that hand out tasks take and keep; a group keeps its classes in the order of a hash table, and a list of them is given by that order (`Listed`) |
| `Runner` | Runner.py, TaskManager, `runnable_status`, `post_run` | `main` is the place of `Parallel.start`, `pc[c]` of a consumer; Python's queues are atomic, the plain attributes are read and written one at a time |
| `MeguroTasks` | the task graph of `wscript` | a project for `Runner` |
| `BuildContext` | Build.py and Task.py: nodes, signatures, dependencies, `rescan` | operators on a record `ctx`; a digest is what was hashed; a source node is a name and a count of the nodes made for it |
| `Waf` | Scripting.py, Build.py, Configure.py's `store`, Task.py's cache | `pc` is the place in the command, `p` what the process holds; the user edits and faults strike between any two steps |
| `Environment` | Environment.py | an environment is the sequence of its tables, its own first |
| `MethodOrder` | the sort in `task_gen.apply` | `Pop` is one pass of the loop; the first list is in any order |
| `TaskGen` | TaskGen.py, Tools/ccroot.py, cc.py, cxx.py, misc.py | one action per method; `stack` holds the generators being posted, each with the methods still to run |
| `CompilerTools` | the compiler tools | a rule is an operator: what it sets, and whether it raises |
| `Configure` | Configure.py, Tools/config_c.py | one action per method of the context, `check_tool` split by candidate and rule; a test works in a copy of the environment |
| `NodeTree` | Node.py and what `rescan` does to nodes | a node is its path; a lookup answers in one step, as one thread calls it; the disk changes between |
| `PreprocTokens` | Tools/preproc.py: macros and expressions | `reduce_tokens`, `get_term`, `get_num`; an exception is the value `Failed` |
| `Preproc` | `c_parser` of Tools/preproc.py | an action per kind of line; `lines` are those still to do, `state` the stack |
| `CPreprocessor` | what a C compiler reads | the reference `Preproc` is compared with |

The machine a configuration runs on is an input: which programs there are, what
each really is, what libraries link.  The commands of tasks are too: a run may
succeed, fail, raise or leave out an output.

`MC*` modules hold the instances.  `MCReaders` and `MCProject` put modules that
share no state side by side: each behaviour is one of one part, the others stand
still.  `Runner` and `Waf` are two views of one build: `Waf` runs tasks one at a
time in the order of their dependencies, which `PredecessorsFirst` of `MeguroTasks`
justifies.  `Waf` takes the dependencies of a compilation from the contents of
the files, which `HeadersExact` of the scanner justifies.  `TaskGen` runs the
methods in every order the table allows, which `MethodsSorted` of `MethodOrder`
justifies, and `SortedInOrder` checks.

An operator whose comment calls it a mutant is a plausible slip of the code in the
definition that it stands before; no specification uses it.  Put in place of that
definition it makes the property fail that PROJECT.json pairs it with, which
shows that the property depends on that part of the code.

## The runs

| run | module | instance | shows |
|---|---|---|---|
| `Queue` | MCThreadSafeQueue | 3 workers, 4 values, capacity 2, 1 spurious wakeup | no lost wakeup; refinement of the channel, and of the channel with its fairness, in which every value arrives and everyone ends |
| `Map` | MCMapPhase | 2 workers, 3 files (one does not open), 5 records, 5 calls, queue of 1, all options, all faults | the safety of emit and set, exact set total, refinement of channel and grouped output, the phase ends |
| `Reduce` | MCReducePhase | 2 workers, 3 keys with 6 values, queue of 1, cap 0 and 1, all faults | whole groups, right output, refinement of the channel, the phase ends |
| `Readers` | MCReaders | every text of up to 7 bytes, reads of 3; every record file of up to 3; a read error at any point; map outputs of 2 emitted keys with up to 4 values and 2 set keys, in every order; of MCPreproc, chains of operators, nestings of conditions, searches in directories | terminated lines come out whole, the progress is exact, everything is read; load restores the counts; waf's scan finds what the compiler opens, and ends |
| `Meguro` | MCMeguro | 3 invocations, 2 crashes, 2 keys, 2 inputs, 9 option sets, 3 scripts, files missing, old or read-only, 3 cases of directory permissions | what an invocation leaves, and keeps, after any others |
| `Scheduler` | MCRunner | 21 projects of up to 7 tasks, 2 consumers, the 3 algorithms, with and without `-k` | order, limits, failure, accounting, termination |
| `Build` | MCWaf | 3 sources, a generated header, 2 tasks; plain, WAFCACHE and autoconfig; any number of commands; 2 edits, 1 fault | what was built is current, installed, and no more than needed |
| `Project` | MCProject | configure on 3 sets of machines; 6 projects of generators; all tables of 3 decorators over 4 methods; 3 calls to a tree on 3 disks that change once | what the scripts' calls leave |
| `MapIncremental` | MCMapPhase | 1 worker, an earlier output with the same key | *violates* `EmittedValuesStay` |
| `SchedulerMissing` | MCRunner | 2 tasks, one waits for the other, `-k` | *violates* `KeepGoesOn` |
| `BuildFolderRemoved` | MCWaf | the `Build` program, the user removes the build folder and edits a header | *violates* `BuildCorrect` |
| `BuildNewInclude` | MCWaf | the `Build` program; the edited source names a header it did not name, and that header is edited | *violates* `BuildCorrect` |

### Why the bounds are enough

*meguro.*  Two workers suffice for every race on `emit_mutex_`,
on the counters and on a shadow key, as all of them are pairwise; the queue has
a third, so that one broadcast wakes more threads than there are values.  A
capacity below the number of values makes the main thread wait; one below the
number of workers makes the workers wait.  Three values per key are enough to
have a first, a middle and a last number.  Seven bytes in reads of three hold a
line of three reads, lines that fill a read exactly, and empty lines.  Three
invocations are a map, one that is killed or fails, and one that meets what
both left; the second crash lets two in a row be killed.  The option sets hold
each option that concerns a file alone, and the two pairs that go together; the
inputs differ in how often they emit a key, so that a short group is told from
a stale one, and one sets a key the other emits.
`CountMod` stands for 2^32 and is not reached: a wrap needs 2^32 emits of a key.

*waf.*  Two consumers race for one task and over one flag; the main thread is the
third actor.  `MAXJOBS` is above the number of tasks except where a class has its
own limit, and `GAP` is 0 instead of 20, so that the main thread holds tasks back
with a handful of them.  The projects hold each way to order two tasks (extensions,
`before`, `after`, `run_after`, the outputs of `file_deps`), a group that follows
another, tasks that create tasks, constraints that go round in a circle, and
meguro's own graph.  In `Build` a header that includes another and then does not
is the smallest case of a dependency that appears or goes.  The source is edited too,
but keeps its includes: `BuildCorrect` holds only of projects whose compiled sources
keep theirs, and `BuildNewInclude` is the other case.  Two edits allow one before and
one after a build that failed or was killed.  `MaxFaults` is 1; with 2 `BuildCorrect` is
violated in one way, by two kills of which the first hits a configuration (see the faults
below), and the proof of `BuildTheorem` covers any number of the others.
`MaxVersion` is the greatest content of a file.  In `Project` every compiler
candidate is found or missing, right or an impostor; the generators' projects have
a diamond of libraries, a program and its own library, objects, a sequence and a
command that runs what is declared after it; `MaxCalls` is 3 because the faults
the tree can have need a lookup, a change of the disk and a lookup; a change
after the last call would not be seen.  In the scan of `Readers` chains of three
operators are where precedence begins to matter, and `FileLimit` bounds the
headers in work at 9, more than any of its programs reaches.

### Deadlock

Deadlock is checked in all runs but `Project`, whose system stops when the script,
the generators, the sort or the calls are through; that it does not stop before is
`AllPosted` in `PostedOnce` for the generators.  In `Readers` a scan may stand still
only when no source is left or the next one cannot be read (`ScanEnds`).  In meguro's models `Terminated` says when a
system may stand still: at the end, after an abort, and in `Starved` - no thread could be created
and the main thread waits for room in the queue, where the program hangs.

### Fairness

Fairness is weak fairness of each thread's program: the operating system
schedules every runnable thread, JavaScript functions return and the commands of
tasks end.  No strong fairness is needed for the mutexes, since each is locked a
bounded number of times in a run.  Spurious wakeups are not fair and bounded.
`Runner` has it for the main thread and for each consumer; `Project` for the one
thread that posts the generators; `Readers` for the iterator.

### The properties

A run's property is either one claim or a conjunction of named claims about one
subject, so that a run asks few questions and the modules still name each claim.
The type invariants are conjuncts of this kind (`PhaseInv`, `ReduceInv`,
`SchedulerInv`, `WafInv`, `ScanInv`, `CompiledOnce`, `CompilerSound`, `TreeFaithful`).

Of meguro's threads:

- `NoLostWakeup`, `ImplementsChannel`, `ImplementsFairChannel`: the queue.  That it is
  FIFO, within its capacity and drained when `dequeue` throws is what the channel is
  and what `ThreadSafeQueue_proofs` proves of it directly;
- `PhaseInv` (`PutWhileOpen`: nothing is stored in a closed file; `TotalsAtExit`),
  `EveryNumberHasItsEmit`, `Implements` (the channel and the grouped output),
  `CompletesOrStops`: the map phase;
- `ReduceInv` (`WholeGroups`: a key is reduced with all its values;
  `ReduceWhileOpen`), `OutputAtExit`, `ReduceCompletes` (the channel, and an end):
  the reduce phase;
- `ReadingExact` (`TerminatedLinesExact`, `ProgressExact`), `ReadsAll`: the readers;
  `LoadRestoresCounts`: load.

Of `Meguro`:

- `FreshMapExact`: without `--incremental-map` the map output of a completed
  invocation is exactly what its map emitted and set;
- `ReducedRight`: a completed invocation has reduced its own values, all and
  only them, also when it added to the file of another (`ReducesThisRun`); `-e`
  reduces what the map before it would have reduced itself (`SkipMapSame`);
  `--incremental-reduce` keeps the results it does not save anew
  (`IncrementalReduceKeeps`);
- `OutputsKept`: a file is lost only when the phase that writes it begins;
- `FreshReduceOpens`: where the reduce starts a new file, the permission check
  of the beginning has found what the open after the map finds.

Of the scheduler:

- `CountIsInFlight`, `NothingLeftBehind` and `OnePlace` in `SchedulerInv`: the
  accounting, whoever sets `stop` in between;
- `PredecessorsFirst` (`OrderRespected`, `WritersFirst`, `HeadersFirst`): nobody runs
  before what it needs;
- `FailureStops`, `CompleteWhenBuilt`, `JobLimit` in `SchedulerInv`, `Termination`: what
  an error, a success and a limit mean, and that there is an end.

Of the database and the commands:

- `BuildCorrect`: after a successful build every output is what a build from
  nothing would make; `NoNeedlessRun`: no task runs again to make what its last complete run made;
  `InstalledIsBuilt`: what is installed is what was built;
- `WafInv`: with autoconfig a build has the configuration of the scripts as they are
  (`AutoconfigFresh`).

Of `Project`:

- `LinkLine` (`LinkInputs`, `LinkAfterLibs`), `CompiledOnce` (`CompileFlags`,
  `TasksOnce`, `InstalledOnce`), `GeneratorsOrdered` (`SequenceKept`,
  `CommandAfterDeps`), `PostedOnce` (`PostedIsFinal`, `AllPosted`): the tasks of
  generators that use one another, in whatever order the methods came;
  `SortedInOrder`: that order;
- `CompilerSound` (`CompilerIsWhatItSays`, `LinkFlagsOfOne`, `ToolsRecorded`): the
  candidate that is chosen; `ResultsTrue` (`DefinesTrue`, `FlagsFound`, and of the
  environments `VariantsApart`, `StoredIsComplete`), `FailedTestLeavesNoTrace`: what the
  tests found;
- `TreeFaithful` (`PathsLead`, `ResourceExact`, `DeclaredFound`, `GlobExact`,
  `IterExact`): what the tree of nodes answers.

Of the scan, against the compiler: `HeadersExact` (no header missed, none taken that
the compiler does not open), `NestingKept` in `ScanInv`, `ScanAdvances`.

## Findings

Each is a run that TLC finds violated by what the code does.

- `MapIncremental`: `--incremental-map` starts to number at 0 again and
  overwrites earlier values (mapper.cpp:85).
- `SchedulerMissing`: `post_run` assigns `has_run` for a missing output
  (Task.py:659); with `-k` the task that must run after it is asked for its
  status for ever.
- `BuildFolderRemoved`: `rescan` deletes the nodes of existing sources when the
  folder in the build directory cannot be listed (Build.py:521); the saved implicit dependencies keep
  an old node, and a header edited later is not noticed.
- `BuildNewInclude`: the digest of the implicit dependencies does not cover the
  source they come from, against Task.py:871.  A source edited to name one more
  header is compiled again but not scanned again, as none of the headers in the
  old list has changed (Task.py:851): when the new header is edited next, the
  object is not made again.  A header that is edited is scanned again.

### Faults of meguro without a run of their own

The models carry them, or their instances avoid them:

- `-c N` passes N + 1 values: the cap is compared with the number of the last
  value (reducer.cpp:65); `WholeGroups` takes the cap as the code does.
- `threaded_reduce` does not catch the exception for a string that cannot be
  allocated (meguro.cpp:364): `Reduce` has the abort.
- `--incremental-reduce` without a file fails only after the whole map, and the
  permission check of the beginning unlinks a file it may only read
  (meguro.cpp:434, 433); `-o` empties the output of an earlier
  invocation (mapper.cpp:88).  `OutputsKept` and `FreshReduceOpens` exclude these.
- `emit_count_++` is outside the mutex (mapper.cpp:168): the printed total may
  be short.  `TotalsAtExit` asks for an upper bound only.
- An emitted key that contains `|m` collides with a shadow key or is cut by
  `load` (shadow_key_map.cpp:48 and 157).  The runs and `LoadIsExact` are about
  plain keys; `ShadowKeys` has the code's behaviour for all.
- A last line without a newline is put into an allocation without room for a
  terminator (line_iterator.cpp:55 and 64).  `ReadUnterminated` hands it out
  with what may follow, and `TerminatedLinesExact` allows that for this line only.
- `tick` divides by the size of a pipe, 0 (progress.cpp:31).  `ProgressExact`
  exempts pipes.
- A map output that is also an input file is truncated before it is read
  (mapper.cpp:101).  The inputs of the models are other files.

### Faults of waf without a run of their own

The scheduler.  A consumer sets `stop` before `error`, without a lock
(Runner.py:156): the main thread may leave with the error not yet set.  A
`run_after` that goes round in a circle, or one on a task held back under
JOBCONTROL, is asked for ever.  Without `-k` a task that runs after a failed one
may still run.  `SystemExit` in a consumer ends its thread and the main thread
waits.  Task.py:163's promise on groups is broken by `more_tasks`.
`post_run` of `update_outputs` (Task.py:1033) has no effect.

The database.  A failed or unexecuted task is handed to the installer like any
other, so a missing output removes the installed target and raises, and nothing
is saved.  With WAFCACHE a retrieved file keeps its old time and an install with
the same size is skipped, against Build.py:738; `InstalledIsBuilt` leaves WAFCACHE
out.  The cache's signature has neither class nor path; an edit between the hash
and the compilation poisons it.  The environment is written before the lock file
(`store` of Configure.py), so a configuration killed in between leaves an
environment cut short beside the old lock file, and the next build takes it: what that
build compiles before it is killed too, without saving, stays when the next
configuration writes the old environment again, whose signature is the one the database
has.  The outputs made with the wrong flags are skipped as up to date.  `Build.save` unlinks before it renames: a crash
between them loses the database, which costs time only.

The generators.  `seq` with a generator already posted returns before
`bld.prev = self` (TaskGen.py:563).  Circles of `uselib_local` recurse and circles of
`add_objects` loop without end.  A diamond of static libraries is linked in the
order of the visit, which may put a library in front of its user.  `-Wl,-rpath`
flags get an empty entry when `add_extra_flags` comes after `default_cc`.  The
instances have no circles, and `LinkAfterLibs` has one path only to a static library.

The configuration.  A failed candidate leaves `env['CXX']`, so that the later
candidates test the wrong program (compiler_cc.py:37): `CompilerIsWhatItSays` has
the exact condition.  `sunc++` and `xlc` accept any program.  LINKFLAGS of the
process are only read by the C compilers.  `check(lib=..., define_name=...)`
never sets the define.  A version check of `check_cfg` that succeeds returns ''.
A copied environment shares the table of defines with its parent.  The header and
the cache are written in place.

The nodes.  `exclusive_build_node` with one name does not list its folder, and the
first look at it afterwards may delete the node (Node.py:305): `DeclaredFound` has
the exact condition.  `find_or_declare` before `find_resource` hides a source file.
`**/**` raises.  `ensure_dir_node_from_path` through a file raises.

The scanner.  It differs from a compiler in these, and the reference compiler of
the run flags them: `0 ||` is false where the 0 is a plain literal at the start, `&&` drops an
`||` after it, three operators that each bind tighter misgroup, `& ^ |` are one
level, `/` and `%` round down, `~` and `?` raise, the bodies of macros without
parameters are not looked at again, after an error in `#elif` the `#else` is
taken, `#include MACRO` with `<x>` raises, `<x>` is looked for in the current
directory first, `#pragma once` bans by name, a header that cannot be read leaves
its directory on the stack, and the parse cache is never renewed.

## What is proved

`ThreadSafeQueue_proofs`, for any set of workers, any input, capacity and number
of spurious wakeups, from `QueueAssumption` alone:

- `QueueInvariant`: `IInv` is inductive.  The properties alone are not: that
  a worker's pop and throw are right needs that the tests are still true, that
  is, that whoever is between lock and unlock owns the mutex (`OwnerIsCritical`);
  that a broadcast reaches the sleepers needs that who is in a wait set is in
  `pthread_cond_wait` (`AsleepInWait`); that a thrown exception means drained
  needs where the Master is in its program (`MasterProgress`).
- `QueueFifoExactlyOnce`, `QueueWithinCapacity`, `QueueEndedMeansDrained`,
  `QueueNoLostWakeup` follow.
- `QueueImplementsChannel`: every step is a step of `BoundedChannel` or leaves
  its variables alone.

`Readers_proofs`, about `ShadowKeyLoad`, for any keys without separator (`AllPlain`), any counts
below `CountMod` and any order of the iteration:

- `LoadInvariant`: the map holds exactly the roots of the keys seen, each with the
  greatest count seen, which is what makes the order irrelevant;
- `LoadIsExact`: after load the counts are those of the map phase;
- `LoadFindsGreatest`: the same for keys that hold separators, as `load` cuts them
  (`AllKeys` asks only that they have the form of a key): each root gets the greatest
  count of its shadow keys in the file.

and about `Iterators`, for any file of any length, any `BufferSize` of at least two, and
reads that fail at any point:

- `ReadingTheorem` (`ReadingExact`): every line of a text that was read comes out whole
  and in its place, however it falls on the buffer, with something behind it only where
  the file or the reading ends within it; the console counts every byte or record once
  and shows no more than was read.  The properties say nothing of the half-read line:
  the invariant adds that `full_line` holds what follows the last newline (`RestFrom`),
  that the line that ends at the k-th newline is the k-th value (`LineOut`), and that
  the percentage kept for later is not ahead either (`CountInv`: without `verbose_` it
  is what the next `tick` may show).  `LinesOf` numbers the stops of the lines by how
  many lie before each; that there is a line for every number is the pigeonhole
  principle (`RankOnto`).

`MapPhase_proofs`, for any set of workers, any input files, any map function and any
calls that fail:

- `PutWhileOpenTheorem`, without further assumptions: no worker stores into the output
  before the main thread opened it or after it closed it.  What makes it
  inductive is that nothing is enqueued before the file is open (`FreshInv`), and that
  it is closed only after every worker was joined or never started
  (`FileInv`);
- `MapInvariant`: a worker in the critical section owns `emit_mutex_` (`MutexInv`), a
  worker within `emit` runs an emit of the record it took (`JobInv`), and a
  shadow key in its hands is one that was handed out (`HandedOut`);
- `EveryNumberTheorem`: every number handed out has its value in the file or is in
  the hands of exactly one worker.

The last two are about runs in which no emitted key holds `|m` (`PlainEmits`: two
keys would share a shadow key) and no key's count reaches the end of its 32
bits (`NoWrap`: the numbers would come again).  The code prevents neither, so both
are hypotheses of the theorems and not assumptions on the constants; the instances
the runs check meet them.

- `MapUsesChannel`, without further assumptions: the iteration over the input files and
  the workers use the queue as `BoundedChannel` over the selected records
  (`ImplementsChannel`), in the order of the files and each for one worker.  The invariant
  is that what was taken and what is queued are the records of the places the iteration is
  through with, in their order (`ChannelInv`), where a place is a pair of a file and a record
  of it, and the number of a place is the number of places before it;
- `ImplementsTheorem` (`Implements`): the phase implements the channel and `GroupedOutput` - every
  `Meguro.emit` takes effect once, at its put, as one more value of the pair it emits,
  and the phase says it is complete only when the file holds every pair as often as the
  whole input emits it.  The induction needs that a number whose value is in the file was
  handed out and is in nobody's hands, so that a put never replaces a value (`KeptInv`), that a
  worker's slot is a number of the key it emits (`SlotInv`), and that the file holds each pair
  as often as the calls that are through emit it (`StoredInv`);
- `EmittedValuesTheorem` (`EmittedValuesStay`): no value of the file is replaced by an emit.

The last two suppose besides that the keys emit stores under are not used otherwise
(`KeysApart`): not by `Meguro.set`, which shares the file, and not by the file an incremental
map finds.  The instance of `Map` meets this, that of `MapIncremental` does not, and there TLC
finds the value that is replaced: the theorem says that this is the only way.

Also there, without these assumptions:

- `PhaseInvTheorem` (`PhaseInv`): the printed totals are those of the calls made.  It
  holds for any calls that have a key and a size (`ProperCalls`).  A call is known
  by its worker, its record and its place in the record's list; what makes the
  totals inductive is that a worker runs the record it dequeued last, which
  no other worker has (`LastInv`), and what the counters are half way: the number of
  calls counted so far for `set`, which counts within the mutex (`SetTotal`), and no
  more than that for `emit`, which may store what it loaded before another's
  store (`EmitTotal`, `SizeTotal`).

`ReducePhase_proofs`, for any set of workers, any shadow key map and map output, any
options, reduce function and failures, when the map is a list and each call saves
a list of keys (`ProperRoots`):

- `ReduceInvariant`: `OutputAtExit` says nothing before the end.  What makes it
  inductive is the way of every pair from the walk to the queue, to a worker and to
  its saves (`CarriedInv`); that the queue is closed after the walk, and empty
  before a worker ends (`OrderInv`); and that a key once written stays so, though
  another call may save under it again (`WrittenStays`);
- `ReduceWhileOpenTheorem` and `OutputTheorem` (`OutputAtExit`) follow;
- `WholeGroupsTheorem` (`ReduceInv`): a key is reduced with the whole list of its
  values up to the cap, in their order.  It is about what a map phase leaves:
  keys without separator, and under each no shadow key with a number above its count
  (`Numbered`); and with a cap, every number up to the count has its value, as the
  loop takes the numbers one by one and a hole would be an empty value
  (`CapsFit`).  That the phase before leaves such a file is `EveryNumberTheorem`;
- `ReduceUsesChannel`: every step is a step of `BoundedChannel` or leaves its
  variables alone.

`Meguro_proofs`, for any keys, options, inputs, scripts and files, and any number of
invocations and crashes, from `MeguroAssumption`:

- `MeguroInvariant`: `IInv` is inductive.  `OutputsKept` alone is not: that an
  invocation with `-e` keeps the map output needs that it is never at a place
  that writes it (`SkipMapSkips`), and that a write to one file leaves the
  other needs that `disk` is a function on the two paths (`FilesOnly`);
- `MeguroOutputsKept` follows;
- `ResultsInvariant`: what the files hold at every place of `main`.  The three
  properties below are about the end of an invocation only; to get there the invariant has
  which invocations come to which place (`StageInv`), what the map has put so far under
  each number and that a new file holds nothing else (`EmittedInv`, `WrittenInv`), the
  map output that a later `-e` will read (`MappedInv`), what `load` found in it (`LoadInv`), what the
  reduce has saved so far, and kept (`ReducedInv`, `CarriedInv`);
- `MeguroFreshMapExact` (`FreshMapExact`), `MeguroReducedRight` (`ReducedRight`) and the
  action property `MeguroFreshReduceOpens` (`FreshReduceOpens`) follow.

`Runner_proofs`, for any projects whose groups are lists without repetition
(`ProjectsAssumption`), any finite set of consumers, whatever the tasks do and however
the hash table lists the classes:

- `CountTheorem`: `count` is the number of tasks in the two queues and in the hands
  of the consumers.  By itself that is not inductive: that the queue `out`
  is not empty when the main thread takes from it, and that a consumer has
  one task or none, come from where each thread is;
- `LeaveTheorem`: the assertion at the end of `Parallel.start` - the main thread
  leaves with `count` at 0, or the build must stop;
- lemmas on `TaskOrder`: `ListedOnce` (`Listed` has each element of a finite set
  once, when the order is total on it), `InParallelList`, `RemainderList` and
  `JobsSorted` (what is handed out and what is kept share out the tasks there were, and what
  is handed out has the least `maxjobs` of them);
- `PlacesTheorem`: the inductive invariant `PlacesInv`.  `OnePlace` alone is not
  inductive: that the group does not hand out a task again needs which of its classes it
  still has (`GroupInv`, `SeenInv`), that a created task is not in a list already needs
  that its creator comes out once, and that the JOBCONTROL limit holds needs that the main
  thread asks for the next tasks only when all those before are done (`MainInv`,
  `JobsInv`);
- `SchedulerTheorem` (`SchedulerInv`) follows;
- `WritersTheorem` (`WritersFirst`): who reads a file waits for who writes it from
  the time its group is prepared (`WaitInv`), and what a consumer has yet to run has
  nothing to wait for (`UnrunInv`), as a status is never taken back;
- `OrderTheorem` (`OrderRespected`): the classes that a group still has are all ordered
  (`OrderInv`), so a class it hands out has no predecessor left; and what it handed out
  before is done by then;
- `FailureTheorem` (`FailureStops`): `stop` is read without a lock, between the
  test and the run of a task another consumer may set it.  It holds because a
  task's predecessors came out before it was handed out, and a failure sets
  `stop` before its task comes out (`FlagsInv`, `FineInv`): the test that follows sees it;
- `CompleteTheorem` (`CompleteWhenBuilt`): the loop is left without `stop` only when
  every group was handed out and nothing is in flight or frozen (`MainInv`), and a
  created task is in a list when its creator is done (`CreatedInv`);
- `PredecessorsTheorem` (`PredecessorsFirst`): `OrderRespected`, `WritersFirst` and
  `HeadersFirst`, which says of meguro's build that no source is compiled before `meguro_version.h` is
  written.  The `before="cc"` that was to say so is lost, and the header is there for
  another reason: nothing orders its task, so it is in the first set, and the sources wait
  for Tokyo Cabinet, which is in that set too (`HeadersInv`).

Three of them, `OrderTheorem`, `FailureTheorem` and `PredecessorsTheorem`, suppose `Consistent`:
no two classes each ask to precede the other with `before`.  Of two such classes the
one that the hash table lists first comes first, and the other's wish is not heard.
`PredecessorsTheorem` also supposes `OnlyMeguro`: a project with meguro's classes is the one
`MeguroTasks` has.  TLC evaluates both on the projects of `MCRunner`.

`Project_proofs`.  Of `MethodOrder`, for any methods and any precedence table that is
finite and repeats nothing (`TablesAssumption`):

- `SortInvariant`: half way through, the table has just the entries of the methods
  not taken yet, none of them mentions a method that was taken or is free to
  be, and nothing is taken twice;
- `MethodsSorted`: the methods come once each and in the order asked for, or
  `apply` raises, and then the order really goes round in a circle.

Of `TaskGen`, for any declarations that are `WellFormed` and any order of the methods that
the table allows:

- `GeneratorsTheorem` (`GeneratorsOrdered`): the tasks of each member of a sequence wait for
  all tasks of the member before it, and a command for all tasks of what it
  depends on.  Posting nests: a method may post other generators before its own is
  done.  The proof first says what a step may be (`StepIs`): it pushes a
  generator that nobody has started, goes on with the one on top and touches no task
  of another, or posts the one on top.  The invariant `GenInv` is kept by each of the
  three (`PushKeeps`, `GoOnKeeps`, `PostTopKeeps`): everything on the stack uses what is
  above it (`StackInv`), so nothing is posted twice; what a generator has to
  make is made already or by a method still to run (`MadeBy`), so what is posted has
  tasks to wait for (`PostedInv`); and `prev` is the last member whose place in
  the sequence is set, with the waiting set up to it (`SequenceInv`);
- `PostedFinalTheorem` (`PostedIsFinal`, the safety half of `PostedOnce`): neither a task nor
  a flag is added to a generator that has been posted.

`WellFormed` says that generators do not use each other in a circle (waf then recurses without
end), that no generator uses a member of a sequence (`sequence_order` takes the last member *posted*, so
one that is posted early is out of its place), and that a command makes nothing else
and follows generators that make something (`apply_cmd_output` waits for the tasks there
are).  TLC evaluates it, and `GenInv`, on every declaration of `MCTaskGen`; those have a
sequence, a command and generators that share libraries and objects.

Of `Configure`, for any machine, script and sequence of calls:

- `FailedTestTheorem` (`FailedTestLeavesNoTrace`): a test that fails changes no environment
  but for its own define, unless it was told to work in place.  A compiler is looked for
  and a test is run one at a time (`OneAtATime`), so a step during a test is one of the test's.

`Waf_proofs`, for any tasks whose outputs are their own (`BuildContextAssumption`,
`OutputsAssumption`), any edits, removals, kills and failures:

- `WafInvTheorem` (`WafInv`): every step of a command finds the context, the folder and
  the task it needs, and with autoconfig no task runs with what an older wscript
  configured.  For the second part the invariant has the two files of a configuration: a
  lock file is never newer than the wscript of the process that wrote it
  (`LockInv`), and the environment is written before the lock file, so it is cut short or
  at least as new (`EnvInv`);
- `InstalledTheorem` (`InstalledIsBuilt`, which leaves WAFCACHE out): an install that
  succeeds leaves every installed file with the text of the output, although
  `do_install` skips those that are not older.  What makes it inductive is that an
  installed file that is not older than the output is a copy of it (`AgeInv`), at all times
  and whatever was killed, and that the tasks the loop is through with are
  installed (`InstallingInv`).  The model keeps times as ranks and closes them up
  at every step; `Ranks` and `Ageing` prove that this keeps their order.
- `BuildTheorem` (`BuildCorrect`): after a successful build every output is what a
  build from nothing would make.  A signature is put together from signatures, a
  text from texts, and a saved database may hold signatures of any earlier moment.
  The invariant `GhostInv(K)` therefore has the pairs K of an output's signature and the text that
  was made when the output got it.  Each pair comes from one moment of the sources and of
  the environment (`PairsInv`), and nothing is edited back; so the signature that a task gets
  now is in a pair only with the text that the task would make now (`OnlyText`, by
  induction along the order of the tasks, as a least task with two texts has an
  input with two).  What the database says of a file that is there is
  in a pair with what the file has (`StoreInv`); a task of this process that is
  done is as from nothing (`SettledInv`).  The implicit dependencies of the database may
  be those of an older scan: `Explains` says which headers such a list has, and
  `SameIncludes` that it is the list of now when none of them has changed;
- `NeedTheorem` (`NoNeedlessRun`): the converse.  `NeedInv(Q)` has the pairs Q in which
  a text goes with one signature only (`SignaturesInv`, `OneSignature`), which a complete
  run leaves in the context and in the database that is saved (`LastRun`); so a task that would make
  what it made last gets the signature it got then (`SignedNow`), and `Status` skips it.

These two suppose that an edit does not change what a compiled source includes (`KeepsIncludes`;
`BuildNewInclude` shows why), that the build folder is not removed
(`BuildFolderRemoved`), that WAFCACHE is off, and that no configuration is killed between its
header and its lock file (`Kill` at `Configuring`, the fault above).  They rest on two
assumptions on the constants besides: sources and outputs are apart and finite
(`FilesAssumption`), and no task reads what a later one makes
(`OrderAssumption`, the order of the groups).  K and Q are not variables of the model:
the invariants say that such sets exist.  Before the proofs TLC checked both in a development
copy, with K as a history variable and Q computed from the texts; for Q also with two faults.

Only model-checked:

- everything under fairness (`ImplementsFairChannel`, `CompletesOrStops`,
  `ReduceCompletes`, `ReadsAll`, `Termination`): liveness is out of the prover's reach;
- `NoNeedlessRun` and `BuildCorrect` of `Waf` with WAFCACHE on, where the two theorems say nothing;
- `LinkLine` and `CompiledOnce` of `TaskGen`, which say what the methods of a generator have done
  once all of them have run, and which flags came along a chain of libraries;
- `CompilerSound` and `ResultsTrue` of `Configure`, which speak of what a chain of compilers and
  tests has left in an environment that is looked up along its parents;
- `AllPosted`, the liveness half of `PostedOnce`;
- `NodeTree` and the scanner with its reference, which have recursive operators.

## What is not modelled

Of meguro: the contents of the `Dictionary` (loaded before any worker starts, read-only
after; `Meguro` has whether and when the load succeeds), mgutil, the formatting
of numbers in `Progress`, the memory management of the engine and of the Tokyo
Cabinet iterators, the callbacks with missing arguments, the decimal length
arithmetic of `generate_shadow_key`, files with NUL bytes, the cap in `Meguro`
(it is in `ReducePhase`), the writing of files by others while meguro runs, and
what is not part of the program: `base64.cpp` (unused), `v8_js_handle.cpp` and
`iterator.cpp` (not built), uthash (vendored; a function stands for it), `deps/`.

Of waf: the tools `wscript` does not load (other languages and platforms), which
are the larger part of its lines; the helpers of Utils.py, Logs.py, pproc.py,
ansiterm.py and py3kfixes.py, which have no state of their own; `dist` and
`distcheck`; the regular expressions that cut a line into tokens; the text
format of stored environments; more than one folder of sources in `Waf` (the tree
is in `NodeTree`); a name that is a file at one time and a folder at another;
outputs of different size and clocks that go back; a file that gets an earlier
content back.

The `map` of PROJECT.json covers about a third of waf's Python and most of meguro's
own C++.

## Plan

Done so far: the queue and its proof, the two phases around it with the proofs of
the shadow keys, the totals, the groups and the output, `load` and the iterators, main with
the proofs of what an invocation leaves; waf's scheduler with the proofs
of all its safety, the database and the commands with the proofs of all theirs, the
generators with the proofs of the sort and of their orders, the configuration with
the proof about tests that fail, the nodes, the scanner.  What is left:

1. `MgUtil`: the 32 bit arithmetic of sizes against a reference; the decimal
   conversions of shadow keys.
2. `JSHandle`: the life of a handle, which callbacks are valid in which phase;
   the contents of the `Dictionary`.
