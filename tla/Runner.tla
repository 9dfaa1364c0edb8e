------------------------------- MODULE Runner -------------------------------
(***************************************************************************)
(* How waf executes the tasks of a build: the main thread (Parallel.start) *)
(* takes the tasks of one set after another from the TaskManager, asks     *)
(* each for its status and puts those that must run in the queue ready;    *)
(* the TaskConsumer threads run them and put them back in the queue out.   *)
(* The two queues are Python's Queue, whose operations are atomic; stop,   *)
(* error and hasrun are plain attributes shared without a lock.            *)
(*                                                                         *)
(* A project is a record of what does not change during a build:           *)
(*   groups   the groups of the TaskManager, each a sequence of tasks      *)
(*   cstr     the class of constraints of each task (see TaskOrder)        *)
(*   after    the tasks each task was made to run_after                    *)
(*   more     the more_tasks each task has once it was run                 *)
(*   fates    what can happen to each task: "skip", "raise_status" when    *)
(*            its status is asked; "ok", "crash", "raise", "missing" when  *)
(*            it is run                                                    *)
(*   marked   the tasks marked as run before the build starts              *)
(*   file_deps, files   which function file_deps is, and what it looks at  *)
(*   algotype, keep   Task.algotype and the option -k                      *)
(* Tasks that more_tasks names are created while the build runs, in a      *)
(* group already prepared, and are in no group here.                       *)
(***************************************************************************)
EXTENDS TaskOrder

CONSTANTS
  Tasks,      \* the tasks
  Consumers,  \* the consumer threads: numjobs is their number, 1 with -k
  GAP,        \* how many tasks more than consumers may be in flight
  Projects,   \* the projects a behaviour may build
  NoTask      \* what get_next returns when there is nothing

ASSUME RunnerAssumption ==
  /\ IsFiniteSet(Consumers) /\ Consumers # {}
  /\ NoTask \notin Tasks
  /\ GAP \in Nat /\ MAXJOBS \in Nat \ {0}

\* A project is made of lists of tasks.  add_task puts each task into one group,
\* once; a task in more_tasks was created by one task, which was not marked.
ASSUME ProjectsAssumption ==
  \A p \in Projects :
    /\ p.groups \in Seq(Seq(Tasks))
    /\ p.after \in [Tasks -> SUBSET Tasks]
    /\ p.more \in [Tasks -> Seq(Tasks)]
    /\ p.marked \subseteq Tasks
    /\ p.file_deps \in {"nada", "extract_outputs", "extract_deps"}
    /\ p.algotype \in {"NORMAL", "JOBCONTROL", "MAXPARALLEL"}
    /\ p.keep \in BOOLEAN
    /\ \A t \in Tasks : p.cstr[t].maxjobs \in 1..MAXJOBS
    /\ \A g, h \in DOMAIN p.groups : \A i \in DOMAIN p.groups[g], j \in DOMAIN p.groups[h] :
         p.groups[g][i] = p.groups[h][j] => g = h /\ i = j
    /\ \A t, u \in Tasks : \A i \in DOMAIN p.more[t], j \in DOMAIN p.more[u] :
         p.more[t][i] = p.more[u][j] => t = u /\ i = j
    /\ \A t \in Tasks, g \in DOMAIN p.groups : ToSet(p.more[t]) \cap ToSet(p.groups[g]) = {}
    /\ \A t \in p.marked : p.more[t] = <<>>

\* Projects where no two classes ask each to precede the other, as two can by
\* their before attributes: for those the classes' order is a matter of the hash
\* table, and some theorems leave them out.
Consistent ==
  \A p \in Projects : \A t, u \in Tasks :
    Compare(p.cstr[t], p.cstr[u]) > 0 => ~(Compare(p.cstr[u], p.cstr[t]) > 0)

VARIABLES
  project,
  group,      \* current_group, an index of project.groups
  prepared,   \* the group's ready flag
  keys, order,\* its cstr_groups and cstr_order
  temp_tasks, \* tasks put on hold by tasks_by_max_jobs
  inner,      \* its done flag, set by tasks_with_inner_constraints
  run_after,  \* the run_after of each task
  outstanding, frozen, ready, out, count, maxjobs, stop, error,
  tasks_done, \* the tasks add_finished has seen
  hasrun,
  main,       \* where the main thread is
  pc, tsk     \* where each consumer is, and the task it holds

groupVars == <<group, prepared, keys, order, temp_tasks, inner, run_after>>
listVars  == <<outstanding, frozen, maxjobs, tasks_done, count>>
flagVars  == <<stop, error, hasrun>>
queueVars == <<ready, out>>
consVars  == <<pc, tsk>>
vars == <<project, groupVars, listVars, flagVars, queueVars, main, consVars>>

\* Options: -k builds with one job.
Workers == IF project.keep THEN {CHOOSE c \in Consumers : TRUE} ELSE Consumers
numjobs == Cardinality(Workers)
GroupTasks == project.groups[group]

Init ==
  /\ project \in Projects
  /\ group = 1 /\ prepared = FALSE /\ inner = FALSE
  /\ keys = <<>> /\ order = {} /\ temp_tasks = <<>>
  /\ run_after = project.after
  /\ outstanding = <<>> /\ frozen = <<>> /\ ready = <<>> /\ out = <<>>
  /\ count = 0 /\ maxjobs = MAXJOBS
  /\ stop = FALSE /\ error = FALSE
  /\ tasks_done = {}
  /\ hasrun = [t \in Tasks |-> IF t \in project.marked THEN "SUCCESS" ELSE "NOT_RUN"]
  /\ main = "loop"
  /\ pc = [c \in Consumers |-> "unborn"]
  /\ tsk = [c \in Consumers |-> NoTask]

(***************************************************************************)
(* TaskGroup                                                               *)
(***************************************************************************)
\* make_cstr_groups: the classes of the group, each once.
Classes == {project.cstr[t] : t \in ToSet(GroupTasks)}

\* file_deps, nothing unless the project replaces it.
FileDeps ==
  CASE project.file_deps = "nada"            -> {}
    [] project.file_deps = "extract_outputs" -> ExtractOutputs(GroupTasks, project.files)
    [] project.file_deps = "extract_deps"    -> ExtractDeps(GroupTasks, project.files)

\* prepare: the tasks with equal constraints share a class; the hash table
\* lists the classes in any order.
Prepare ==
  /\ ~prepared
  /\ keys' \in SetToSeqs(Classes)
  /\ order' = ExtractConstraints(keys')
  /\ run_after' = [t \in Tasks |-> run_after[t] \cup {q[2] : q \in {p \in FileDeps : p[1] = t}}]
  /\ prepared' = TRUE
  /\ UNCHANGED <<group, temp_tasks, inner>>

\* tasks_in_parallel, on a prepared group: class by class in the order of the
\* hash table, those of a class in the order of the group.
Fresh == {t \in ToSet(GroupTasks) : project.cstr[t] \in Unconnected(keys, order)}
ClassByClass ==
  {q \in Fresh \X Fresh :
     \/ <<project.cstr[q[1]], project.cstr[q[2]]>> \in OrderOf(keys)
     \/ project.cstr[q[1]] = project.cstr[q[2]] /\ q \in OrderOf(GroupTasks)}
InParallel == Listed(Fresh, ClassByClass)
Circular == InParallel = <<>> /\ Remainder(keys, order) # <<>>
DropUnconnected ==
  /\ keys' = Remainder(keys, order)
  /\ order' = RemainingOrder(keys, order)

\* get_next_set: what the group hands out next, nothing when it has no more.
Held == IF temp_tasks = <<>> THEN InParallel ELSE temp_tasks
NextTasks ==
  CASE project.algotype = "NORMAL"      -> [jobs |-> MAXJOBS, now |-> InParallel, later |-> <<>>]
    [] project.algotype = "JOBCONTROL"  -> TasksByMaxJobs(Held, project.cstr)
    [] project.algotype = "MAXPARALLEL" -> [jobs |-> MAXJOBS, later |-> <<>>,
                                            now |-> IF inner THEN <<>> ELSE GroupTasks]

\* tasks_with_inner_constraints: every task of the group is made to run after
\* the tasks of the classes that precede its own.
WithInner(t) ==
  IF t \notin ToSet(GroupTasks) THEN run_after[t]
  ELSE run_after[t] \cup
         {u \in ToSet(GroupTasks) : <<project.cstr[u], project.cstr[t]>> \in order}

\* What handing them out changes in the group.
HandOut ==
  /\ temp_tasks' = NextTasks.later
  /\ IF project.algotype = "MAXPARALLEL"
     THEN /\ keys' = <<>> /\ order' = {} /\ inner' = TRUE
          /\ run_after' = [t \in Tasks |-> WithInner(t)]
     ELSE /\ IF temp_tasks = <<>> THEN DropUnconnected ELSE UNCHANGED <<keys, order>>
          /\ UNCHANGED <<inner, run_after>>

(***************************************************************************)
(* Parallel: the main thread                                               *)
(***************************************************************************)
MainGoto(from, to) == main = from /\ main' = to

\* get_out: the next task the consumers put back.
GetOut ==
  /\ out # <<>>
  /\ out' = Tail(out)
  /\ count' = count - 1
  /\ tasks_done' = tasks_done \cup {Head(out)}
  /\ UNCHANGED <<ready, maxjobs>>

\* What get_out adds to the list of tasks: nothing once the build must stop.
Extra == IF stop THEN <<>> ELSE project.more[Head(out)]

\* while not self.stop: refill_task_list ...
Loop ==
  /\ main = "loop"
  /\ main' = IF stop THEN "collect" ELSE "throttle"
  /\ UNCHANGED <<project, groupVars, listVars, flagVars, queueVars, consVars>>

\* Too many tasks are in flight.
Busy == count > numjobs + GAP \/ count >= maxjobs

Throttle ==
  /\ main = "throttle" /\ Busy
  /\ GetOut
  /\ outstanding' = outstanding \o Extra
  /\ UNCHANGED <<main, project, groupVars, frozen, flagVars, consVars>>

EndThrottle ==
  /\ MainGoto("throttle", "fill") /\ ~Busy
  /\ UNCHANGED <<project, groupVars, listVars, flagVars, queueVars, consVars>>

\* One turn of "while not self.outstanding": take one task back if any is in
\* flight; then thaw the frozen ones, or ask for the next set.
\* Mutants of FillGetOut: the next set is asked for with tasks in flight; the
\* tasks that the finished one created are lost.
FillGetOutEarly ==
  /\ main = "fill" /\ outstanding = <<>> /\ count > 0
  /\ GetOut
  /\ outstanding' = Extra \o frozen
  /\ frozen' = <<>>
  /\ main' = IF frozen = <<>> THEN "nextset" ELSE "fill"
  /\ UNCHANGED <<project, groupVars, flagVars, consVars>>
FillGetOutLosing ==
  /\ main = "fill" /\ outstanding = <<>> /\ count > 0
  /\ GetOut
  /\ outstanding' = frozen
  /\ frozen' = <<>>
  /\ main' = IF frozen = <<>> /\ count = 1 THEN "nextset" ELSE "fill"
  /\ UNCHANGED <<project, groupVars, flagVars, consVars>>
FillGetOut ==
  /\ main = "fill" /\ outstanding = <<>> /\ count > 0
  /\ GetOut
  /\ outstanding' = Extra \o frozen
  /\ frozen' = <<>>
  /\ main' = IF frozen = <<>> /\ count = 1 THEN "nextset" ELSE "fill"
  /\ UNCHANGED <<project, groupVars, flagVars, consVars>>

\* Mutant of FillIdle: the frozen tasks stay frozen.
FillIdleKeeping ==
  /\ main = "fill" /\ outstanding = <<>> /\ count = 0
  /\ main' = IF frozen = <<>> THEN "nextset" ELSE "fill"
  /\ outstanding' = frozen
  /\ UNCHANGED <<project, groupVars, frozen, maxjobs, tasks_done, count, flagVars, queueVars,
                 consVars>>
FillIdle ==
  /\ main = "fill" /\ outstanding = <<>> /\ count = 0
  /\ main' = IF frozen = <<>> THEN "nextset" ELSE "fill"
  /\ outstanding' = frozen
  /\ frozen' = <<>>
  /\ UNCHANGED <<project, groupVars, maxjobs, tasks_done, count, flagVars, queueVars, consVars>>

Filled ==
  /\ MainGoto("fill", "next") /\ outstanding # <<>>
  /\ UNCHANGED <<project, groupVars, listVars, flagVars, queueVars, consVars>>

\* TaskManager.get_next_set, one group at a time.
PrepareGroup ==
  /\ main = "nextset" /\ group <= Len(project.groups)
  /\ Prepare
  /\ UNCHANGED <<main, project, listVars, flagVars, queueVars, consVars>>

NextSet ==
  /\ main = "nextset" /\ group <= Len(project.groups) /\ prepared
  /\ NextTasks.now # <<>>
  /\ HandOut
  /\ maxjobs' = NextTasks.jobs
  /\ outstanding' = outstanding \o NextTasks.now
  /\ main' = "next"
  /\ UNCHANGED <<project, group, prepared, frozen, tasks_done, count, flagVars, queueVars,
                 consVars>>

\* The group has no more tasks: process_install, then the next group.
NextGroup ==
  /\ main = "nextset" /\ group <= Len(project.groups) /\ prepared
  /\ NextTasks.now = <<>> /\ ~Circular
  /\ group' = group + 1
  /\ prepared' = FALSE /\ inner' = FALSE /\ temp_tasks' = <<>>
  /\ keys' = <<>> /\ order' = {}
  /\ UNCHANGED <<main, project, run_after, listVars, flagVars, queueVars, consVars>>

\* WafError("circular order constraint detected"): compile saves nothing.
RaiseCircular ==
  /\ main = "nextset" /\ group <= Len(project.groups) /\ prepared
  /\ NextTasks.now = <<>> /\ Circular
  /\ main' = "raised"
  /\ UNCHANGED <<project, groupVars, listVars, flagVars, queueVars, consVars>>

NoMoreGroups ==
  /\ MainGoto("nextset", "next") /\ group > Len(project.groups)
  /\ UNCHANGED <<project, groupVars, listVars, flagVars, queueVars, consVars>>

\* get_next found nothing: after refill_task_list nothing is in flight either.
NothingLeft ==
  /\ main = "next" /\ outstanding = <<>>
  /\ main' = IF count > 0 THEN "loop" ELSE "collect"
  /\ UNCHANGED <<project, groupVars, listVars, flagVars, queueVars, consVars>>

\* The next task: it was run already, or it is asked for its status.
Take == main = "next" /\ outstanding # <<>> /\ outstanding' = Tail(outstanding)
NextTask == Head(outstanding)
MayBe(t, fate) == fate \in project.fates[t]
Waits(t) == \E u \in run_after[t] : hasrun[u] = "NOT_RUN"

\* The task ends here, without a consumer.
Finish(t) ==
  /\ tasks_done' = tasks_done \cup {t}
  /\ main' = "loop"
  /\ UNCHANGED <<project, groupVars, frozen, maxjobs, count, queueVars, consVars>>

HasRun ==
  /\ Take /\ hasrun[NextTask] # "NOT_RUN"
  /\ Finish(NextTask)
  /\ UNCHANGED flagVars

\* Computing the status raises: an input that is missing, a scanner that fails.
StatusRaises ==
  /\ Take /\ hasrun[NextTask] = "NOT_RUN" /\ MayBe(NextTask, "raise_status") /\ ~Waits(NextTask)
  /\ hasrun' = [hasrun EXCEPT ![NextTask] = "EXCEPTION"]
  /\ stop' = (stop \/ ~project.keep)
  /\ error' = TRUE
  /\ Finish(NextTask)

Skip ==
  /\ Take /\ hasrun[NextTask] = "NOT_RUN" /\ MayBe(NextTask, "skip") /\ ~Waits(NextTask)
  /\ hasrun' = [hasrun EXCEPT ![NextTask] = "SKIPPED"]
  /\ Finish(NextTask)
  /\ UNCHANGED <<stop, error>>

\* ASK_LATER: postpone puts it at either end of the frozen ones.
Postpone ==
  /\ Take /\ hasrun[NextTask] = "NOT_RUN" /\ Waits(NextTask)
  /\ frozen' \in {<<NextTask>> \o frozen, Append(frozen, NextTask)}
  /\ main' = "loop"
  /\ UNCHANGED <<project, groupVars, maxjobs, tasks_done, count, flagVars, queueVars, consVars>>

\* RUN_ME: the consumers are created with the first task there is for them.
MustRun(t) == \E f \in {"ok", "crash", "raise", "missing"} : MayBe(t, f)
\* Mutant of PutReady: the task is not counted.
PutReadyUncounted ==
  /\ Take /\ hasrun[NextTask] = "NOT_RUN" /\ ~Waits(NextTask) /\ MustRun(NextTask)
  /\ ready' = Append(ready, NextTask)
  /\ pc' = [c \in Consumers |-> IF pc[c] = "unborn" /\ c \in Workers THEN "get" ELSE pc[c]]
  /\ main' = "loop"
  /\ UNCHANGED <<project, groupVars, frozen, maxjobs, tasks_done, count, flagVars, out, tsk>>
PutReady ==
  /\ Take /\ hasrun[NextTask] = "NOT_RUN" /\ ~Waits(NextTask) /\ MustRun(NextTask)
  /\ count' = count + 1
  /\ ready' = Append(ready, NextTask)
  /\ pc' = [c \in Consumers |-> IF pc[c] = "unborn" /\ c \in Workers THEN "get" ELSE pc[c]]
  /\ main' = "loop"
  /\ UNCHANGED <<project, groupVars, frozen, maxjobs, tasks_done, flagVars, out, tsk>>

\* After the loop: "collect all the tasks after an error".
Collect ==
  /\ main = "collect" /\ error /\ count > 0
  /\ GetOut
  /\ outstanding' = outstanding \o Extra
  /\ UNCHANGED <<main, project, groupVars, frozen, flagVars, consVars>>

\* start returns; compile saves, and raises BuildError if error is set then.
Leave ==
  /\ main = "collect" /\ ~(error /\ count > 0)
  /\ main' = IF error THEN "failed" ELSE "built"
  /\ UNCHANGED <<project, groupVars, listVars, flagVars, queueVars, consVars>>

(***************************************************************************)
(* TaskConsumer.loop                                                       *)
(***************************************************************************)
ConsGoto(c, from, to) == pc[c] = from /\ pc' = [pc EXCEPT ![c] = to]
mainVars == <<project, groupVars, listVars, main>>

Get(c) ==
  /\ ConsGoto(c, "get", "check") /\ ready # <<>>
  /\ tsk' = [tsk EXCEPT ![c] = Head(ready)]
  /\ ready' = Tail(ready)
  /\ UNCHANGED <<mainVars, flagVars, out>>

\* Mutant of Check: a build that must stop runs what is in the queue.
CheckIgnoringStop(c) ==
  /\ ConsGoto(c, "check", "run")
  /\ UNCHANGED <<mainVars, flagVars, queueVars, tsk>>
\* Mutant of Check: the task is not put back.
CheckDropping(c) ==
  /\ ConsGoto(c, "check", IF stop THEN "get" ELSE "run")
  /\ tsk' = IF stop THEN [tsk EXCEPT ![c] = NoTask] ELSE tsk
  /\ UNCHANGED <<mainVars, flagVars, queueVars>>
Check(c) ==
  /\ ConsGoto(c, "check", IF stop THEN "put" ELSE "run")
  /\ UNCHANGED <<mainVars, flagVars, queueVars, tsk>>

\* Mutant of Outcome: a task that failed is left as not run.
OutcomeForgotten(fate) == IF fate = "ok" THEN "SUCCESS" ELSE "NOT_RUN"
\* hasrun after the run; a missing output leaves it as it was, for post_run
\* assigns has_run.
Outcome(fate) ==
  CASE fate = "ok"      -> "SUCCESS"
    [] fate = "crash"   -> "CRASHED"
    [] fate = "raise"   -> "EXCEPTION"
    [] fate = "missing" -> "NOT_RUN"

Run(c) ==
  pc[c] = "run" /\ \E fate \in project.fates[tsk[c]] \cap {"ok", "crash", "raise", "missing"} :
    /\ ConsGoto(c, "run", IF fate = "ok" THEN "put"
                          ELSE IF project.keep THEN "error" ELSE "stop")
    /\ hasrun' = [hasrun EXCEPT ![tsk[c]] = Outcome(fate)]
    /\ UNCHANGED <<mainVars, stop, error, queueVars, tsk>>

\* error_handler: stop, then error.
SetStop(c) ==
  /\ ConsGoto(c, "stop", "error")
  /\ stop' = TRUE
  /\ UNCHANGED <<mainVars, error, hasrun, queueVars, tsk>>

SetError(c) ==
  /\ ConsGoto(c, "error", "put")
  /\ error' = TRUE
  /\ UNCHANGED <<mainVars, stop, hasrun, queueVars, tsk>>

PutOut(c) ==
  /\ ConsGoto(c, "put", "get")
  /\ out' = Append(out, tsk[c])
  /\ tsk' = [tsk EXCEPT ![c] = NoTask]
  /\ UNCHANGED <<mainVars, flagVars, ready>>

Main ==
  \/ Loop \/ Throttle \/ EndThrottle
  \/ FillGetOut \/ FillIdle \/ Filled
  \/ PrepareGroup \/ NextSet \/ NextGroup \/ RaiseCircular \/ NoMoreGroups
  \/ NothingLeft \/ HasRun \/ StatusRaises \/ Skip \/ Postpone \/ PutReady
  \/ Collect \/ Leave

Consumer(c) ==
  Get(c) \/ Check(c) \/ Run(c) \/ SetStop(c) \/ SetError(c) \/ PutOut(c)

\* start has returned or raised; the consumers are daemon threads.
Done == main \in {"built", "failed", "raised"} /\ UNCHANGED vars

Next == Main \/ (\E c \in Consumers : Consumer(c)) \/ Done

Spec == Init /\ [][Next]_vars

\* The operating system runs every thread that can run, and a task returns.
FairSpec == Spec /\ WF_vars(Main) /\ \A c \in Consumers : WF_vars(Consumer(c))

-----------------------------------------------------------------------------
Statuses == {"NOT_RUN", "SUCCESS", "CRASHED", "EXCEPTION", "SKIPPED"}
Holding(c) == pc[c] \in {"check", "run", "stop", "error", "put"}
InFlight == {c \in Consumers : Holding(c)}

TypeOK ==
  /\ project \in Projects
  /\ group \in 1..(Len(project.groups) + 1)
  /\ {prepared, inner, stop, error} \subseteq BOOLEAN
  /\ ToSet(keys) \subseteq {project.cstr[t] : t \in Tasks}
  /\ order \subseteq ToSet(keys) \X ToSet(keys)
  /\ run_after \in [Tasks -> SUBSET Tasks]
  /\ \A s \in {temp_tasks, outstanding, frozen, ready, out} : s \in Seq(Tasks)
  /\ count \in Nat /\ maxjobs \in Nat
  /\ tasks_done \subseteq Tasks
  /\ hasrun \in [Tasks -> Statuses]
  /\ main \in {"loop", "throttle", "fill", "nextset", "next", "collect",
               "built", "failed", "raised"}
  /\ pc \in [Consumers -> {"unborn", "get", "check", "run", "stop", "error", "put"}]
  /\ tsk \in [Consumers -> Tasks \cup {NoTask}]
  /\ \A c \in Consumers : Holding(c) <=> tsk[c] # NoTask

\* count, which only the main thread writes, is what is in the two queues and
\* in the hands of the consumers: no get_out waits for a task that never comes.
CountIsInFlight == count = Len(ready) + Len(out) + Cardinality(InFlight)

\* No task is in two places, or twice in one: it is run once and installed
\* once.
Places == outstanding \o frozen \o temp_tasks \o ready \o out \o
          SetToSeq({tsk[c] : c \in InFlight})
OnePlace ==
  /\ IsInjective(Places)
  /\ \A c, d \in InFlight : tsk[c] = tsk[d] => c = d
  /\ ToSet(Places) \cap tasks_done = {}

\* What must be over before t is run: the tasks of the groups before its own,
\* and those of its group whose class precedes its class.
GroupOf(t) == CHOOSE g \in 1..Len(project.groups) : t \in ToSet(project.groups[g])
Grouped == UNION {ToSet(project.groups[g]) : g \in 1..Len(project.groups)}
Precedes(u, t) ==
  \/ GroupOf(u) < GroupOf(t)
  \/ GroupOf(u) = GroupOf(t) /\ Compare(project.cstr[u], project.cstr[t]) > 0
Running(t) == \E c \in Consumers : pc[c] = "run" /\ tsk[c] = t

\* A task is run after all the tasks that precede it were tried, and after
\* those it was made to run_after, whatever they did.
OrderRespected ==
  \A t \in Grouped : Running(t) =>
     /\ \A u \in Grouped : Precedes(u, t) => u \in tasks_done \/ hasrun[u] # "NOT_RUN"
     /\ \A u \in project.after[t] : hasrun[u] # "NOT_RUN"

\* With extract_outputs or extract_deps, what reads a file of its group runs
\* after what writes it.
WritersFirst ==
  \A t \in Grouped : Running(t) /\ project.file_deps # "nada" =>
     \A u \in Grouped :
        /\ GroupOf(u) = GroupOf(t)
        /\ project.files[u].variant = project.files[t].variant
        /\ project.files[u].outs \cap project.files[t].ins # {}
        => hasrun[u] # "NOT_RUN"

\* Without -k, a task is never run when one that precedes it has failed: the
\* consumer that failed sets stop before the task comes out, and the others
\* look at stop before they run the next one.
FailureStops ==
  \A t \in Grouped : Running(t) /\ ~project.keep /\ project.algotype # "MAXPARALLEL" =>
     \A u \in Grouped : Precedes(u, t) => hasrun[u] \in {"SUCCESS", "SKIPPED"}

\* With JOBCONTROL no more tasks are in flight than the least maxjobs of them.
JobLimit ==
  \A t \in Grouped : Running(t) /\ project.algotype = "JOBCONTROL" =>
     count <= project.cstr[t].maxjobs

\* A build that ends with success, and was not stopped, has tried every task of
\* the groups and every task created meanwhile, and none of them failed.
Created == UNION {ToSet(project.more[t]) : t \in {u \in tasks_done : hasrun[u] = "SUCCESS"}}
CompleteWhenBuilt ==
  main = "built" /\ ~stop =>
    /\ Grouped \cup Created \subseteq tasks_done
    /\ \A t \in tasks_done : hasrun[t] \in {"SUCCESS", "SKIPPED"}
    /\ count = 0

\* The assertion at the end of start, and what it is meant to say: only a
\* build that must stop leaves tasks behind, counted or not.
NothingLeftBehind ==
  main \in {"built", "failed"} =>
    stop \/ (count = 0 /\ ready = <<>> /\ out = <<>> /\ InFlight = {})

\* Every build ends.
Termination == <>(main \in {"built", "failed", "raised"})

\* What holds at every step of the scheduler: no task is in two places, and no
\* more of them are in flight than their classes allow.
SchedulerInv == TypeOK /\ OnePlace /\ JobLimit
=============================================================================
