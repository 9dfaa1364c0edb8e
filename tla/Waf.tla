-------------------------------- MODULE Waf --------------------------------
(***************************************************************************)
(* The commands of waf on one project, over many invocations: configure,   *)
(* build, install, uninstall, clean and distclean (Scripting.py), with the *)
(* files they leave behind.  The process holds a BuildContext; the disk    *)
(* holds the sources, the outputs, the pickled context (db), the           *)
(* environment and the lock file of the last configuration, the installed  *)
(* files and, if WAFCACHE is set, the shared cache.                        *)
(*                                                                         *)
(* The user edits between and during the commands, and a process may be    *)
(* killed or interrupted at any point.  Versions only grow: nothing ever   *)
(* gets an earlier content back.  A compiler that fails or is killed       *)
(* leaves no half of an output, no two outputs differ in size, and of two  *)
(* files one is older.  Tasks run one at a time: Runner.tla is about their *)
(* order.                                                                  *)
(***************************************************************************)
EXTENDS BuildContext

CONSTANTS
  CommandLines,   \* the sequences of commands the user types
  Removable,      \* the sources the user may remove
  MaxEdits,       \* bound: changes of sources, of flags and of the wscript
  MaxFaults,      \* bound: kills, failures, interrupts and removals
  Settings        \* [wafcache: is WAFCACHE set, autoconfig: does the wscript
                  \* set it, edits: what the user changes, removes: does he
                  \* remove the folder in the build directory]

VARIABLES
  \* the user's side: sources, flags for the next configure, wscript version
  src, want, script, setting,
  \* the disk; folder: has the sources' folder its like in the build directory,
  \* with all outputs but the configuration header in it
  out, folder, db, envfile, lock, cache, inst,
  \* the process; p is a record, see Idle
  pc, p, ctx,
  \* the faults so far
  faults,
  \* history: what each task was last made from, as the db and as the process
  \* know it
  saved, made

user == <<src, want, script, setting>>
configured == <<envfile, lock>>
history == <<saved, made>>
vars == <<user, out, folder, db, configured, cache, inst, pc, p, ctx, faults, history>>

None == <<>>                          \* no such file, no such thing
INSTALL == 1
UNINSTALL == 2
Env(flags, version) == [table |-> [FLAGS |-> flags, SCRIPT |-> version]]
Partial == [table |-> <<>>]           \* an environment file cut short
NothingMade == [t \in TaskIds |-> None]

Outputs(t) == Elements(Tasks[t].outputs)

\* every file is made by one task, the header by the configuration only
ASSUME OutputsAssumption ==
  /\ \A t, u \in TaskIds : t # u => Outputs(t) \cap Outputs(u) = {}
  /\ \A t \in TaskIds : CfgFile \notin Outputs(t)

Installed == UNION {Outputs(t) : t \in {u \in TaskIds : Tasks[u].install}}
Maker(o) == {t \in TaskIds : o \in Outputs(t)}
Forget(m, o) == [t \in TaskIds |-> IF t \in Maker(o) THEN None ELSE m[t]]

\* the number of edits so far: nothing is ever edited back
Now ==
  LET sum[S \in SUBSET Sources] ==
        IF S = {} THEN 0 ELSE LET f == CHOOSE x \in S : TRUE IN src[f] + sum[S \ {f}]
  IN sum[Sources] + want + script - Cardinality(Sources) - 2

(* Times are ranks: a new file is younger than any other, and the ranks are
   closed up whenever one is written.  Only the times of files that are
   installed are ever compared; the others have none. *)
FileTimes(F) == {F[o].time : o \in {x \in DOMAIN F : F[x] # None}}
Times == FileTimes(out) \cup FileTimes(inst) \cup UNION {FileTimes(cache[s]) : s \in DOMAIN cache}
Rank(time) == Cardinality({u \in Times : 0 < u /\ u <= time})
Aged(F) == [o \in DOMAIN F |-> IF F[o] = None THEN None ELSE [F[o] EXCEPT !.time = Rank(@)]]
AgedCache == [s \in DOMAIN cache |-> Aged(cache[s])]
Youngest == Cardinality(Times \ {0}) + 1
Over(F, files) == [o \in DOMAIN F |-> IF o \in DOMAIN files THEN files[o] ELSE F[o]]
File(o, text) == [text |-> text, time |-> IF o \in Installed THEN Youngest ELSE 0]

\* a process that has not read anything yet
Idle == [command |-> "none", commands |-> <<>>, script |-> 0, flags |-> 0,
         env |-> <<>>, todo |-> 0, sig |-> NoSig, consumers |-> FALSE,
         error |-> FALSE, is_install |-> 0, edited |-> FALSE]

Init ==
  /\ src = [f \in Sources |-> 1] /\ want = 1 /\ script = 1
  /\ setting \in Settings
  /\ out = [o \in Built |-> None] /\ folder = FALSE
  /\ db = None /\ envfile = None /\ lock = None /\ cache = <<>>
  /\ inst = [o \in Installed |-> None]
  /\ pc = "idle" /\ p = Idle /\ ctx = None /\ faults = 0
  /\ saved = NothingMade /\ made = NothingMade

Faulty == faults < MaxFaults /\ faults' = faults + 1

(* ----- the user ----- *)

Edited == p' = [p EXCEPT !.edited = (pc # "idle")]

EditSource(f) ==
  /\ Now < MaxEdits /\ f \in setting.edits
  /\ src[f] < MaxVersion \/ (f \in Removable /\ src[f] = MaxVersion)
  /\ src' = [src EXCEPT ![f] = @ + 1] /\ Edited
  /\ UNCHANGED <<want, script, setting>>

ChangeFlags ==
  /\ Now < MaxEdits /\ "flags" \in setting.edits
  /\ want' = want + 1 /\ Edited
  /\ UNCHANGED <<src, script, setting>>

EditScript ==
  /\ Now < MaxEdits /\ "wscript" \in setting.edits
  /\ script' = script + 1 /\ Edited
  /\ UNCHANGED <<src, want, setting>>

\* files are only read in these states: at any other time an edit is as good
\* as one before or after the command
Edit ==
  /\ pc \in {"idle", "status", "run"}
  /\ (\E f \in Sources : EditSource(f)) \/ ChangeFlags \/ EditScript
  /\ UNCHANGED <<faults, out, folder, db, configured, cache, inst, pc, ctx, history>>

RemoveOutput(o) ==
  /\ Faulty
  /\ pc = "idle" /\ out[o] # None
  /\ out' = [out EXCEPT ![o] = None]
  /\ saved' = Forget(saved, o)
  /\ UNCHANGED <<user, folder, db, configured, cache, inst, pc, p, ctx, made>>

RemoveFolder ==
  /\ Faulty
  /\ setting.removes /\ pc = "idle" /\ folder
  /\ folder' = FALSE
  /\ out' = Over(out, [o \in Built \ {CfgFile} |-> None])
  /\ saved' = NothingMade
  /\ UNCHANGED <<user, db, configured, cache, inst, pc, p, ctx, made>>

\* a new process: it reads the wscript, then main() takes command after command
Type(line) ==
  /\ pc = "idle"
  /\ pc' = "next"
  /\ p' = [Idle EXCEPT !.commands = line, !.script = script]
  /\ UNCHANGED <<user, faults, out, folder, db, configured, cache, inst, ctx, history>>

(* ----- main ----- *)

\* the process ends: what is only in memory is lost
Ends == pc' = "idle" /\ p' = Idle /\ ctx' = None /\ made' = NothingMade

Shutdown ==
  /\ pc = "next" /\ p.commands = <<>>
  /\ Ends
  /\ UNCHANGED <<user, faults, out, folder, db, configured, cache, inst, saved>>

FirstStep(x) ==
  CASE x = "configure" -> "configure"
    [] x = "distclean" -> "distclean"
    [] x = "clean" -> "load"
    [] x = "uninstall" -> "load"
    [] OTHER -> IF setting.autoconfig THEN "check_configured" ELSE "load"

NextCommand ==
  /\ pc = "next" /\ p.commands # <<>>
  /\ LET x == Head(p.commands)
     IN /\ pc' = FirstStep(x)
        /\ p' = [Idle EXCEPT !.command = x, !.commands = Tail(p.commands),
                   !.script = p.script, !.flags = want, !.edited = p.edited,
                   !.is_install = CASE x = "install" -> INSTALL [] x = "uninstall" -> UNINSTALL
                                    [] OTHER -> 0]
  /\ ctx' = None
  /\ UNCHANGED <<user, faults, out, folder, db, configured, cache, inst, history>>

(* ----- configure ----- *)

Goto(label) == pc' = label /\ UNCHANGED <<p, ctx, made>>

\* the wscript's own configure(): it writes the configuration header
Configure ==
  /\ pc = "configure"
  /\ out' = [out EXCEPT ![CfgFile] = File(CfgFile, <<CfgFile, p.flags>>)]
  /\ Goto("store")
  /\ UNCHANGED <<user, faults, folder, db, configured, cache, inst, saved>>

\* the environment file is opened for writing, then written
Store ==
  /\ pc = "store"
  /\ envfile' = Partial
  /\ Goto("stored")
  /\ UNCHANGED <<user, faults, out, folder, db, lock, cache, inst, saved>>

Stored ==
  /\ pc = "stored"
  /\ envfile' = Env(p.flags, p.script)
  /\ Goto("lock")
  /\ UNCHANGED <<user, faults, out, folder, db, lock, cache, inst, saved>>

Lock ==
  /\ pc = "lock"
  /\ lock' = [flags |-> p.flags, hash |-> p.script]
  /\ Goto(IF p.command = "configure" THEN "next" ELSE "load")
  /\ UNCHANGED <<user, faults, out, folder, db, envfile, cache, inst, saved>>

\* mutant: the wscript is not looked at
MustConfigureOnce == lock = None \/ envfile = None

\* autoconfig: configure again if there is nothing to load or the wscript has
\* changed, with the options of the last time if they are known
MustConfigure == lock = None \/ envfile = None \/ lock.hash # p.script

CheckConfigured ==
  /\ pc = "check_configured"
  /\ pc' = IF MustConfigure THEN "configure" ELSE "load"
  /\ p' = [p EXCEPT !.flags = IF lock = None THEN p.flags ELSE lock.flags]
  /\ UNCHANGED <<user, faults, out, folder, db, configured, cache, inst, ctx, history>>

(* ----- load_dirs, load_envs and, for a build, the task generators ----- *)

Fails(label) ==
  /\ pc = label
  /\ Ends
  /\ UNCHANGED <<user, faults, out, folder, db, configured, cache, inst, saved>>

Load == IF db = None THEN Opened(EmptyContext) ELSE Opened(db)

\* the configuration header is the one build file that is hashed
LoadEnvs(c) ==
  LET r == FindOrDeclare(c, {CfgFile})
      sig == IF out[CfgFile] = None THEN SIG_NIL ELSE out[CfgFile].text
  IN [r EXCEPT !.node_sigs = Update(@, [n \in {BuildNode(CfgFile)} |-> sig])]

AllInputs == UNION {Elements(Tasks[t].inputs) : t \in TaskIds}
Posted(c) ==
  FindOrDeclare(FindResources(Rescan(c, src, out, folder), AllInputs \ Built, src), Built)
Complete(c) == \A f \in AllInputs \ Built : Found(c, f)

CannotLoad == lock = None \/ envfile = None
NotLoaded == CannotLoad /\ Fails("load")

LoadForClean ==
  /\ pc = "load" /\ ~CannotLoad /\ p.command = "clean"
  /\ pc' = "clean"
  /\ ctx' = LoadEnvs(Load)
  /\ made' = saved
  /\ UNCHANGED <<user, faults, out, folder, db, configured, cache, inst, p, saved>>

LoadForBuild ==
  /\ pc = "load" /\ ~CannotLoad /\ p.command # "clean"
  /\ \E c \in {Posted(LoadEnvs(Load))} :
       IF Complete(c)
       THEN /\ pc' = "status" /\ ctx' = c /\ made' = saved
            /\ p' = [p EXCEPT !.env = envfile.table, !.todo = 1]
       ELSE Ends
  /\ folder' = TRUE
  /\ UNCHANGED <<user, faults, out, db, configured, cache, inst, saved>>

(* ----- compile: the tasks one after the other, then the database ----- *)

Status ==
  /\ pc = "status" /\ p.todo \in TaskIds /\ p.is_install # UNINSTALL
  /\ \E c \in {SigImplicitDeps(ctx, p.todo, src)} : \E s \in {Signature(c, p.todo, p.env)} :
       /\ ctx' = c
       /\ IF MustRun(c, p.todo, s)
          THEN pc' = "run" /\ p' = [p EXCEPT !.sig = s, !.consumers = TRUE]
          ELSE pc' = "finish" /\ p' = p
  /\ UNCHANGED <<user, faults, out, folder, db, configured, cache, inst, history>>

\* uninstall replaces runnable_status: every task is skipped
StatusUninstall ==
  /\ pc = "status" /\ p.todo \in TaskIds /\ p.is_install = UNINSTALL
  /\ pc' = "finish"
  /\ UNCHANGED <<user, faults, out, folder, db, configured, cache, inst, p, ctx, history>>

Makes(t) == [o \in Outputs(t) |-> File(o, Compile(t, src, out, p.env))]

\* what a task was made from is only known if nothing moved under its feet
MadeOf(t) == IF p.edited THEN None ELSE Compile(t, src, out, p.env)

\* the outputs are copied with their times, and the entry gets a new one
CanRetrieveCache ==
  /\ pc = "run" /\ setting.wafcache /\ p.sig.sig \in DOMAIN cache
  /\ out' = Over(Aged(out), AgedCache[p.sig.sig])
  /\ cache' = [AgedCache EXCEPT ![p.sig.sig] = [o \in DOMAIN @ |-> File(o, @[o].text)]]
  /\ inst' = Aged(inst)
  /\ ctx' = PostRun(ctx, p.todo, p.sig)
  /\ made' = [made EXCEPT ![p.todo] =
                IF ~p.edited /\ Compiles(p.todo, src, out) THEN MadeOf(p.todo) ELSE None]
  /\ pc' = "finish"
  /\ UNCHANGED <<user, faults, folder, db, configured, p, saved>>

Run ==
  /\ pc = "run" /\ ~(setting.wafcache /\ p.sig.sig \in DOMAIN cache)
  /\ p.sig # NoSig /\ Compiles(p.todo, src, out)
  /\ out' = Over(Aged(out), Makes(p.todo))
  /\ cache' = IF setting.wafcache THEN Update(AgedCache, [s \in {p.sig.sig} |-> Makes(p.todo)]) ELSE cache
  /\ inst' = Aged(inst)
  /\ ctx' = PostRun(ctx, p.todo, p.sig)
  /\ made' = [made EXCEPT ![p.todo] = MadeOf(p.todo)]
  /\ pc' = "finish"
  /\ UNCHANGED <<user, faults, folder, db, configured, p, saved>>

\* the command fails, or an exception is caught: the build stops; what the task
\* had made may be gone
Failing ==
  /\ pc = "run" /\ ~(setting.wafcache /\ p.sig.sig \in DOMAIN cache)
  /\ \E gone \in BOOLEAN :
       /\ out' = IF gone THEN Over(out, [o \in Outputs(p.todo) |-> None]) ELSE out
       /\ saved' = IF gone THEN [saved EXCEPT ![p.todo] = None] ELSE saved
  /\ made' = [made EXCEPT ![p.todo] = None]
  /\ p' = [p EXCEPT !.error = TRUE]
  /\ pc' = "finish"
  /\ UNCHANGED <<user, folder, db, configured, cache, inst, ctx>>

CannotRun ==
  /\ pc = "run"
  /\ p.sig = NoSig \/ ~Compiles(p.todo, src, out)
  /\ Failing
  /\ UNCHANGED faults

RunFails ==
  /\ Faulty
  /\ Failing

\* add_finished: also for a task that failed
NextTask == p' = [p EXCEPT !.todo = @ + 1, !.sig = NoSig]
AfterFinish == pc' = IF p.error THEN "unlink" ELSE "status"

Finish ==
  /\ pc = "finish" /\ (p.is_install = 0 \/ ~Tasks[p.todo].install)
  /\ NextTask /\ AfterFinish
  /\ UNCHANGED <<user, faults, out, folder, db, configured, cache, inst, ctx, history>>

\* mutant: times are not compared
UpToDateIfThere(o) == inst[o] # None

\* do_install takes a file for installed that is not older than the output
UpToDate(o) == inst[o] # None /\ inst[o].time >= out[o].time

Install ==
  /\ pc = "finish" /\ p.is_install = INSTALL /\ Tasks[p.todo].install
  /\ \A o \in Outputs(p.todo) : out[o] # None
  /\ inst' = [o \in Installed |-> IF o \in Outputs(p.todo) /\ ~UpToDate(o) THEN out[o] ELSE inst[o]]
  /\ NextTask /\ AfterFinish
  /\ UNCHANGED <<user, faults, out, folder, db, configured, cache, ctx, history>>

\* the target is removed first; without a source, or a place for the copy, the
\* exception ends the process and nothing is stored
NotInstalled ==
  /\ pc = "finish" /\ p.is_install = INSTALL /\ Tasks[p.todo].install
  /\ inst' = [o \in Installed |-> IF o \in Outputs(p.todo) THEN None ELSE inst[o]]
  /\ Ends
  /\ UNCHANGED <<user, out, folder, db, configured, cache, saved>>

InstallMissing ==
  /\ pc = "finish"
  /\ \E o \in Outputs(p.todo) : out[o] = None
  /\ NotInstalled
  /\ UNCHANGED faults

InstallFails ==
  /\ Faulty
  /\ NotInstalled

Uninstall ==
  /\ pc = "finish" /\ p.is_install = UNINSTALL /\ Tasks[p.todo].install
  /\ inst' = [o \in Installed |-> IF o \in Outputs(p.todo) THEN None ELSE inst[o]]
  /\ NextTask /\ AfterFinish
  /\ UNCHANGED <<user, faults, out, folder, db, configured, cache, ctx, history>>

\* nothing is saved if nothing was run
TasksDone ==
  /\ pc = "status" /\ p.todo \notin TaskIds
  /\ Goto(IF p.consumers THEN "unlink" ELSE "post")
  /\ UNCHANGED <<user, faults, out, folder, db, configured, cache, inst, saved>>

\* save: the temporary file is complete, the old database is unlinked
Unlink ==
  /\ pc = "unlink"
  /\ db' = None /\ saved' = NothingMade
  /\ Goto("rename")
  /\ UNCHANGED <<user, faults, out, folder, configured, cache, inst>>

Rename ==
  /\ pc = "rename"
  /\ db' = Saved(ctx) /\ saved' = made
  /\ IF p.error THEN Ends
     ELSE pc' = (IF p.command = "clean" THEN "next" ELSE "post") /\ UNCHANGED <<p, ctx, made>>
  /\ UNCHANGED <<user, faults, out, folder, configured, cache, inst>>

\* the end of a build that succeeded
Post ==
  /\ pc = "post"
  /\ Goto("next")
  /\ UNCHANGED <<user, faults, out, folder, db, configured, cache, inst, saved>>

\* ctrl-c: what was done is saved, if there are consumers
Interrupt ==
  /\ Faulty
  /\ pc \in {"status", "run"} /\ p.consumers
  /\ p' = [p EXCEPT !.error = TRUE]
  /\ pc' = "unlink"
  /\ UNCHANGED <<user, out, folder, db, configured, cache, inst, ctx, history>>

(* ----- clean and distclean ----- *)

\* the build nodes of the tree, but for what the configuration made
ToRemove == {o \in ctx.declared \ {CfgFile} : out[o] # None}

CleanRec(o) ==
  /\ pc = "clean" /\ o \in ToRemove
  /\ out' = [out EXCEPT ![o] = None]
  /\ saved' = Forget(saved, o) /\ made' = Forget(made, o)
  /\ UNCHANGED <<user, faults, folder, db, configured, cache, inst, pc, p, ctx>>

Clean ==
  /\ pc = "clean" /\ ToRemove = {}
  /\ ctx' = [ctx EXCEPT !.declared = @ \cap {CfgFile},
                        !.node_sigs = <<>>, !.node_deps = <<>>, !.task_sigs = <<>>]
  /\ made' = NothingMade
  /\ pc' = "unlink"
  /\ UNCHANGED <<user, faults, out, folder, db, configured, cache, inst, p, saved>>

Distclean ==
  /\ pc = "distclean"
  /\ IF lock = None THEN UNCHANGED <<out, folder, db, configured, saved>>
     ELSE /\ out' = [o \in Built |-> None] /\ folder' = FALSE
          /\ db' = None /\ envfile' = None /\ lock' = None
          /\ saved' = NothingMade
  /\ Goto("next")
  /\ UNCHANGED <<user, faults, cache, inst>>

(* ----- the process is killed ----- *)

Kill ==
  /\ Faulty
  /\ pc # "idle"
  /\ Ends
  /\ UNCHANGED <<user, out, folder, db, configured, cache, inst, saved>>

\* the compiler was through, and post_run had removed the old cache entry
KillInRun ==
  /\ Faulty
  /\ pc = "run" /\ p.sig # NoSig /\ Compiles(p.todo, src, out)
  /\ out' = Over(Aged(out), Makes(p.todo))
  /\ cache' = Drop(AgedCache, {p.sig.sig})
  /\ inst' = Aged(inst)
  /\ Ends
  /\ UNCHANGED <<user, folder, db, configured, saved>>

\* rmtree is through with some of the build directory
KillInDistclean ==
  /\ Faulty
  /\ pc = "distclean" /\ lock # None
  /\ \E first \in {"db", "envfile", "outputs"} :
       /\ db' = IF first = "db" THEN None ELSE db
       /\ envfile' = IF first = "envfile" THEN None ELSE envfile
       /\ out' = IF first = "outputs" THEN [o \in Built |-> None] ELSE out
       /\ saved' = IF first = "envfile" THEN saved ELSE NothingMade
  /\ Ends
  /\ UNCHANGED <<user, folder, lock, cache, inst>>

User == Edit \/ \E line \in CommandLines : Type(line)

Command ==
  \/ NextCommand \/ Shutdown
  \/ Configure \/ Store \/ Stored \/ Lock \/ CheckConfigured
  \/ NotLoaded \/ LoadForClean \/ LoadForBuild
  \/ Status \/ StatusUninstall \/ CanRetrieveCache \/ Run \/ CannotRun
  \/ Finish \/ Install \/ InstallMissing \/ Uninstall
  \/ TasksDone \/ Unlink \/ Rename \/ Post
  \/ (\E o \in Built : CleanRec(o)) \/ Clean \/ Distclean

Fault ==
  \/ (\E o \in Built : RemoveOutput(o)) \/ RemoveFolder
  \/ RunFails \/ InstallFails \/ Interrupt
  \/ Kill \/ KillInRun \/ KillInDistclean

Next == User \/ Command \/ Fault

Spec == Init /\ [][Next]_vars

(* ----- properties ----- *)

Labels == {"idle", "next", "check_configured", "configure", "store", "stored", "lock", "load",
           "status", "run", "finish", "unlink", "rename", "post", "clean", "distclean"}

TypeOK ==
  /\ pc \in Labels
  /\ src \in [Sources -> 1..(MaxVersion + 1)]
  /\ p.todo \in 0..(Len(Tasks) + 1)
  /\ db # None => DOMAIN db = DOMAIN EmptyContext
  /\ pc \in {"status", "run", "finish", "unlink", "rename", "clean"} => ctx # None
  /\ pc \in {"status", "run", "finish"} => folder
  /\ DOMAIN saved = TaskIds /\ DOMAIN made = TaskIds

\* what the outputs would be if everything were made anew
FromScratch ==
  LET after[n \in 0..Len(Tasks)] ==
        IF n = 0 THEN out
        ELSE [o \in Built |-> IF o \in Outputs(n)
                              THEN [text |-> Compile(n, src, after[n - 1], p.env)]
                              ELSE after[n - 1][o]]
  IN after[Len(Tasks)]

Succeeded == pc = "post" /\ ~p.edited

\* A build that succeeds, and in which nothing was edited, leaves every output
\* as a build from nothing would make it, whatever was killed, interrupted,
\* removed or failed before: the signatures, the implicit dependencies and the
\* database never let a task be skipped that had to run.  It does not hold of a
\* source edited to include one more header, nor of a build folder that was
\* removed: the runs BuildNewInclude and BuildFolderRemoved.  Nor does it after
\* two kills, the first between the header of a configuration and its lock file.
BuildCorrect ==
  Succeeded /\ p.is_install # UNINSTALL =>
    \A t \in TaskIds : \A o \in Outputs(t) : out[o] # None /\ out[o].text = FromScratch[o].text

\* An install that succeeds leaves the programs as they were built, although
\* do_install copies nothing over a file that is not older.  Not so with
\* WAFCACHE, which brings outputs back with the time they were made at.
InstalledIsBuilt ==
  Succeeded /\ p.is_install = INSTALL /\ ~setting.wafcache =>
    \A o \in Installed : inst[o] # None /\ inst[o].text = out[o].text

\* A task whose last complete run is known, in this process or through a saved
\* database, whose outputs nothing has removed since, and whose inputs are the
\* same, does not run again: also not after a build that failed or was
\* interrupted.
NoNeedlessRun ==
  pc = "run" /\ ~p.edited /\ made[p.todo] # None /\ Compiles(p.todo, src, out) =>
    made[p.todo] # Compile(p.todo, src, out, p.env)

\* With autoconfig no task runs with what an older wscript configured; an
\* environment file that was cut short has no version at all.
AutoconfigFresh ==
  pc = "run" /\ setting.autoconfig /\ ~p.edited /\ p.command # "uninstall" =>
    EnvGet(p.env, "SCRIPT") \in {0, script}

\* What holds at every step of a command: the database, the folder and the
\* environment are those that its place in the command needs.
WafInv == TypeOK /\ AutoconfigFresh
=============================================================================
