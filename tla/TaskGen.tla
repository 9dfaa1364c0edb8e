------------------------------- MODULE TaskGen -------------------------------
(***************************************************************************)
(* Task generators and the methods of the C and C++ tools that turn them   *)
(* into tasks: TaskGen.py, Tools/ccroot.py, cc.py, cxx.py and misc.py, on  *)
(* a system of ELF binaries.  The build posts the generators in the order  *)
(* they were declared; a generator's methods run in some order that the    *)
(* precedence table allows (MethodOrder.tla), and two of them may post     *)
(* other generators before they go on.                                     *)
(***************************************************************************)
EXTENDS Environment, TLC

CONSTANTS
  Projects,    \* sequences of generators, records with the fields of Generator
  Config,      \* the configured variables: name -> list
  Suffixed     \* those of a library or a type of binary: <<name, suffix>> -> list

VARIABLES
  project,   \* the generators as declared
  gens,      \* generator -> what the methods have made of it, see New
  tasks,     \* every task created so far
  stack,     \* the generators being posted, the innermost first
  prev,      \* bld.prev: the last generator of a sequence, 0 if there is none
  installs   \* what is to be installed: <<generator, name>>

vars == <<project, gens, tasks, stack, prev, installs>>

Generator ==
  [features |-> <<>>, source |-> <<>>, rule |-> FALSE, uselib |-> <<>>, uselib_local |-> <<>>,
   add_objects |-> <<>>, obj_files |-> <<>>, linkflags |-> <<>>, defines |-> <<>>,
   includes |-> <<>>, export_incdirs |-> <<>>, vnum |-> FALSE, seq_start |-> FALSE,
   hidden_inputs |-> <<>>, dependencies |-> <<>>]

Ids == DOMAIN project
Elements(s) == {s[i] : i \in DOMAIN s}
Features(g) == Elements(project[g].features)
Distinct(s) == \A i, j \in DOMAIN s : i # j => s[i] # s[j]

(* ----- methods and their order ----- *)

LinkTypes == {"cprogram", "cshlib", "cstaticlib"}

Traits ==
  LET c == {"default_cc", "add_extra_flags", "apply_type_vars", "apply_lib_vars", "apply_incpaths"}
      link == {"apply_verif", "apply_link", "default_link_install", "apply_objdeps", "apply_obj_vars"}
  IN [cc |-> c \cup {"init_cc", "apply_obj_vars_cc", "apply_defines_cc"},
      cxx |-> c \cup {"init_cxx", "apply_obj_vars_cxx", "apply_defines_cxx"},
      cprogram |-> link \cup {"vars_target_cprogram"},
      cshlib |-> link \cup {"vars_target_cshlib", "apply_implib", "apply_vnum"},
      cstaticlib |-> link,
      command |-> {"init_cmd_output", "apply_cmd_output"},   \* 'command-output'
      subst |-> {"apply_subst"}, copy |-> {"apply_copy"}, seq |-> {"sequence_order"},
      always |-> {"apply_core", "exec_rule"}]         \* the feature '*'

Prec ==
  [apply_core |-> {"exec_rule", "apply_subst", "apply_copy", "default_cc",
                   "vars_target_cprogram", "vars_target_cshlib"},
   vars_target_cprogram |-> {"default_cc"},
   vars_target_cshlib |-> {"default_cc"},
   init_cc |-> {"default_cc", "add_extra_flags"},
   init_cxx |-> {"default_cc", "add_extra_flags"},
   apply_type_vars |-> {"init_cc", "init_cxx"},
   apply_link |-> {"apply_core"},
   apply_implib |-> {"apply_link", "default_cc"},
   apply_vnum |-> {"apply_link"},
   default_link_install |-> {"apply_link", "vars_target_cprogram", "vars_target_cshlib",
                             "apply_implib", "apply_vnum"},
   apply_lib_vars |-> {"apply_link", "init_cc", "init_cxx", "apply_type_vars",
                       "add_extra_flags", "apply_implib", "apply_vnum"},
   apply_incpaths |-> {"apply_core", "apply_type_vars", "apply_lib_vars", "add_extra_flags"},
   apply_objdeps |-> {"init_cc", "init_cxx", "apply_link", "apply_implib"},
   apply_obj_vars |-> {"apply_lib_vars", "add_extra_flags"},
   apply_obj_vars_cc |-> {"apply_incpaths"}, apply_obj_vars_cxx |-> {"apply_incpaths"},
   apply_defines_cc |-> {"apply_lib_vars"}, apply_defines_cxx |-> {"apply_lib_vars"},
   apply_cmd_output |-> {"init_cmd_output"},
   process_obj_files |-> {"apply_link"}]

\* mutant: the flags of the include paths without their @after
BeforeFlagsEarly(m) == IF m \in DOMAIN Prec THEN Prec[m] \ {"apply_incpaths"} ELSE {}

\* the methods that precede m if they are selected
Before(m) == IF m \in DOMAIN Prec THEN Prec[m] ELSE {}

\* obj_files bring a method of their own, as add_obj_file does
Keys(g) ==
  (UNION {Traits[x] : x \in Features(g) \cup {"always"}})
    \cup (IF project[g].obj_files # <<>> THEN {"process_obj_files"} ELSE {})

\* sequence_order puts itself at the end when it is not there
Ready(m, todo) ==
  /\ m \in todo /\ Before(m) \cap todo = {}
  /\ m = "sequence_order" => todo = {m}

(* ----- generators and tasks ----- *)

Outside(v, x) == IF <<v, x>> \in DOMAIN Suffixed THEN Suffixed[<<v, x>>] ELSE <<>>

New(g) ==
  [posted |-> FALSE, env |-> <<Own(<<Config>>), Config>>, uselib |-> project[g].uselib,
   type_vars |-> {}, flag_vars |-> {}, mappings |-> "cc", compiled |-> <<>>, link |-> 0]

Frame(g) == [gen |-> g, todo |-> Keys(g), removed |-> {}, method |-> "none", names |-> <<>>, seen |-> {}]

Task(g, class, inputs, outputs) ==
  [gen |-> g, class |-> class, inputs |-> inputs, outputs |-> outputs, after |-> {},
   own |-> Own(gens[g].env)]

TaskEnv(t) == <<tasks[t].own>> \o gens[tasks[t].gen].env

Object(g, file) == <<"object", g, file>>      \* the name has the generator's number in it
Target(g) == <<"target", g>>
SourceNode(file) == <<"source", file>>
Outputs(ts) == UNION {Elements(tasks[t].outputs) : t \in ts}

Created(new) == [i \in DOMAIN new |-> Len(tasks) + i]
Top == stack[1]
G == Top.gen
Me == gens[G]
It == project[G]
SetEnv(e) == gens' = [gens EXCEPT ![G].env = e]

(* ----- the methods that only change the generator's variables ----- *)

CFlags == [init_cc |-> "CCFLAGS", init_cxx |-> "CXXFLAGS"]
Shared == {"STATICLIB", "LIB", "LINKFLAGS", "CPPPATH", "DEFINES"}

Init_cc(m) ==
  gens' = [gens EXCEPT ![G].type_vars = @ \cup {CFlags[m], "LINKFLAGS"},
                       ![G].flag_vars = @ \cup Shared \cup {CFlags[m]},
                       ![G].mappings = IF m = "init_cxx" /\ "cc" \notin Features(G) THEN "cxx" ELSE @]

AddExtraFlags == SetEnv(AppendUnique(Me.env, "LINKFLAGS", It.linkflags))

\* the flags of the type of binary: program, shlib, staticlib
TypeOf(g) == CHOOSE x \in LinkTypes \cup {""} :
               IF Features(g) \cap LinkTypes = {} THEN x = "" ELSE x \in Features(g)

ApplyTypeVars ==
  LET type == TypeOf(G)
      add[S \in SUBSET Me.type_vars] ==
        IF S = {} THEN Me.env
        ELSE LET v == CHOOSE x \in S : TRUE
             IN AppendValue(add[S \ {v}], v, Outside(type, v))
  IN gens' = [gens EXCEPT ![G].env = add[Me.type_vars],
                          ![G].uselib = @ \o Outside(type, "USELIB")]

ApplyIncpaths == SetEnv(AppendValue(Me.env, "INC_PATHS", It.includes))

ApplyObjVars ==
  LET libs(k, v) == [i \in DOMAIN Get(Me.env, v) |-> <<k, Get(Me.env, v)[i]>>]
      paths == AppendUnique(Me.env, "LINKFLAGS", libs("-L", "LIBPATH"))
      static == IF Get(Me.env, "STATICLIB") = <<>> THEN paths
                ELSE AppendUnique(AppendValue(paths, "LINKFLAGS", <<<<"flag", "-Wl,-Bstatic">>>>),
                                  "LINKFLAGS", libs("-l", "STATICLIB"))
      shared == IF Get(Me.env, "STATICLIB") \o Get(Me.env, "LIB") = <<>> THEN static
                ELSE AppendValue(static, "LINKFLAGS", <<<<"flag", "-Wl,-Bdynamic">>>>)
  IN SetEnv(AppendUnique(shared, "LINKFLAGS", libs("-l", "LIB")))

IncFlags == [apply_obj_vars_cc |-> "_CCINCFLAGS", apply_obj_vars_cxx |-> "_CXXINCFLAGS"]
ApplyIncFlags(m) ==
  SetEnv(AppendUnique(AppendUnique(Me.env, IncFlags[m], Get(Me.env, "INC_PATHS")),
                      IncFlags[m], Get(Me.env, "CPPPATH")))

DefFlags == [apply_defines_cc |-> "_CCDEFFLAGS", apply_defines_cxx |-> "_CXXDEFFLAGS"]
ApplyDefines(m) ==
  SetEnv(Put(Me.env, DefFlags[m], Unique(<<>>, It.defines \o Get(Me.env, "DEFINES"))))

OnlyEnv(m) ==
  /\ \/ m \in DOMAIN CFlags /\ Init_cc(m)
     \/ m = "add_extra_flags" /\ AddExtraFlags
     \/ m = "apply_type_vars" /\ ApplyTypeVars
     \/ m = "apply_incpaths" /\ ApplyIncpaths
     \/ m = "apply_obj_vars" /\ ApplyObjVars
     \/ m \in DOMAIN IncFlags /\ ApplyIncFlags(m)
     \/ m \in DOMAIN DefFlags /\ ApplyDefines(m)
  /\ UNCHANGED <<tasks, installs>>

(* ----- the methods that create tasks ----- *)

Hook(file) == IF file.ext = ".c" THEN Me.mappings ELSE "cxx"

ApplyCore ==
  LET Compile(file) == Task(G, Hook(file), <<SourceNode(file)>>, <<Object(G, file)>>)
      new == [i \in DOMAIN It.source |-> Compile(It.source[i])]
  IN /\ tasks' = tasks \o new
     /\ gens' = [gens EXCEPT ![G].compiled = @ \o Created(new)]
     /\ UNCHANGED installs

ApplyLink ==
  LET kind == IF "cstaticlib" \in Features(G) THEN "static_link"
              ELSE IF "cxx" \in Features(G) THEN "cxx_link" ELSE "cc_link"
      inputs == [i \in DOMAIN Me.compiled |-> tasks[Me.compiled[i]].outputs[1]]
  IN /\ tasks' = Append(tasks, Task(G, kind, inputs, <<Target(G)>>))
     /\ gens' = [gens EXCEPT ![G].link = Len(tasks) + 1]
     /\ UNCHANGED installs

\* one task; the methods to run no longer have apply_core among them
ExecRule ==
  /\ tasks' = IF It.rule
              THEN Append(tasks, Task(G, "rule", [i \in DOMAIN It.source |-> SourceNode(It.source[i])],
                                      <<Target(G)>>))
              ELSE tasks
  /\ UNCHANGED <<gens, installs>>

\* subst and copy: a task for every source
ApplyEach ==
  /\ tasks' = tasks \o [i \in DOMAIN It.source |->
                          Task(G, "copy", <<SourceNode(It.source[i])>>, <<Object(G, It.source[i])>>)]
  /\ UNCHANGED <<gens, installs>>

ProcessObjFiles ==
  /\ tasks' = [tasks EXCEPT ![Me.link].inputs =
                 @ \o [i \in DOMAIN It.obj_files |-> SourceNode(It.obj_files[i])]]
  /\ UNCHANGED <<gens, installs>>

DefaultLinkInstall ==
  /\ installs' = IF "cstaticlib" \in Features(G) THEN installs
                 ELSE installs \cup {<<G, "target">>}
  /\ UNCHANGED <<gens, tasks>>

\* a library with a version: two links beside the file, and a task
ApplyVnum ==
  /\ IF ~It.vnum THEN UNCHANGED <<gens, tasks, installs>>
     ELSE /\ SetEnv(AppendValue(Me.env, "LINKFLAGS", <<<<"flag", "-Wl,-h">>>>))
          /\ installs' = installs \cup {<<G, "versioned">>, <<G, "link">>}
          /\ tasks' = Append(tasks, Task(G, "vnum", <<Target(G)>>, <<<<"version", G>>>>))

\* the tasks of the generator come after all those of the one before it
SequenceOrder ==
  /\ prev' = IF It.seq_start THEN prev ELSE G
  /\ tasks' = IF It.seq_start \/ prev = 0 THEN tasks
              ELSE [t \in DOMAIN tasks |->
                      IF tasks[t].gen # G THEN tasks[t]
                      ELSE [tasks[t] EXCEPT !.after = @ \cup {u \in DOMAIN tasks : tasks[u].gen = prev}]]
  /\ UNCHANGED <<gens, installs>>

(* ----- the methods that post other generators ----- *)

Suspended(m) == stack # <<>> /\ Top.method = m
Seen(y, more) ==
  stack' = <<[Top EXCEPT !.names = Tail(@) \o more, !.seen = @ \cup {y}]>> \o Tail(stack)
Post(y) == stack' = <<Frame(y)>> \o stack
Returned ==
  stack' = <<[Top EXCEPT !.method = "none", !.names = <<>>, !.seen = {}]>> \o Tail(stack)

\* part 2 of apply_lib_vars: the flags of the libraries from outside
ExternalLibs(env, libs) ==
  LET vs == Me.flag_vars
      add[n \in 0..Len(libs), S \in SUBSET vs] ==
        IF S = {} THEN (IF n <= 1 THEN env ELSE add[n - 1, vs])
        ELSE LET v == CHOOSE x \in S : TRUE
             IN AppendValue(add[n, S \ {v}], v, Outside(v, libs[n]))
  IN IF libs = <<>> THEN env ELSE add[Len(libs), vs]

\* mutant: static libraries are handed on by everything
AncestorsAll(y) == project[y].uselib_local

\* the libraries a shared object or a program does not hand on
Ancestors(y) ==
  LET libs == project[y].uselib_local
  IN  IF Features(y) \cap {"cshlib", "cprogram"} # {}
      THEN At(libs, {i \in DOMAIN libs : "cstaticlib" \notin Features(libs[i])})
      ELSE libs

\* uselib of y, put in front one by one unless they are static
Inherited(mine, theirs) ==
  LET static(v) == Outside("STATICLIB", v) # <<>>
      after[n \in 0..Len(theirs)] ==
        IF n = 0 THEN mine
        ELSE LET before == after[n - 1]
             IN IF static(theirs[n]) \/ IsIn(theirs[n], before) THEN before
                ELSE <<theirs[n]>> \o before
  IN after[Len(theirs)]

BuildFolder == <<"dir", "build">>          \* the folder that the libraries are made in
UseLib(y) ==
  LET kind == IF "cstaticlib" \in Features(y) THEN "STATICLIB" ELSE "LIB"
      path == IF IsIn(BuildFolder, Get(Me.env, "LIBPATH")) THEN Me.env
              ELSE PrependValue(Me.env, "LIBPATH", <<BuildFolder>>)
      linked == IF gens[y].link = 0 THEN Me.env ELSE AppendValue(path, kind, <<y>>)
  IN /\ gens' = [gens EXCEPT
                  ![G].env = AppendUnique(linked, "INC_PATHS", project[y].export_incdirs),
                  ![G].uselib = Inherited(@, gens[y].uselib)]
     /\ tasks' = IF gens[y].link = 0 THEN tasks
                 ELSE [tasks EXCEPT ![Me.link].after = @ \cup {gens[y].link}]

LibVarsNext ==
  /\ Suspended("apply_lib_vars") /\ Top.names # <<>>
  /\ LET y == Head(Top.names)
     IN \/ /\ y \in Top.seen
           /\ Seen(y, <<>>)
           /\ UNCHANGED <<gens, tasks>>
        \/ /\ y \notin Top.seen /\ ~gens[y].posted
           /\ Post(y)
           /\ UNCHANGED <<gens, tasks>>
        \/ /\ y \notin Top.seen /\ gens[y].posted
           /\ UseLib(y)
           /\ Seen(y, Ancestors(y))
  /\ UNCHANGED <<project, prev, installs>>

LibVarsDone ==
  /\ Suspended("apply_lib_vars") /\ Top.names = <<>>
  /\ SetEnv(ExternalLibs(Me.env, Me.uselib))
  /\ Returned
  /\ UNCHANGED <<project, tasks, prev, installs>>

\* the objects of other generators, their own ancestors first
ObjdepsNext ==
  /\ Suspended("apply_objdeps") /\ Top.names # <<>>
  /\ LET y == Head(Top.names)
         objects == project[y].add_objects
         more == At(objects, {i \in DOMAIN objects : objects[i] \notin Top.seen})
     IN \/ /\ y \in Top.seen
           /\ Seen(y, <<>>)
           /\ UNCHANGED tasks
        \/ /\ y \notin Top.seen /\ more # <<>>
           /\ stack' = <<[Top EXCEPT !.names = more \o @]>> \o Tail(stack)
           /\ UNCHANGED tasks
        \/ /\ y \notin Top.seen /\ more = <<>> /\ ~gens[y].posted
           /\ Post(y)
           /\ UNCHANGED tasks
        \/ /\ y \notin Top.seen /\ more = <<>> /\ gens[y].posted
           /\ tasks' = [tasks EXCEPT ![Me.link].inputs =
                          @ \o [i \in DOMAIN gens[y].compiled |->
                                  tasks[gens[y].compiled[i]].outputs[1]]]
           /\ Seen(y, <<>>)
  /\ UNCHANGED <<project, gens, prev, installs>>

ObjdepsDone ==
  /\ Suspended("apply_objdeps") /\ Top.names = <<>>
  /\ Returned
  /\ UNCHANGED <<project, gens, tasks, prev, installs>>

\* the task of a command, and then the generators it depends on
Command ==
  Task(G, "command", [i \in DOMAIN It.hidden_inputs |-> SourceNode(It.hidden_inputs[i])], <<Target(G)>>)

MyTasks == {t \in DOMAIN tasks : tasks[t].gen = G}
AfterTasks(y) ==
  tasks' = [t \in DOMAIN tasks |->
              IF t \notin MyTasks THEN tasks[t]
              ELSE [tasks[t] EXCEPT !.after = @ \cup {u \in DOMAIN tasks : tasks[u].gen = y}]]

\* mutant: the generator is not posted first
CmdOutputUnposted ==
  /\ Suspended("apply_cmd_output") /\ Top.names # <<>>
  /\ AfterTasks(Head(Top.names)) /\ Seen(Head(Top.names), <<>>)
  /\ UNCHANGED <<project, gens, prev, installs>>

CmdOutputNext ==
  /\ Suspended("apply_cmd_output") /\ Top.names # <<>>
  /\ LET y == Head(Top.names)
     IN IF gens[y].posted THEN AfterTasks(y) /\ Seen(y, <<>>)
        ELSE Post(y) /\ UNCHANGED tasks
  /\ UNCHANGED <<project, gens, prev, installs>>

CmdOutputDone ==
  /\ Suspended("apply_cmd_output") /\ Top.names = <<>>
  /\ Returned
  /\ UNCHANGED <<project, gens, tasks, prev, installs>>

(* ----- apply and post ----- *)

Init ==
  /\ project \in Projects
  /\ gens = [g \in Ids |-> New(g)]
  /\ tasks = <<>> /\ stack = <<>> /\ prev = 0 /\ installs = {}

\* mutant: a generator is posted before its methods have run
FlushMarking ==
  /\ stack = <<>>
  /\ \E g \in Ids :
       /\ ~gens[g].posted /\ \A h \in Ids : h < g => gens[h].posted
       /\ Post(g)
       /\ gens' = [gens EXCEPT ![g].posted = TRUE]
  /\ UNCHANGED <<project, tasks, prev, installs>>

\* flush posts the generators in the order of their declaration
Flush ==
  /\ stack = <<>>
  /\ \E g \in Ids :
       /\ ~gens[g].posted /\ \A h \in Ids : h < g => gens[h].posted
       /\ Post(g)
  /\ UNCHANGED <<project, gens, tasks, prev, installs>>

Nothing == {"default_cc", "init_cmd_output", "apply_verif", "vars_target_cprogram", "vars_target_cshlib", "apply_implib"}

Effect(m) ==
  \/ m = "apply_core" /\ ApplyCore
  \/ m = "apply_link" /\ ApplyLink
  \/ m = "exec_rule" /\ ExecRule
  \/ m \in {"apply_subst", "apply_copy"} /\ ApplyEach
  \/ m = "process_obj_files" /\ ProcessObjFiles
  \/ m = "default_link_install" /\ DefaultLinkInstall
  \/ m = "apply_vnum" /\ ApplyVnum
  \/ m = "sequence_order" /\ SequenceOrder
  \/ m \in Nothing /\ UNCHANGED <<gens, tasks, installs>>
  \/ OnlyEnv(m)

\* what a method takes out of the list that apply walks through
Removes(m) ==
  CASE m = "exec_rule" /\ It.rule -> {"apply_core"}
    [] m \in {"apply_subst", "apply_copy"} -> {"apply_core"}
    [] m = "apply_vnum" /\ It.vnum -> {"default_link_install"}
    [] OTHER -> {}

Calls == {"apply_lib_vars", "apply_objdeps", "apply_cmd_output"}
Names(m) ==
  CASE m = "apply_lib_vars" -> It.uselib_local
    [] m = "apply_objdeps" -> It.add_objects
    [] m = "apply_cmd_output" -> It.dependencies

RunMethod(m) ==
  /\ stack # <<>> /\ Top.method = "none" /\ Ready(m, Top.todo)
  /\ stack' = <<[Top EXCEPT !.todo = @ \ {m}, !.removed = @ \cup (Removes(m) \cap Top.todo)]>> \o Tail(stack)
  /\ m \notin Calls
  /\ IF m \in Top.removed THEN UNCHANGED <<gens, tasks, installs>> ELSE Effect(m)
  /\ IF m = "sequence_order" THEN TRUE ELSE prev' = prev
  /\ UNCHANGED project

RunCall(m) ==
  /\ stack # <<>> /\ Top.method = "none" /\ Ready(m, Top.todo) /\ m \in Calls
  /\ stack' = <<[Top EXCEPT !.todo = @ \ {m}, !.method = m, !.names = Names(m)]>> \o Tail(stack)
  /\ tasks' = IF m = "apply_cmd_output" THEN Append(tasks, Command) ELSE tasks
  /\ UNCHANGED <<project, gens, prev, installs>>

Posted ==
  /\ stack # <<>> /\ Top.method = "none" /\ Top.todo = {}
  /\ gens' = [gens EXCEPT ![G].posted = TRUE]
  /\ stack' = Tail(stack)
  /\ UNCHANGED <<project, tasks, prev, installs>>

AllMethods == (UNION {Traits[x] : x \in DOMAIN Traits}) \cup {"process_obj_files"}

Next ==
  \/ Flush \/ Posted
  \/ (\E m \in AllMethods : RunMethod(m) \/ RunCall(m))
  \/ LibVarsNext \/ LibVarsDone \/ ObjdepsNext \/ ObjdepsDone
  \/ CmdOutputNext \/ CmdOutputDone

Fairness == WF_vars(Next)
Spec == Init /\ [][Next]_vars /\ Fairness

(* ----- what the declarations ask for ----- *)

Linked(g) == Features(g) \cap LinkTypes # {}
IsStatic(g) == "cstaticlib" \in Features(g)

\* the generators reached from g over those that named(y) gives
Closure(g, named(_)) ==
  LET reach[n \in 0..Len(project)] ==
        IF n = 0 THEN named(g)
        ELSE LET near == reach[n - 1] IN near \cup UNION {named(y) : y \in near}
  IN reach[Len(project)]

\* a program or a shared library keeps the static libraries it was linked with
HandedOn(y) == {x \in Elements(project[y].uselib_local) :
                  ~(IsStatic(x) /\ Features(y) \cap {"cshlib", "cprogram"} # {})}
LibsOf(g) == LET Named(y) == HandedOn(y) \cup (IF y = g THEN Elements(project[y].uselib_local) ELSE {})
             IN Closure(g, Named)
ObjectsOf(g) == LET Added(y) == Elements(project[y].add_objects) IN Closure(g, Added)

OwnObjects(g) == {Object(g, project[g].source[i]) : i \in DOMAIN project[g].source}
Done == stack = <<>> /\ \A g \in Ids : gens[g].posted
TasksOf(g) == {t \in DOMAIN tasks : tasks[t].gen = g}
LinkTask(g) == tasks[gens[g].link]
Flags(g, v) == Elements(Get(gens[g].env, v))

(* ----- properties ----- *)

TypeOK ==
  /\ DOMAIN gens = Ids /\ prev \in Ids \cup {0}
  /\ \A t \in DOMAIN tasks : tasks[t].gen \in Ids /\ tasks[t].after \subseteq DOMAIN tasks \ {t}
  /\ \A i \in DOMAIN stack : stack[i].gen \in Ids /\ stack[i].todo \subseteq AllMethods
  /\ installs \subseteq Ids \X {"target", "versioned", "link"}

\* Whatever order the methods of a generator run in, and whoever posts it, a
\* binary is linked once from exactly the objects of its own sources, the
\* object files it names and the objects of the generators it adds, directly
\* or not.
LinkInputs ==
  Done => \A g \in {x \in Ids : Linked(x)} :
    Elements(LinkTask(g).inputs) =
      (OwnObjects(g) \cup UNION {OwnObjects(y) : y \in ObjectsOf(g)}
        \cup {SourceNode(f) : f \in Elements(project[g].obj_files)})

\* A binary is linked after every local library it is linked with, names each
\* of them on its command line, and waits for nothing else.
LinkAfterLibs ==
  Done => \A g \in {x \in Ids : Linked(x) /\ "seq" \notin Features(x)} :
    LET libs == {y \in LibsOf(g) : Linked(y)}
    IN /\ LinkTask(g).after = {gens[y].link : y \in libs}
       /\ {f[2] : f \in {x \in Flags(g, "LINKFLAGS") : x \in {"-l"} \X Ids}} = libs

\* The command that compiles a source has the include paths that libraries
\* export and the flags of every outside library used, the inherited ones too,
\* although its task is created long before they are known.
CompileFlags ==
  Done => \A t \in DOMAIN tasks : tasks[t].class \in {"cc", "cxx"} =>
    LET g == tasks[t].gen
        v == IF tasks[t].class = "cc" THEN "_CCINCFLAGS" ELSE "_CXXINCFLAGS"
        d == IF tasks[t].class = "cc" THEN "_CCDEFFLAGS" ELSE "_CXXDEFFLAGS"
        exported == UNION {Elements(project[y].export_incdirs) : y \in LibsOf(g)}
        external == Elements(project[g].uselib)
                      \cup UNION {Elements(gens[y].uselib) : y \in LibsOf(g)}
        of(name) == UNION {Elements(Outside(name, x)) : x \in external}
        flags == Elements(Get(TaskEnv(t), v))
    IN /\ exported \cup Elements(project[g].includes) \subseteq flags
       /\ of("CPPPATH") \subseteq flags
       /\ Elements(project[g].defines) \cup of("DEFINES") = Elements(Get(TaskEnv(t), d))

\* Every generator is posted once: a source is compiled once, a rule makes its
\* one task and no other, a library with a version has one more.
TasksOnce ==
  Done => \A g \in Ids :
    Cardinality(TasksOf(g)) =
      IF project[g].rule \/ "command" \in Features(g) THEN 1
      ELSE Len(project[g].source) + (IF Linked(g) THEN 1 ELSE 0) + (IF project[g].vnum THEN 1 ELSE 0)

\* A library with a version is installed under its full name with a link
\* beside it and never under its plain name too, a static library not at all.
InstalledOnce ==
  Done => installs =
    UNION {IF project[g].vnum THEN {<<g, "versioned">>, <<g, "link">>} ELSE {<<g, "target">>} :
             g \in {x \in Ids : Linked(x) /\ ~IsStatic(x)}}

\* A command waits for all the tasks of the generators it depends on, also if
\* they are declared after it.
CommandAfterDeps ==
  Done => \A g \in {x \in Ids : "command" \in Features(x)} : \A t \in TasksOf(g) :
    \A y \in Elements(project[g].dependencies) :
      TasksOf(y) # {} /\ TasksOf(y) \subseteq tasks[t].after

\* Two generators of one sequence: every task of the later one has to wait for
\* every task of the one before.  Generators with seq_start are left out: the
\* next one does not wait for them.
SequenceKept ==
  Done => LET members == {x \in Ids : "seq" \in Features(x) /\ ~project[x].seq_start}
  IN \A g, h \in members :
    (g < h /\ \A x \in members : ~(g < x /\ x < h)) =>
      \A t \in TasksOf(h) : TasksOf(g) \subseteq tasks[t].after

\* Nothing is added to a generator that has been posted: those that use it see
\* all its tasks and flags at once.
PostedIsFinal ==
  [][\A g \in Ids : gens[g].posted =>
       /\ gens'[g] = gens[g]
       /\ \A t \in DOMAIN tasks' : tasks'[t].gen = g => t \in DOMAIN tasks]_vars

\* The generators post each other without end only if they use each other in a
\* circle.
AllPosted == <>Done

\* Every generator is posted, and that once and for all.
PostedOnce == PostedIsFinal /\ AllPosted

\* The command that links: its inputs, its libraries, what it waits for.
LinkLine == LinkInputs /\ LinkAfterLibs

\* Every source is compiled once and with all its flags, every target
\* installed once.
CompiledOnce == TypeOK /\ CompileFlags /\ TasksOnce /\ InstalledOnce

\* Generators that follow others, as a sequence or by name, wait for all of
\* their tasks.
GeneratorsOrdered == SequenceKept /\ CommandAfterDeps
=============================================================================
