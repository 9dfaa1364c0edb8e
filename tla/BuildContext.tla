---------------------------- MODULE BuildContext ----------------------------
(***************************************************************************)
(* The dependency tree of waf, the build system in src/tools/wafadmin that *)
(* builds meguro: what a BuildContext remembers of files and tasks, and    *)
(* how a task's signature is computed from it.  One folder of sources and  *)
(* one variant are modelled.                                               *)
(*                                                                         *)
(* Digests are collision free: the signature of a file is its text, the    *)
(* signature of a task the tuple of what was hashed.  A source node is     *)
(* <<name, k>>, k counting the nodes made for that name, since a name may  *)
(* get a second node while the first is still referred to; a build node is *)
(* <<name, 0>>.                                                            *)
(***************************************************************************)
EXTENDS Naturals, Sequences, FiniteSets

CONSTANTS
  Sources,      \* source files
  Tasks,        \* sequence of tasks, in the order they must run in
  CfgFile,      \* the header the configuration writes into the build folder
  Includes,     \* Includes[f][v]: the headers version v of the source f names
  MaxVersion    \* bound: versions of a source; the next number is its removal

\* A task: [inputs, outputs: sequences of files, scan: does it have a scanner,
\* vars: the environment variables it depends on, install: is it installed]
TaskIds == 1..Len(Tasks)
Elements(s) == {s[i] : i \in DOMAIN s}

ASSUME BuildContextAssumption ==
  /\ Tasks \in Seq(Elements(Tasks))
  /\ \A t \in TaskIds : Tasks[t].outputs \in Seq(Elements(Tasks[t].outputs))
  /\ MaxVersion \in Nat

Built == (UNION {Elements(Tasks[t].outputs) : t \in TaskIds}) \cup {CfgFile}

\* what a task or a source names is a source or a file that is built
ASSUME FilesAssumption ==
  /\ IsFiniteSet(Sources) /\ Sources \cap Built = {}
  /\ \A t \in TaskIds : Elements(Tasks[t].inputs) \subseteq Sources \cup Built
  /\ \A f \in Sources, v \in 1..MaxVersion : Includes[f][v] \subseteq Sources \cup Built

Nothing == <<>>                          \* no such file
Exists(src, f) == src[f] <= MaxVersion
FileText(src, f) == <<f, src[f]>>
Drop(f, S) == [x \in DOMAIN f \ S |-> f[x]]
Update(f, new) == [x \in DOMAIN new \cup DOMAIN f |-> IF x \in DOMAIN new THEN new[x] ELSE f[x]]

(* ----- nodes ----- *)

BuildNode(o) == <<o, 0>>
FileNode(c, f) == <<f, c.childs[f]>>
Found(c, f) == c.childs[f] # 0

EmptyContext ==
  [childs |-> [f \in Sources |-> 0],     \* the FILE child of that name, if any
   id_nodes |-> [f \in Sources |-> 0],
   declared |-> {},                      \* the BUILD childs
   node_sigs |-> <<>>, node_deps |-> <<>>, task_sigs |-> <<>>]

\* what is known of the folder in this process only
Opened(c) ==
  [x \in DOMAIN EmptyContext \cup {"scanned", "listing"} |->
     CASE x = "scanned" -> FALSE [] x = "listing" -> {} [] OTHER -> c[x]]
Saved(c) == [x \in DOMAIN EmptyContext |-> c[x]]

\* the signatures of source files that are still there are renewed, nodes and
\* signatures of those that disappeared are dropped
HashChilds(c, src) ==
  LET gone == {f \in Sources : Found(c, f) /\ ~Exists(src, f)}
      kept == {f \in Sources : Found(c, f) /\ Exists(src, f)}
  IN [c EXCEPT
        !.scanned = TRUE,
        !.listing = {f \in Sources : Exists(src, f)},
        !.node_sigs = Update(Drop(@, {FileNode(c, f) : f \in gone}),
                             [n \in {FileNode(c, f) : f \in kept} |-> FileText(src, n[1])]),
        !.childs = [f \in Sources |-> IF f \in gone THEN 0 ELSE @[f]]]

\* mutant: the timestamps of all build files are dropped
ListdirBldAll(c, out) == [c EXCEPT !.node_sigs = Drop(@, {BuildNode(o) : o \in c.declared})]

\* no timestamps are added, those of build files that disappeared are dropped
ListdirBld(c, out) ==
  [c EXCEPT !.node_sigs = Drop(@, {BuildNode(o) : o \in {x \in c.declared \ {CfgFile} : out[x] = Nothing}})]

\* the folder is missing in the build directory: every child node is dropped,
\* the source nodes that have just been hashed included
DropChilds(c) ==
  [c EXCEPT !.node_sigs = Drop(@, {BuildNode(o) : o \in c.declared \ {CfgFile}}),
            !.childs = [f \in Sources |-> 0],
            !.declared = @ \cap {CfgFile}]

Rescan(c, src, out, bldExists) ==
  IF c.scanned THEN c
  ELSE IF bldExists THEN ListdirBld(HashChilds(c, src), out)
  ELSE DropChilds(HashChilds(c, src))

\* after a rescan: each name has its child, or gets a new node if it is listed
FindResources(c, fs, src) ==
  LET new == {f \in fs : ~Found(c, f) /\ f \in c.listing /\ Exists(src, f)}
      node == [f \in Sources |-> c.id_nodes[f] + 1]
  IN [c EXCEPT
        !.childs = [f \in Sources |-> IF f \in new THEN node[f] ELSE @[f]],
        !.id_nodes = [f \in Sources |-> IF f \in new THEN node[f] ELSE @[f]],
        !.node_sigs = Update(@, [n \in {<<f, node[f]>> : f \in new} |-> FileText(src, n[1])])]

FindOrDeclare(c, os) == [c EXCEPT !.declared = @ \cup os]

NodeOf(c, f) == IF f \in Built THEN BuildNode(f) ELSE FileNode(c, f)
Known(c, f) == IF f \in Built THEN f \in c.declared ELSE Found(c, f)

(* ----- what is in a file, and what a compiler makes of it ----- *)

TextOf(f, src, out) ==
  IF f \in Built THEN out[f].text ELSE FileText(src, f)
There(f, src, out) ==
  IF f \in Built THEN out[f] # Nothing ELSE Exists(src, f)

\* the names a task's inputs include, directly or not
Included(t, src) ==
  LET named[n \in 0..Cardinality(Sources)] ==
        IF n = 0 THEN {}
        ELSE LET from == named[n - 1] \cup Elements(Tasks[t].inputs)
             IN UNION {Includes[f][src[f]] : f \in {g \in from \ Built : Exists(src, g)}}
  IN IF Tasks[t].scan THEN named[Cardinality(Sources)] ELSE {}

ReadBy(t, src) == Elements(Tasks[t].inputs) \cup Included(t, src)

\* the order of the tasks: whatever the sources include, nobody reads what is
\* made later
ASSUME OrderAssumption ==
  \A t \in TaskIds, x \in [Sources -> 1..(MaxVersion + 1)] :
    ReadBy(t, x) \cap Built \subseteq {CfgFile} \cup UNION {Elements(Tasks[u].outputs) : u \in 1..(t - 1)}

Compiles(t, src, out) == \A f \in ReadBy(t, src) : There(f, src, out)

EnvGet(env, v) == IF v \in DOMAIN env THEN env[v] ELSE 0
HashEnvVars(env, vars) == [v \in vars |-> EnvGet(env, v)]

Compile(t, src, out, env) ==
  [task |-> t, from |-> [f \in ReadBy(t, src) |-> TextOf(f, src, out)],
   flags |-> HashEnvVars(env, Tasks[t].vars)]

(* ----- signatures ----- *)

SIG_NIL == <<"SIG_NIL", 0>>
NoSig == [sig |-> SIG_NIL]                 \* a KeyError on the way

ExplicitNodes(c, t) == [i \in DOMAIN Tasks[t].inputs |-> NodeOf(c, Tasks[t].inputs[i])]
HasExplicit(c, t) == \A i \in DOMAIN Tasks[t].inputs : ExplicitNodes(c, t)[i] \in DOMAIN c.node_sigs
SigExplicitDeps(c, t) ==
  [i \in DOMAIN Tasks[t].inputs |-> c.node_sigs[ExplicitNodes(c, t)[i]]]

NodeDeps(c, t) == IF t \in DOMAIN c.node_deps THEN c.node_deps[t] ELSE {}
HasImplicit(c, t) == NodeDeps(c, t) \subseteq DOMAIN c.node_sigs
\* a name stands for the place in the code's ordered list
ComputeSigImplicitDeps(c, t) == {<<n[1], c.node_sigs[n]>> : n \in NodeDeps(c, t)}

\* the dependencies of the last run are still the ones if their signature is
SameDeps(c, t) ==
  /\ t \in DOMAIN c.task_sigs
  /\ HasImplicit(c, t)
  /\ c.task_sigs[t].imp = ComputeSigImplicitDeps(c, t)

\* the scanner looks the included files up and lists those it finds
Scan(c, t, src) ==
  LET names == Included(t, src)
      looked == FindResources(c, names \ Built, src)
  IN [looked EXCEPT
        !.node_deps = Update(@, [u \in {t} |-> {NodeOf(looked, f) : f \in {g \in names : Known(looked, g)}}])]

SigImplicitDeps(c, t, src) ==
  IF ~Tasks[t].scan \/ SameDeps(c, t) THEN c ELSE Scan(c, t, src)

SigVars(t, env) == HashEnvVars(env, Tasks[t].vars)

\* the signature of a task, once its implicit dependencies are settled in c
Signature(c, t, env) ==
  IF ~HasExplicit(c, t) \/ (Tasks[t].scan /\ ~HasImplicit(c, t)) THEN NoSig
  ELSE LET exp == SigExplicitDeps(c, t)
           imp == IF Tasks[t].scan THEN ComputeSigImplicitDeps(c, t) ELSE SIG_NIL
           var == SigVars(t, env)
       IN [sig |-> <<exp, imp, var>>, exp |-> exp, imp |-> imp, var |-> var]

OutputNodes(t) == {BuildNode(o) : o \in Elements(Tasks[t].outputs)}

\* mutant: the outputs are not looked at
MustRunByTask(c, t, s) ==
  s = NoSig \/ t \notin DOMAIN c.task_sigs \/ c.task_sigs[t].sig # s.sig

\* RUN_ME or SKIP_ME, run_after being respected by the scheduler
MustRun(c, t, s) ==
  \/ s = NoSig
  \/ t \notin DOMAIN c.task_sigs
  \/ \E n \in OutputNodes(t) : n \notin DOMAIN c.node_sigs \/ c.node_sigs[n] # s.sig
  \/ c.task_sigs[t].sig # s.sig

\* after a successful run
PostRun(c, t, s) ==
  [c EXCEPT !.node_sigs = Update(@, [n \in OutputNodes(t) |-> s.sig]),
            !.task_sigs = Update(@, [u \in {t} |-> s])]
=============================================================================
