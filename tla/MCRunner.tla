------------------------------ MODULE MCRunner ------------------------------
(***************************************************************************)
(* Instances of Runner for TLC.                                            *)
(***************************************************************************)
EXTENDS MeguroTasks

MCTasks == MeguroTaskSet
Nothing == [t \in MCTasks |-> <<>>]
Alone == [t \in MCTasks |-> {}]
All(fates) == [t \in MCTasks |-> fates]
Runs == {"ok", "crash"}

Compile == [Class("cc") EXCEPT !.ext_in = {".c"}, !.ext_out = {".o"}]
Link == [Class("cc_link") EXCEPT !.ext_in = {".o"}, !.maxjobs = 1]
Generate == [Class("gen") EXCEPT !.before = {"cc"}]
Other == [Class("other") EXCEPT !.maxjobs = 2]

\* A generator, two compilations, two links that may only run alone.
Library(algotype, keep) ==
  [groups |-> <<<<1, 2, 3, 4, 5>>>>,
   cstr |-> <<Generate, Compile, Compile, Link, Link, Other, Other>>,
   after |-> Alone, more |-> Nothing,
   fates |-> <<{"ok", "skip"}, {"ok", "crash", "raise"},
              IF keep THEN {"ok"} ELSE {"ok", "missing"}, {"ok"},
              {"ok", "missing", "raise_status"}, {"ok"}, {"ok"}>>,
   file_deps |-> "nada", files |-> All(NoFiles),
   marked |-> {}, algotype |-> algotype, keep |-> keep]

\* Two groups, a task that runs after another of its class.
TwoGroups(algotype, keep) ==
  [groups |-> <<<<1, 2, 3>>, <<4, 5>>>>,
   cstr |-> <<Compile, Compile, Link, Compile, Other, Other, Other>>,
   after |-> [Alone EXCEPT ![2] = {1}, ![5] = IF algotype = "JOBCONTROL" THEN {} ELSE {4}],
   more |-> Nothing,
   fates |-> All(Runs \cup {"skip"}),
   file_deps |-> "nada", files |-> All(NoFiles),
   marked |-> IF keep THEN {3} ELSE {}, algotype |-> algotype, keep |-> keep]

\* The first task creates two more.
Growing(algotype, keep) ==
  [groups |-> <<<<1, 2>>, <<3>>>>,
   cstr |-> <<Compile, Compile, Compile, Other, Other, Other, Other>>,
   after |-> [Alone EXCEPT ![5] = {4}], more |-> [Nothing EXCEPT ![1] = <<4, 5>>],
   fates |-> All(Runs),
   file_deps |-> "nada", files |-> All(NoFiles),
   marked |-> {}, algotype |-> algotype, keep |-> keep]

\* Two classes each of which wants to be before the other: no order is found.
Circle(algotype, keep) ==
  [groups |-> <<<<1, 2, 3>>>>,
   cstr |-> <<[Class("a") EXCEPT !.before = {"b"}], [Class("b") EXCEPT !.before = {"c"}],
              [Class("c") EXCEPT !.before = {"a"}], Other, Other, Other, Other>>,
   after |-> Alone, more |-> Nothing, fates |-> All({"ok"}),
   file_deps |-> "nada", files |-> All(NoFiles),
   marked |-> {}, algotype |-> algotype, keep |-> keep]

\* Three tasks of one class: the first reads what the second writes, the third
\* includes it.
Chained(file_deps) ==
  [groups |-> <<<<1, 2, 3>>>>,
   cstr |-> <<Other, Other, Other, Other, Other, Other, Other>>,
   after |-> Alone, more |-> Nothing, fates |-> All({"ok", "crash", "skip"}),
   file_deps |-> file_deps,
   files |-> [All(NoFiles) EXCEPT ![1].ins = {"f"}, ![2].outs = {"f"}, ![3].deps = {"f"}],
   marked |-> {}, algotype |-> "NORMAL", keep |-> FALSE]

\* The second task waits for one whose output may be missing; -k goes on.
Missing(algotype, keep) ==
  [groups |-> <<<<1, 2>>>>,
   cstr |-> <<Compile, Link, Other, Other, Other, Other, Other>>,
   after |-> [Alone EXCEPT ![2] = {1}], more |-> Nothing, fates |-> All({"ok", "missing"}),
   file_deps |-> "nada", files |-> All(NoFiles),
   marked |-> {}, algotype |-> algotype, keep |-> keep]

Algorithms == {"NORMAL", "JOBCONTROL", "MAXPARALLEL"}
MCProjects ==
  {Library(a, k) : a \in Algorithms, k \in BOOLEAN} \cup
  {TwoGroups(a, k) : a \in Algorithms, k \in BOOLEAN} \cup
  {Growing(a, k) : a \in {"NORMAL", "MAXPARALLEL"}, k \in BOOLEAN} \cup
  {MeguroProject(a, FALSE) : a \in {"NORMAL"}} \cup
  {Chained(f) : f \in {"extract_outputs", "extract_deps"}} \cup
  {Circle(a, FALSE) : a \in {"NORMAL", "JOBCONTROL"}}
MissingProjects == {Missing(a, TRUE) : a \in Algorithms}

\* What the theorems about the order of the tasks suppose of the projects.
ASSUME MCProjectsAreOrdered == Consistent /\ OnlyMeguro

\* "keep running happily on independent task groups": the build with -k ends
\* although the output of a task is missing.
KeepGoesOn == <>(main \in {"built", "failed", "raised"})
=============================================================================
