---------------------------- MODULE MeguroTasks ----------------------------
(***************************************************************************)
(* The tasks of meguro's own build, which wscript declares: three rules    *)
(* that make NSPR, SpiderMonkey and Tokyo Cabinet, the substitution that   *)
(* writes meguro_version.h, the compilations (two stand for all fourteen)  *)
(* and the link.                                                           *)
(***************************************************************************)
EXTENDS Runner

Class(name) == [name |-> name, before |-> {}, after |-> {}, ext_in |-> {}, ext_out |-> {},
                maxjobs |-> MAXJOBS]

NoFiles == [ins |-> {}, outs |-> {}, deps |-> {}, variant |-> "default"]

Nspr == 1  SpiderMonkey == 2  TokyoCabinet == 3  VersionHeader == 4
Sources == {5, 6}  Program == 7
MeguroTaskSet == 1..7

\* The classes of cxx.py's tasks.
Cxx     == [Class("cxx") EXCEPT !.ext_in = {".cxx"}, !.ext_out = {".o"}]
CxxLink == [Class("cxx_link") EXCEPT !.ext_in = {".o"}, !.ext_out = {".bin"}, !.maxjobs = 1]

\* exec_rule gives the task's class the before of the task generator;
\* apply_subst does not, so that the before="cc" of the header is lost.
Rule(name, before) == [Class(name) EXCEPT !.before = before]
Subst == Class("copy")

MeguroClasses == <<Rule("nspr", {"spidermonkey"}), Rule("spidermonkey", {"cxx"}),
                   Rule("tokyocabinet", {"cxx"}), Subst, Cxx, Cxx, CxxLink>>

MeguroProject(algotype, keep) ==
  [groups |-> <<[t \in MeguroTaskSet |-> t]>>,
   cstr |-> MeguroClasses,
   after |-> [t \in MeguroTaskSet |-> {}],
   more |-> [t \in MeguroTaskSet |-> <<>>],
   marked |-> {}, file_deps |-> "nada", files |-> [t \in MeguroTaskSet |-> NoFiles],
   fates |-> [t \in MeguroTaskSet |-> {"ok", "crash"}],
   algotype |-> algotype, keep |-> keep]

\* The projects with meguro's classes are meguro's own, built as wscript has it.
OnlyMeguro == \A p \in Projects : p.cstr = MeguroClasses => p = MeguroProject("NORMAL", FALSE)

\* No source of meguro is compiled before the header with the version is
\* written and the libraries it includes are made: nothing orders the header,
\* it is in the first set, and the sources in the third.
HeadersFirst ==
  project.cstr = MeguroClasses =>
    \A t \in Sources : Running(t) =>
       \A u \in {Nspr, SpiderMonkey, TokyoCabinet, VersionHeader} :
          hasrun[u] \in {"SUCCESS", "SKIPPED"}

\* Nothing runs before what it needs, whichever way that was said: by classes
\* and groups, by run_after, by the files, by meguro's before="cc".
PredecessorsFirst == OrderRespected /\ WritersFirst /\ HeadersFirst
=============================================================================
