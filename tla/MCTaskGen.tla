------------------------------ MODULE MCTaskGen ------------------------------
(***************************************************************************)
(* Small projects for the task generators and, on their own, all ways to   *)
(* sort four methods with up to three decorators.                          *)
(***************************************************************************)
EXTENDS TaskGen, MethodOrder

Src(n, e) == [name |-> n, ext |-> e]
A == Src("a", ".c")
B == Src("b", ".cc")
C == Src("c", ".c")

Prog(features, source, libs) ==
  [Generator EXCEPT !.features = features, !.source = source, !.uselib_local = libs]

\* meguro's program: C++ sources with flags, a subst and rules before it
MCMeguro ==
  <<[Generator EXCEPT !.features = <<"subst">>, !.source = <<A>>],
    [Generator EXCEPT !.rule = TRUE, !.source = <<C>>],
    [Generator EXCEPT !.features = <<"cxx", "cprogram">>, !.source = <<B>>,
       !.uselib = <<"TC", "JS">>, !.includes = <<<<"dir", ".">>>>, !.linkflags = <<<<"flag", "-g">>>>]>>

\* a program, a shared library and the static one that it was linked with
MCLibraries ==
  <<[Prog(<<"cc", "cprogram">>, <<A>>, <<2>>) EXCEPT !.linkflags = <<<<"flag", "-g">>>>],
    [Prog(<<"cc", "cshlib">>, <<C>>, <<3>>) EXCEPT !.vnum = TRUE, !.export_incdirs = <<<<"dir", "inc">>>>,
                                                   !.uselib = <<"TC">>],
    Prog(<<"cc", "cstaticlib">>, <<A, C>>, <<>>)>>

MCDiamond ==
  <<Prog(<<"cc", "cstaticlib">>, <<A>>, <<>>),
    Prog(<<"cc", "cstaticlib">>, <<C>>, <<1>>),
    Prog(<<"cc", "cxx", "cprogram">>, <<A, B>>, <<2, 1, 2>>)>>

MCObjects ==
  <<[Prog(<<"cc", "cprogram">>, <<A>>, <<>>) EXCEPT !.add_objects = <<2, 3>>, !.obj_files = <<B>>],
    [Prog(<<"cc">>, <<C>>, <<>>) EXCEPT !.add_objects = <<3>>],
    Prog(<<"cc">>, <<A, C>>, <<>>)>>

MCSequence ==
  <<[Prog(<<"copy", "seq">>, <<A, C>>, <<>>) EXCEPT !.rule = FALSE],
    [Generator EXCEPT !.features = <<"seq">>, !.rule = TRUE, !.source = <<B>>],
    [Generator EXCEPT !.features = <<"seq">>, !.rule = TRUE, !.seq_start = TRUE],
    Prog(<<"cxx", "cprogram", "seq">>, <<B>>, <<>>)>>

\* a command that runs a program declared after it
MCCommand ==
  <<[Generator EXCEPT !.features = <<"command">>, !.dependencies = <<3, 2>>, !.hidden_inputs = <<A>>],
    [Generator EXCEPT !.features = <<"copy">>, !.source = <<A, C>>],
    Prog(<<"cc", "cprogram">>, <<C>>, <<>>)>>

MCProjects == {MCCommand, MCMeguro, MCLibraries, MCDiamond, MCObjects, MCSequence}

MCKeys == {<<"LINKFLAGS", "TC">>, <<"CPPPATH", "TC">>, <<"DEFINES", "JS">>, <<"cshlib", "LINKFLAGS">>,
           <<"cshlib", "CCFLAGS">>, <<"CPPPATH", "JS">>}
MCConfig == [v \in {"LINKFLAGS", "CPPPATH"} |-> <<<<"flag", "configured">>>>]
MCSuffixed == [k \in MCKeys |-> <<k>>]

MCMethods == {"first", "second", "third", "fourth"}
MCDecorators == [before : BOOLEAN, k : MCMethods, func : MCMethods]
MCTables == {TableOf(rs) : rs \in UNION {[1..n -> MCDecorators] : n \in 0..3}}

NoSort == keys = {} /\ prec = <<>> /\ tmp = <<>> /\ out = <<>> /\ table = EmptyTable
NoProject == project = <<>> /\ gens = <<>> /\ tasks = <<>> /\ stack = <<>> /\ prev = 0 /\ installs = {}

=============================================================================
