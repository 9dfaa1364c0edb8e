----------------------------- MODULE MCConfigure -----------------------------
(***************************************************************************)
(* meguro's script on many machines, and small scripts of other calls on a *)
(* few machines.                                                           *)
(***************************************************************************)
EXTENDS Configure

Program(is, target) == [is |-> is, target |-> target]
Absent == Program("", "")
Installed(progs) == [n \in {x \in DOMAIN progs : progs[x] # Absent} |-> progs[n]]
Gnu(os) == Program("gcc", os)
Intel == Program("icc", "linux")
Sun == Program("sun", "")

\* what the names of the compilers may stand for: g++ and gcc are sometimes
\* links to another compiler
CxxSides ==
  {[prog |-> "g++" :> a @@ "c++" :> b @@ "icpc" :> c @@ "CC" :> d, environ |-> e] :
     a \in {Absent, Gnu("linux"), Intel}, b \in {Absent, Gnu(""), Sun}, c \in {Absent, Intel},
     d \in {Absent, Sun},
     e \in {NoVars, "CXX" :> <<"icpc">>, "CXX" :> <<"c++">>, "LINKFLAGS" :> <<"-s">> @@ "CPPFLAGS" :> <<"-I.">>}}
CcSides ==
  {[prog |-> "gcc" :> a @@ "cc" :> b @@ "icc" :> c, environ |-> e] :
     a \in {Absent, Gnu("linux")}, b \in {Absent, Gnu("linux"), Sun}, c \in {Absent, Intel},
     e \in {NoVars, "CC" :> <<"icc">>, "CC" :> <<"cc">>, "CFLAGS" :> <<"-O">> @@ "LDFLAGS" :> <<"-L.">>}}
Typical(side) == Cardinality({n \in DOMAIN side.prog : side.prog[n] # Absent}) = 1 /\ DOMAIN side.environ = {}

Common == {"rt", "bz2", "z", "pthread", "dl", "zlib.h", "mmap"}
Machine(os, cxx, cc, others, has) ==
  [os |-> os, prog |-> Installed(cxx.prog @@ cc.prog @@ others), environ |-> cxx.environ @@ cc.environ,
   has |-> has, prints |-> IF "glib" \in has THEN has ELSE {}]
Binutils == "ar" :> Gnu("") @@ "ranlib" :> Gnu("") @@ "cpp" :> Gnu("")

LinuxMachines ==
  {Machine("linux", cxx, cc, Binutils, Common) : cxx \in CxxSides, cc \in {s \in CcSides : Typical(s)}}
  \cup {Machine("linux", cxx, cc, Binutils, Common) : cxx \in {s \in CxxSides : Typical(s)}, cc \in CcSides}
GnuCxx(os) == [prog |-> "g++" :> Gnu(os), environ |-> NoVars]
GnuCc(os)  == [prog |-> "gcc" :> Gnu(os), environ |-> NoVars]
Xlc == Program("xlc", "")
SunCxx == [prog |-> "CC" :> Sun, environ |-> NoVars]
SunCc  == [prog |-> "cc" :> Sun, environ |-> NoVars]
OtherMachines ==
  {Machine(os, GnuCxx(os), GnuCc(os), Binutils, Common) : os \in {"cygwin", "darwin", "aix", "sunos"}}
  \cup {Machine("linux", GnuCxx(os), GnuCc(os), Binutils, Common) : os \in {"win32", "cygwin"}}
  \cup {Machine("aix", [prog |-> "xlc++" :> Xlc @@ "g++" :> Gnu("aix"), environ |-> NoVars],
                       [prog |-> c :> Xlc @@ "gcc" :> Gnu("aix"), environ |-> NoVars], Binutils, Common) :
          c \in {"xlc", "xlc_r", "cc"}}
  \cup {Machine("sunos", cxx, cc, Binutils, Common) : cxx \in {SunCxx, GnuCxx("sunos")}, cc \in {SunCc, GnuCc("sunos")}}
  \cup {Machine("linux", GnuCxx("linux"), GnuCc("linux"), others, Common) :
          others \in {NoVars, "ranlib" :> Gnu("")}}
  \cup {Machine("linux", GnuCxx("linux"), GnuCc("linux"), Binutils, has) : has \in {Common \ {"bz2"}, Common \ {"rt"}, {}}}
WithPkgConfig == Binutils @@ "pkg-config" :> Gnu("")
NoLinker == [prog |-> "CC" :> Sun, environ |-> "LINK_CXX" :> <<"none">>]
TestMachines ==
  {Machine("linux", GnuCxx("linux"), GnuCc("linux"), WithPkgConfig, has) :
     has \in {{"rt", "zlib.h"}, {"mmap"}, {"rt", "mmap", "glib"}}}
  \cup {Machine("linux", cxx, GnuCc("linux"), Binutils, {"rt", "mmap"}) : cxx \in {GnuCxx("linux"), NoLinker}}

Tool(lang) == [Call EXCEPT !.op = "tool", !.what = lang, !.must = TRUE]
Lib(name, must) == [Call EXCEPT !.op = "check", !.how = "lib", !.what = name, !.must = must, !.vars = "LIB" :> <<name>>]
Flag(var, flag) == [Call EXCEPT !.op = "append", !.what = var, !.vars = var :> <<flag>>]
Op(op, what) == [Call EXCEPT !.op = op, !.what = what]

\* configure in meguro's wscript
MeguroScript ==
  <<Tool("CXX"), Tool("CC"), Lib("rt", FALSE), Lib("bz2", TRUE), Lib("z", TRUE), Lib("pthread", TRUE), Lib("dl", FALSE),
    Flag("CCFLAGS", "-rdynamic"), Flag("LINKFLAGS_dl", "-rdynamic"),
    [Op("define", "") EXCEPT !.define = "HAVE_CONFIG_H"], Flag("CXXFLAGS", "-D_LARGEFILE_SOURCE"),
    Op("derive", ""), Op("setenv", "debug"), Op("variant", "debug"),
    Flag("CCFLAGS", "-DDEBUG"), Flag("CXXFLAGS", "-DDEBUG"), Op("header", ""),
    Op("setenv", "default"), Flag("CCFLAGS", "-DNDEBUG"), Flag("CXXFLAGS", "-DNDEBUG"), Op("header", "")>>

\* other calls, two of them in a row, after a compiler and before a header
Test(how, name) == [Call EXCEPT !.op = "check", !.how = how, !.what = name]
Pkg(how, name) == [Call EXCEPT !.op = "cfg", !.how = how, !.what = name]
ScriptCalls ==
  {Lib("rt", FALSE), [Lib("rt", FALSE) EXCEPT !.mandatory = TRUE], [Lib("rt", FALSE) EXCEPT !.execute = TRUE],
   [Lib("rt", FALSE) EXCEPT !.define = "RT"], [Lib("mmap", FALSE) EXCEPT !.inplace = TRUE],
   Test("header", "zlib.h"), [Test("function", "mmap") EXCEPT !.mandatory = TRUE], Test("function", "mmap"),
   Test("type", "off_t"), [Test("fragment", "mmap") EXCEPT !.execute = TRUE, !.define = "MMAP_WORKS"],
   [Test("header", "zlib.h") EXCEPT !.must = TRUE],
   Pkg("args", "glib"), [Pkg("args", "glib") EXCEPT !.vars = "CPPPATH" :> <<"glib">>, !.must = TRUE],
   [Pkg("atleast_version", "glib") EXCEPT !.mandatory = TRUE], Pkg("modversion", "glib"),
   Pkg("atleast_pkgconfig_version", ""),
   [Op("program", "cpp") EXCEPT !.store = "GREP", !.mandatory = TRUE], [Op("program", "none") EXCEPT !.store = "NONE"],
   [Op("program", "none") EXCEPT !.store = "NONE", !.mandatory = TRUE],
   [Op("undefine", "") EXCEPT !.define = "OLD"], Op("setenv", "debug"), Op("derive", ""), Flag("CCFLAGS", "-first"),
   Flag("CCFLAGS", "-second"), Op("setenv", "default"), Op("header", "")}
Direct == [Tool("CC") EXCEPT !.how = "gcc"]
OtherScripts ==
  {first \o <<a, b>> \o <<Op("header", "")>> :
     first \in {<<Tool("CC")>>, <<Direct, Tool("CC")>>, <<Tool("CXX")>>}, a \in ScriptCalls, b \in ScriptCalls}
  \cup {<<Tool("CC"), Flag("CCFLAGS", "-early"), Op("derive", ""), a, Op("setenv", "debug"), b, Op("setenv", "default"), c, Op("header", "")>> :
          a \in {Flag("CCFLAGS", "-first"), Test("header", "zlib.h"), Lib("rt", FALSE)},
          b \in {Flag("CCFLAGS", "-second"), Test("function", "mmap"), Lib("rt", FALSE), Op("header", "")},
          c \in {Flag("CCFLAGS", "-third"), Lib("rt", FALSE), Tool("CXX")}}

MCMachines == LinuxMachines \cup OtherMachines \cup TestMachines
MCScripts == {MeguroScript} \cup OtherScripts
MCConfInit ==
  /\ ConfInit
  /\ IF script = MeguroScript THEN machine \notin TestMachines ELSE machine \in TestMachines
NoConf ==
  /\ machine = NoVars /\ script = <<>> /\ at = 1 /\ envname = "default" /\ known = {"default"} /\ derived = FALSE
  /\ tables = [e \in {"default", "debug"} |-> NoVars] /\ dict = tables
  /\ tools = <<>> /\ tool_cache = {} /\ loading = Idle /\ test = NoTest
  /\ header = NoVars /\ cache = NoVars /\ status = "idle"
=============================================================================
