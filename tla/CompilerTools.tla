---------------------------- MODULE CompilerTools ----------------------------
(***************************************************************************)
(* The compilers waf knows how to configure: which are tried on a system,  *)
(* the rules each one runs, and what every rule does to the environment.   *)
(* A rule only reads the environment and the machine it runs on, so it is  *)
(* an operator here: the variables it sets and whether it goes on or       *)
(* raises a ConfigurationError, with what it had set before left in place. *)
(*                                                                         *)
(* A machine is a record: os, the system; prog, the programs in the path   *)
(* and what each really is ("gcc", "icc", "sun" or "xlc") and compiles for *)
(* ("" when its macros do not tell); environ, the variables of the process *)
(* that are set.  A value of an environment is a list of strings and an    *)
(* empty one is false.  Only the variables that some pair of compilers set *)
(* differently are kept of the many that the tools assign.                 *)
(***************************************************************************)
EXTENDS Environment, TLC

Langs == {"CC", "CXX"}
NameVar(lang) == IF lang = "CC" THEN "CC_NAME" ELSE "CXX_NAME"
LinkVar(lang) == IF lang = "CC" THEN "LINK_CC" ELSE "LINK_CXX"
FlagVar(lang) == IF lang = "CC" THEN "CCFLAGS" ELSE "CXXFLAGS"
PicVar(lang)  == IF lang = "CC" THEN "shlib_CCFLAGS" ELSE "shlib_CXXFLAGS"

\* the tables cxx_compiler and c_compiler (win32's msvc is not modelled)
Candidates(lang, os) ==
  LET names == CASE os = "linux" -> <<"g++", "icpc", "sunc++", "gcc", "icc", "suncc">>
                 [] os = "sunos" -> <<"g++", "sunc++", "gcc", "suncc">>
                 [] os = "aix"   -> <<"xlc++", "g++", "xlc", "gcc">>
                 [] OTHER        -> <<"g++", "gcc">>
      half == Len(names) \div 2
  IN IF lang = "CXX" THEN SubSeq(names, 1, half) ELSE SubSeq(names, half + 1, Len(names))

CompilerOf(tool) ==
  CASE tool \in {"gcc", "g++"}      -> "gcc"
    [] tool \in {"icc", "icpc"}     -> "icc"
    [] tool \in {"suncc", "sunc++"} -> "sun"
    [] OTHER                        -> "xlc"

\* the detect function, or the list of rules, of each tool
Rules(tool) ==
  LET find  == <<"find_compiler">> \o (IF CompilerOf(tool) = "icc" THEN <<>> ELSE <<"find_cpp">>)
      flags == <<"find_ar", "common_flags">> \o
               (IF CompilerOf(tool) \in {"gcc", "icc"} THEN <<"modifier_platform">> ELSE <<>>)
      links == IF tool \in {"gcc", "icc", "suncc"} THEN <<"link_add_flags">> ELSE <<>>
  IN find \o flags \o <<"load_tools", "add_flags">> \o links

NoVars == [x \in {} |-> <<>>]
Sets(set) == [set |-> set, ok |-> TRUE]
Raises(set) == [set |-> set, ok |-> FALSE]

\* find_program: the variable, else the process's, else the first in the path
Located(m, env, names, var) ==
  IF Get(env, var) # <<>> THEN Get(env, var)
  ELSE IF var \in DOMAIN m.environ THEN m.environ[var]
  ELSE LET found == SelectSeq(names, LAMBDA n : n \in DOMAIN m.prog)
       IN IF found = <<>> THEN <<>> ELSE <<Head(found)>>

\* a variable of the environment or of the process, without a search
Given(m, env, var) == Located(m, env, <<>>, var)

Is(m, program, compiler) ==
  program[1] \in DOMAIN m.prog /\ m.prog[program[1]].is = compiler

\* mutant: any program that runs will do
GetCcVersionUntested(m, program, compiler) ==
  IF program[1] \notin DOMAIN m.prog THEN Raises([x \in {} |-> <<>>])
  ELSE Sets([x \in {} |-> <<>>])
\* get_cc_version: raises when the macros of the program are not those of
\* the compiler that was asked for, and else tells what it compiles for
GetCcVersion(m, program, compiler) ==
  IF ~Is(m, program, compiler) THEN Raises(NoVars)
  ELSE Sets(IF m.prog[program[1]].target = "" THEN NoVars
            ELSE "DEST_OS" :> <<m.prog[program[1]].target>>)

\* find_program has stored the program when the test of its version fails
FindGnu(m, env, lang, names) ==
  LET program == Located(m, env, names, lang)
      version == GetCcVersion(m, program, "gcc")
  IN IF program = <<>> THEN Raises(NoVars)
     ELSE IF ~version.ok THEN Raises(lang :> program)
     ELSE Sets(lang :> program @@ NameVar(lang) :> <<"gcc">> @@ version.set)
FindGxx(m, env) == FindGnu(m, env, "CXX", <<"g++", "c++">>)
FindGcc(m, env) == FindGnu(m, env, "CC", <<"gcc", "cc">>)

FindIntel(m, env, lang, names) ==
  LET given   == Given(m, env, lang)
      program == Located(m, env, names, lang)
      version == GetCcVersion(m, program, "icc")
      stored  == IF given = <<>> THEN lang :> program ELSE NoVars
  IN IF m.os = "cygwin" THEN Raises(NoVars)
     ELSE IF program = <<>> THEN Raises(stored)
     ELSE IF ~version.ok THEN Raises(stored)
     ELSE Sets(lang :> program @@ NameVar(lang) :> <<"icc">> @@ version.set)
FindIcpc(m, env) == FindIntel(m, env, "CXX", <<"icpc">>)
FindIcc(m, env)  == FindIntel(m, env, "CC", <<"icc", "ICL">>)

\* any program that is given or found is taken for Sun's C++ compiler
FindSxx(m, env) ==
  LET program == Located(m, env, <<"c++", "CC">>, "CXX")
  IN IF program = <<>> THEN Raises("CXX" :> <<>>)
     ELSE Sets("CXX" :> program @@ "CXX_NAME" :> <<"sun">>)

\* the C compiler has to understand -flags
FindScc(m, env) ==
  LET given   == Given(m, env, "CC")
      program == Located(m, env, <<"cc">>, "CC")
      stored  == IF given = <<>> THEN "CC" :> program ELSE NoVars
  IN IF program = <<>> \/ ~Is(m, program, "sun") THEN Raises(stored)
     ELSE Sets("CC" :> program @@ "CC_NAME" :> <<"sun">>)

\* the version of IBM's compilers is not asked for
FindXlcxx(m, env) ==
  LET program == Located(m, env, <<"xlc++_r", "xlc++">>, "CXX")
  IN IF program = <<>> THEN Raises(NoVars)
     ELSE Sets("CXX" :> program @@ "CXX_NAME" :> <<"xlc++">>)
FindXlc(m, env) ==
  LET program == Located(m, env, <<"xlc_r", "xlc">>, "CC")
  IN IF program = <<>> THEN Raises(NoVars)
     ELSE Sets("CC" :> program @@ "CC_NAME" :> <<"xlc">>)

FindCompiler(tool, m, env) ==
  CASE tool = "g++"    -> FindGxx(m, env)
    [] tool = "gcc"    -> FindGcc(m, env)
    [] tool = "icpc"   -> FindIcpc(m, env)
    [] tool = "icc"    -> FindIcc(m, env)
    [] tool = "sunc++" -> FindSxx(m, env)
    [] tool = "suncc"  -> FindScc(m, env)
    [] tool = "xlc++"  -> FindXlcxx(m, env)
    [] tool = "xlc"    -> FindXlc(m, env)

FirstOf(values) ==
  LET given == SelectSeq(values, LAMBDA v : v # <<>>)
  IN IF given = <<>> THEN <<>> ELSE Head(given)

\* the rule is attached by name when its file is imported: on AIX, where the
\* options import xlc.py last, xlc's hides the one of config_c and of xlc++
FindCpp(m, env) ==
  Sets("CPP" :> IF m.os = "aix" THEN FirstOf(<<Given(m, env, "CPP"), Get(env, "CC")>>)
                ELSE FirstOf(<<Located(m, env, <<"cpp">>, "CPP"), Get(env, "CC"), Get(env, "CXX")>>))

\* ar's detect, run the first time only, and the test of find_ar
DetectAr(m, env) ==
  Sets("AR" :> Located(m, env, <<"ar">>, "AR") @@ "RANLIB" :> Located(m, env, <<"ranlib">>, "RANLIB")
       @@ "ARFLAGS" :> <<"rcs">>)

(***************************************************************************)
(* The flags.  gcc.py, gxx.py and the others assign the same variables for *)
(* the linker, and their own for the language.                             *)
(***************************************************************************)
LinkDefault(lang, env) == LinkVar(lang) :> FirstOf(<<Get(env, LinkVar(lang)), Get(env, lang)>>)

GnuLink ==
  [RPATH_ST |-> <<"-Wl,-rpath,">>, SONAME_ST |-> <<"-Wl,-h,">>, SHLIB_MARKER |-> <<"-Wl,-Bdynamic">>,
   STATICLIB_MARKER |-> <<"-Wl,-Bstatic">>, FULLSTATIC_MARKER |-> <<"-static">>,
   program_PATTERN |-> <<"%s">>, shlib_PATTERN |-> <<"lib%s.so">>, staticlib_PATTERN |-> <<"lib%s.a">>,
   shlib_LINKFLAGS |-> <<"-shared">>, staticlib_LINKFLAGS |-> <<"-Wl,-Bstatic">>]
SunLink ==
  [SONAME_ST |-> <<"-Wl,-h -Wl,">>, SHLIB_MARKER |-> <<"-Bdynamic">>, STATICLIB_MARKER |-> <<"-Bstatic">>,
   program_PATTERN |-> <<"%s">>, shlib_PATTERN |-> <<"lib%s.so">>, staticlib_PATTERN |-> <<"lib%s.a">>,
   shlib_LINKFLAGS |-> <<"-G">>, staticlib_LINKFLAGS |-> <<"-Bstatic">>]
XlcLink ==
  [RPATH_ST |-> <<"-Wl,-rpath,">>, SONAME_ST |-> <<>>, SHLIB_MARKER |-> <<>>, STATICLIB_MARKER |-> <<>>,
   FULLSTATIC_MARKER |-> <<"-static">>, program_LINKFLAGS |-> <<"-Wl,-brtl">>,
   program_PATTERN |-> <<"%s">>, shlib_PATTERN |-> <<"lib%s.so">>, staticlib_PATTERN |-> <<"lib%s.a">>,
   shlib_LINKFLAGS |-> <<"-G", "-Wl,-brtl,-bexpfull">>, staticlib_LINKFLAGS |-> <<>>]

GxxCommonFlags(env) == PicVar("CXX") :> <<"-fPIC", "-DPIC">> @@ LinkDefault("CXX", env) @@ GnuLink
GccCommonFlags(env) == PicVar("CC") :> <<"-fPIC", "-DPIC">> @@ LinkDefault("CC", env) @@ GnuLink
SxxCommonFlags(env) == PicVar("CXX") :> <<"-Kpic", "-DPIC">> @@ LinkDefault("CXX", env) @@ SunLink
SccCommonFlags(env) == PicVar("CC") :> <<"-Kpic", "-DPIC">> @@ LinkDefault("CC", env) @@ SunLink
XlcxxCommonFlags(env) == PicVar("CXX") :> <<"-fPIC", "-DPIC">> @@ LinkDefault("CXX", env) @@ XlcLink
XlcCommonFlags(env) == PicVar("CC") :> <<"-fPIC", "-DPIC">> @@ LinkDefault("CC", env) @@ XlcLink

CommonFlags(tool, env) ==
  Sets(CASE tool \in {"g++", "icpc"} -> GxxCommonFlags(env)
         [] tool \in {"gcc", "icc"}  -> GccCommonFlags(env)
         [] tool = "sunc++" -> SxxCommonFlags(env)
         [] tool = "suncc"  -> SccCommonFlags(env)
         [] tool = "xlc++"  -> XlcxxCommonFlags(env)
         [] tool = "xlc"    -> XlcCommonFlags(env))

\* gxx_modifier_<system> and gcc_modifier_<system>
ModifierDarwin(lang) ==
  PicVar(lang) :> <<"-fPIC", "-compatibility_version", "1", "-current_version", "1">>
  @@ [shlib_LINKFLAGS |-> <<"-dynamiclib">>, shlib_PATTERN |-> <<"lib%s.dylib">>, staticlib_LINKFLAGS |-> <<>>,
      SHLIB_MARKER |-> <<>>, STATICLIB_MARKER |-> <<>>, SONAME_ST |-> <<>>]
ModifierAix ==
  [program_LINKFLAGS |-> <<"-Wl,-brtl">>, shlib_LINKFLAGS |-> <<"-shared", "-Wl,-brtl,-bexpfull">>,
   SHLIB_MARKER |-> <<>>]
ModifierWin32(lang, env) ==
  PicVar(lang) :> Append(Get(env, PicVar(lang)), "-DDLL_EXPORT")
  @@ [program_PATTERN |-> <<"%s.exe">>, shlib_PATTERN |-> <<"%s.dll">>, implib_PATTERN |-> <<"lib%s.dll.a">>,
      LINKFLAGS |-> Append(Get(env, "LINKFLAGS"), "-Wl,--enable-auto-import")]
ModifierCygwin(lang, env) ==
  [shlib_PATTERN |-> <<"cyg%s.dll">>,
   shlib_LINKFLAGS |-> Append(Get(env, "shlib_LINKFLAGS"), "-Wl,--enable-auto-image-base")]
  @@ ModifierWin32(lang, env)

\* the system that is compiled for, when the compiler told, chooses
ModifierPlatform(lang, m, env) ==
  LET os == FirstOf(<<Get(env, "DEST_OS"), <<m.os>>>>)[1]
  IN Sets(CASE os = "darwin" -> ModifierDarwin(lang)
            [] os = "aix"    -> ModifierAix
            [] os = "win32"  -> ModifierWin32(lang, env)
            [] os = "cygwin" -> ModifierCygwin(lang, env)
            [] OTHER         -> NoVars)

\* add_os_flags: the variables of the process that name flags
OsFlags(m, env, var, dest) ==
  IF var \in DOMAIN m.environ THEN dest :> (Get(env, dest) \o m.environ[var]) ELSE NoVars
AddFlags(lang, m, env) ==
  Sets(OsFlags(m, env, IF lang = "CC" THEN "CFLAGS" ELSE "CXXFLAGS", FlagVar(lang))
       @@ OsFlags(m, env, "CPPFLAGS", "CPPFLAGS"))
LinkAddFlags(m, env) ==
  LET linked == OsFlags(m, env, "LINKFLAGS", "LINKFLAGS")
  IN Sets(OsFlags(m, <<linked>> \o env, "LDFLAGS", "LINKFLAGS") @@ linked)
=============================================================================
