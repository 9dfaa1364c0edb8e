------------------------------ MODULE Configure ------------------------------
(***************************************************************************)
(* The configuration of a project: a script, wscript's configure function, *)
(* calls the methods of one ConfigurationContext one after the other, on a *)
(* machine that it knows nothing of.  check_tool looks for a compiler by   *)
(* running the rules of one candidate after the other, check compiles a    *)
(* small program, check_cfg asks pkg-config; what they find goes to the    *)
(* current environment, to config.h and in the end to the cache.           *)
(*                                                                         *)
(* A call of the script is a record: op, the method; what, its subject;    *)
(* how, the kind of test; store and define, uselib_store and define_name;  *)
(* mandatory; must, when the script itself stops at a false result;        *)
(* execute; inplace, when the environment is given and is no copy; vars,   *)
(* the flags that it carries.                                              *)
(***************************************************************************)
EXTENDS CompilerTools

CONSTANTS Machines,     \* the machines a script may find itself on
          Scripts       \* the scripts: sequences of calls

VARIABLES
  machine, script,
  at,        \* the next call of the script
  tables,     \* what every environment has of its own: default, and debug
  envname,   \* the current one
  known,     \* all_envs: the names that are in use
  derived,   \* debug was copied from default, which it looks in as well
  dict,      \* the tables of defines, each named for the environment it began in
  tools, tool_cache,
  loading,   \* the compiler that is being looked for
  test,      \* the test that is being run
  header,    \* config.h of each variant
  cache,     \* the stored environments
  status     \* "run", "stored" or "failed"; "idle" without a configuration

world == <<machine, script>>
envs  == <<tables, envname, known, derived, dict>>
conf  == <<tools, tool_cache>>
cvars == <<machine, script, at, tables, envname, known, derived, dict, tools, tool_cache,
           loading, test, header, cache, status>>

Call == [op |-> "", what |-> "", how |-> "", store |-> "", define |-> "", mandatory |-> FALSE,
         must |-> FALSE, execute |-> FALSE, inplace |-> FALSE, vars |-> NoVars]
Idle == [lang |-> "", left |-> <<>>, tool |-> "", rules |-> <<>>, new |-> TRUE, direct |-> FALSE]
NoTest == [call |-> Call, lang |-> "", ran |-> FALSE, ok |-> FALSE]

EnvOf(e) == IF e = "debug" /\ derived THEN <<tables["debug"], tables["default"]>> ELSE <<tables[e]>>
Env == EnvOf(envname)
V(key) == Get(Env, key)
\* assignments to conf.env
Assign(set) == tables' = [tables EXCEPT ![envname] = Over(set, @)]
Fatal == status' = "failed"

ConfInit ==
  /\ machine \in Machines /\ script \in Scripts
  /\ at = 1 /\ envname = "default" /\ known = {"default"} /\ derived = FALSE
  /\ tables = [e \in {"default", "debug"} |-> NoVars]
  /\ dict = [e \in {"default", "debug"} |-> NoVars]
  /\ tools = <<>> /\ tool_cache = {} /\ loading = Idle /\ test = NoTest
  /\ header = NoVars /\ cache = NoVars /\ status = "run"

Now == script[at]
Calling(op) ==
  /\ status = "run" /\ loading = Idle /\ test = NoTest
  /\ at <= Len(script) /\ Now.op = op
Advance == at' = at + 1 /\ UNCHANGED status
\* a result that the script, or require_, takes for an error
Result(ok) == IF Now.must /\ ~ok THEN Fatal /\ UNCHANGED at ELSE Advance

(***************************************************************************)
(* check_tool of compiler_cxx and compiler_cc, or of one compiler alone    *)
(* (how names it), which no other is tried after.                          *)
(***************************************************************************)
Compilers(lang) == IF lang = "CXX" THEN "compiler_cxx" ELSE "compiler_cc"
CompilerVar(lang) == IF lang = "CXX" THEN "COMPILER_CXX" ELSE "COMPILER_CC"

CheckTool ==
  /\ Calling("tool")
  /\ LET direct == Now.how # ""
         mag == <<IF direct THEN Now.how ELSE Compilers(Now.what), envname>>
     IN IF mag \in tool_cache
        THEN Result(V(Now.what) # <<>>) /\ UNCHANGED <<tool_cache, loading>>
        ELSE /\ tool_cache' = tool_cache \cup {mag}
             /\ loading' = IF direct
                           THEN [Idle EXCEPT !.lang = Now.what, !.tool = Now.how, !.rules = Rules(Now.how), !.direct = TRUE]
                           ELSE [Idle EXCEPT !.lang = Now.what, !.left = Candidates(Now.what, machine.os)]
             /\ UNCHANGED <<at, status>>
  /\ UNCHANGED <<world, envs, tools, test, header, cache>>

\* the loop over the compilers: a tool that is in the cache is not run again
NextCompiler ==
  /\ status = "run" /\ loading.lang # "" /\ loading.tool = ""
  /\ IF loading.left = <<>> THEN Fatal /\ UNCHANGED <<tool_cache, loading>>
     ELSE LET tool == Head(loading.left)
              mag  == <<tool, envname>>
          IN /\ loading' = [loading EXCEPT !.left = Tail(@), !.tool = tool, !.new = mag \notin tool_cache,
                                           !.rules = IF mag \in tool_cache THEN <<>> ELSE Rules(tool)]
             /\ tool_cache' = tool_cache \cup {mag}
             /\ UNCHANGED status
  /\ UNCHANGED <<world, at, envs, tools, test, header, cache>>

\* one rule: what it raises ends the candidate, and the loop goes on
Rule(name, effect) ==
  /\ status = "run" /\ loading.rules # <<>> /\ Head(loading.rules) = name
  /\ Assign(effect.set)
  /\ loading' = IF effect.ok THEN [loading EXCEPT !.rules = Tail(@)]
                ELSE [loading EXCEPT !.tool = "", !.rules = <<>>]
  /\ status' = IF effect.ok \/ ~loading.direct THEN status ELSE "failed"
  /\ UNCHANGED <<world, at, envname, known, derived, dict, test, header, cache>>

RunFindCompiler == Rule("find_compiler", FindCompiler(loading.tool, machine, Env)) /\ UNCHANGED conf
RunFindCpp      == Rule("find_cpp", FindCpp(machine, Env)) /\ UNCHANGED conf
RunCommonFlags  == Rule("common_flags", CommonFlags(loading.tool, Env)) /\ UNCHANGED conf
RunModifier     == Rule("modifier_platform", ModifierPlatform(loading.lang, machine, Env)) /\ UNCHANGED conf
RunAddFlags     == Rule("add_flags", AddFlags(loading.lang, machine, Env)) /\ UNCHANGED conf
RunLinkAddFlags == Rule("link_add_flags", LinkAddFlags(machine, Env)) /\ UNCHANGED conf

\* find_ar: check_tool('ar') and then the test
RunFindAr ==
  LET mag  == <<"ar", envname>>
      set  == IF mag \in tool_cache THEN NoVars ELSE DetectAr(machine, Env).set
  IN /\ Rule("find_ar", [set |-> set, ok |-> Get(<<set>> \o Env, "AR") # <<>>])
     /\ tool_cache' = tool_cache \cup {mag}
     /\ tools' = IF mag \in tool_cache THEN tools ELSE Append(tools, "ar")

\* cc_load_tools, cxx_load_tools
RunLoadTools ==
  LET tool == IF loading.lang = "CC" THEN "cc" ELSE "cxx"
      mag  == <<tool, envname>>
  IN /\ Rule("load_tools", Sets(NoVars))
     /\ tool_cache' = tool_cache \cup {mag}
     /\ tools' = IF mag \in tool_cache THEN tools ELSE Append(tools, tool)

\* the candidate is through (or was run before): the loop ends, the two
\* tools are recorded, and the script looks at the compiler
AcceptCompiler ==
  /\ status = "run" /\ loading.tool # "" /\ loading.rules = <<>>
  /\ IF V(loading.lang) # <<>> /\ ~loading.direct THEN Assign(CompilerVar(loading.lang) :> <<loading.tool>>)
                               ELSE UNCHANGED tables
  /\ tools' = tools \o (IF loading.new THEN <<loading.tool>> ELSE <<>>)
                    \o (IF loading.direct THEN <<>> ELSE <<Compilers(loading.lang)>>)
  /\ loading' = Idle
  /\ Result(V(loading.lang) # <<>>)
  /\ UNCHANGED <<world, envname, known, derived, dict, tool_cache, test, header, cache>>

(***************************************************************************)
(* The defines.  A derived environment that has none of its own takes the  *)
(* very table of its parent.                                               *)
(***************************************************************************)
DictName == IF V("defines") = <<>> THEN envname ELSE V("defines")[1]
Undefined == "#undefined"
Defined(name, value) ==
  [key \in {"defines", name} |-> IF key = "defines" THEN <<DictName>> ELSE <<value>>]
DefineAs(name, value) ==
  /\ dict' = [dict EXCEPT ![DictName] = (name :> value) @@ @]
  /\ Assign(Defined(name, value))
Defines(e) == LET ref == Get(EnvOf(e), "defines") IN IF ref = <<>> THEN NoVars ELSE dict[ref[1]]
HaveDefine(name) == "HAVE_" \o name

Define ==
  /\ Calling("define") /\ DefineAs(Now.define, "1") /\ Advance
  /\ UNCHANGED <<world, envname, known, derived, conf, loading, test, header, cache>>
Undefine ==
  /\ Calling("undefine") /\ DefineAs(Now.define, Undefined) /\ Advance
  /\ UNCHANGED <<world, envname, known, derived, conf, loading, test, header, cache>>

(***************************************************************************)
(* check: validate_c, run_c_code and post_check.                           *)
(***************************************************************************)
\* the defaults of validate_c; the kinds that have a define_name
Validated(c) ==
  [c EXCEPT !.store = IF @ = "" /\ c.how \in {"header", "function", "lib"} THEN c.what ELSE @,
            !.define = IF @ = "" /\ c.how \in {"header", "function", "type"} THEN HaveDefine(c.what) ELSE @]

Check ==
  /\ Calling("check")
  /\ LET cxx  == V("CXX_NAME") # <<>> /\ IsIn("cxx", tools)
         lang == IF cxx THEN "CXX" ELSE "CC"
     IN IF V(lang) = <<>> THEN Fatal /\ UNCHANGED test
        ELSE test' = [NoTest EXCEPT !.call = Validated(Now), !.lang = lang] /\ UNCHANGED status
  /\ UNCHANGED <<world, at, envs, conf, loading, header, cache>>

\* the program is compiled and linked by a build of its own, whose task
\* generator adds the flags to the environment that it was given
CanBuild(lang) == \A p \in {V(lang), V(LinkVar(lang))} : p # <<>> /\ p[1] \in DOMAIN machine.prog
\* mutant: the program is built with conf.env itself
RunCCodeInPlace ==
  /\ status = "run" /\ test # NoTest /\ ~test.ran
  /\ test' = [test EXCEPT !.ran = TRUE, !.ok = CanBuild(test.lang) /\ test.call.what \in machine.has]
  /\ Assign([k \in DOMAIN test.call.vars |-> V(k) \o test.call.vars[k]])
  /\ UNCHANGED <<world, at, envname, known, derived, dict, conf, loading, header, cache, status>>
RunCCode ==
  /\ status = "run" /\ test # NoTest /\ ~test.ran
  /\ test' = [test EXCEPT !.ran = TRUE,
                          !.ok = CanBuild(test.lang) /\ test.call.what \in machine.has]
  /\ IF test.call.inplace
     THEN Assign([k \in DOMAIN test.call.vars |-> V(k) \o test.call.vars[k]])
     ELSE UNCHANGED tables
  /\ UNCHANGED <<world, at, envname, known, derived, dict, conf, loading, header, cache, status>>

WithLibName(k, store) == k \o "_" \o store
\* what a test that succeeded adds to conf.env under its uselib_store
Found(env, c) ==
  LET keys == {WithLibName(k, c.store) : k \in DOMAIN c.vars}
  IN [s \in keys |-> LET k == CHOOSE x \in DOMAIN c.vars : WithLibName(x, c.store) = s
                     IN Unique(Get(env, s), c.vars[k])]

\* is_success: of a program that is run, its output
Success == test.ok /\ (test.call.execute => test.call.what \in machine.prints)
\* define_or_stuff is for the tests of code only, and not of libraries
Defining == test.call.define # "" /\ test.call.how \in {"header", "function", "type", "fragment"}

PostCheck ==
  /\ status = "run" /\ test.ran
  /\ IF test.call.mandatory /\ ~test.ok THEN Fatal /\ UNCHANGED <<at, tables, dict>>
     ELSE LET found == IF Success /\ test.call.store # "" THEN Found(Env, test.call) ELSE NoVars
              value == IF Success THEN "1" ELSE Undefined
          IN /\ Assign(Over(found, IF Defining THEN Defined(test.call.define, value) ELSE NoVars))
             /\ dict' = IF Defining THEN [dict EXCEPT ![DictName] = (test.call.define :> value) @@ @] ELSE dict
             /\ Result(Success)
  /\ test' = NoTest
  /\ UNCHANGED <<world, envname, known, derived, conf, loading, header, cache>>

(***************************************************************************)
(* check_cfg: a failure of pkg-config undefines nothing, and the result of *)
(* a success is its output, which is empty when only a version was asked   *)
(* for or when the package needs no flags.                                 *)
(***************************************************************************)
PkgConfig(c) ==
  "pkg-config" \in DOMAIN machine.prog /\ (c.how # "atleast_pkgconfig_version" => c.what \in machine.has)
StoreName(c) == IF c.store = "" THEN c.what ELSE c.store
CheckCfg ==
  /\ Calling("cfg")
  /\ IF ~PkgConfig(Now)
     THEN /\ IF Now.mandatory THEN Fatal /\ UNCHANGED at ELSE Result(FALSE)
          /\ UNCHANGED <<tables, dict>>
     ELSE LET name  == IF Now.how = "modversion" THEN StoreName(Now) \o "_VERSION" ELSE HaveDefine(StoreName(Now))
              flags == IF Now.how = "args" THEN Found(Env, [Now EXCEPT !.store = StoreName(Now)]) ELSE NoVars
          IN /\ IF Now.how = "atleast_pkgconfig_version" THEN UNCHANGED <<tables, dict>>
                ELSE /\ dict' = [dict EXCEPT ![DictName] = (name :> "1") @@ @]
                     /\ Assign("defines" :> <<DictName>> @@ name :> <<"1">> @@ flags)
             /\ Result(Now.how = "modversion" \/ (Now.how = "args" /\ DOMAIN Now.vars # {}))
  /\ UNCHANGED <<world, envname, known, derived, conf, loading, test, header, cache>>

(***************************************************************************)
(* The other methods.                                                      *)
(***************************************************************************)
FindProgram ==
  /\ Calling("program")
  /\ LET found == Located(machine, Env, <<Now.what>>, Now.store)
     IN IF found = <<>> /\ Now.mandatory THEN Fatal /\ UNCHANGED <<at, tables>>
        ELSE Assign(Now.store :> found) /\ Result(found # <<>>)
  /\ UNCHANGED <<world, envname, known, derived, dict, conf, loading, test, header, cache>>

AppendFlags ==
  /\ Calling("append") /\ Advance
  /\ LET env == AppendValue(Env, Now.what, Now.vars[Now.what])
     IN tables' = [tables EXCEPT ![envname] = env[1]]
  /\ UNCHANGED <<world, envname, known, derived, dict, conf, loading, test, header, cache>>

\* conf.set_env_name('debug', conf.env.copy())
SetEnvName ==
  /\ Calling("derive") /\ Advance
  /\ tables' = [tables EXCEPT !["debug"] = Own(Env)] /\ derived' = TRUE
  /\ known' = known \cup {"debug"}
  /\ UNCHANGED <<world, envname, dict, conf, loading, test, header, cache>>

\* setenv retrieves: an unknown name is an environment with nothing in it
Setenv ==
  /\ Calling("setenv") /\ Advance
  /\ envname' = Now.what /\ known' = known \cup {Now.what}
  /\ UNCHANGED <<world, tables, derived, dict, conf, loading, test, header, cache>>

SetVariant ==
  /\ Calling("variant") /\ Advance
  /\ Assign("_VARIANT_" :> <<Now.what>>)
  /\ UNCHANGED <<world, envname, known, derived, dict, conf, loading, test, header, cache>>
Variant(env) == IF Get(env, "_VARIANT_") = <<>> THEN "default" ELSE Get(env, "_VARIANT_")[1]

WriteConfigHeader ==
  /\ Calling("header") /\ Advance
  /\ header' = (Variant(Env) :> Defines(envname)) @@ header
  /\ LET env == AppendValue(Env, "cfg_files", <<"config.h">>)
     IN tables' = [tables EXCEPT ![envname] = env[1]]
  /\ UNCHANGED <<world, envname, known, derived, dict, conf, loading, test, cache>>

\* the parent's variables are written out with the environment's own
Merged(e) == IF Len(EnvOf(e)) = 2 THEN EnvOf(e)[1] @@ EnvOf(e)[2] ELSE EnvOf(e)[1]
Store ==
  /\ status = "run" /\ loading = Idle /\ test = NoTest /\ at > Len(script)
  /\ cache' = [e \in known |-> Merged(e)]
  /\ status' = "stored"
  /\ UNCHANGED <<world, at, envs, conf, loading, test, header>>

ConfNext ==
  \/ CheckTool \/ NextCompiler \/ AcceptCompiler
  \/ RunFindCompiler \/ RunFindCpp \/ RunFindAr \/ RunCommonFlags \/ RunModifier
  \/ RunLoadTools \/ RunAddFlags \/ RunLinkAddFlags
  \/ Check \/ RunCCode \/ PostCheck \/ CheckCfg \/ FindProgram
  \/ Define \/ Undefine \/ AppendFlags \/ SetEnvName \/ Setenv \/ SetVariant
  \/ WriteConfigHeader \/ Store

ConfSpec == ConfInit /\ [][ConfNext]_cvars

(***************************************************************************)
(* What a configuration promises, from the script and the machine alone.   *)
(***************************************************************************)
Settled == loading = Idle /\ test = NoTest
\* the environment that call i was made in, and where debug began
CurrentAt(i) ==
  LET before == {j \in 1..(i - 1) : script[j].op = "setenv"}
  IN IF before = {} THEN "default" ELSE script[CHOOSE j \in before : \A k \in before : k <= j].what
DerivedBy(i) == \E j \in 1..i : script[j].op = "derive"

\* after the configuration an environment is what the cache has of it
Visible(e, key) ==
  IF status # "stored" THEN Get(EnvOf(e), key)
  ELSE IF e \in DOMAIN cache /\ key \in DOMAIN cache[e] THEN cache[e][key] ELSE <<>>

ConfTypeOK ==
  /\ status \in {"idle", "run", "stored", "failed"} /\ at \in 1..(Len(script) + 1)
  /\ envname \in known /\ known \subseteq {"default", "debug"}
  /\ DOMAIN cache \subseteq known /\ DOMAIN header \subseteq {"default", "debug"}
  /\ status = "stored" => Settled /\ at = Len(script) + 1

\* A compiler that is recorded is what its name says and what CC and CXX
\* run, whichever candidates were tried and failed before it (sunc++ and
\* IBM's compilers are believed without a test).
CompilerIsWhatItSays ==
  \A e \in known, lang \in Langs :
    LET tool == Visible(e, CompilerVar(lang))
    IN Settled /\ tool # <<>> =>
       /\ Visible(e, lang) # <<>>
       /\ tool[1] \notin {"sunc++", "xlc++", "xlc"} =>
            /\ Is(machine, Visible(e, lang), CompilerOf(tool[1]))
            /\ Visible(e, NameVar(lang)) = <<CompilerOf(tool[1])>>
       /\ tool[1] # "sunc++" => Visible(e, LinkVar(lang)) = Visible(e, lang)

\* The variables for the linker are those of the compiler that was found
\* last, as it alone would have set them, and whatever else is set comes
\* from the other compiler that was found: candidates that failed left none.
LinkVars == DOMAIN GnuLink \cup DOMAIN XlcLink
AloneSets(lang, tool) ==
  LET env  == <<("DEST_OS" :> Visible("default", "DEST_OS"))>>
      flags == CommonFlags(tool, env).set
  IN IF IsIn("modifier_platform", Rules(tool))
     THEN ModifierPlatform(lang, machine, <<flags>> \o env).set @@ flags ELSE flags
LinkFlagsOfOne ==
  LET asked == {i \in 1..(at - 1) : script[i].op = "tool" /\ CurrentAt(i) = "default"
                                     /\ script[i].how = "" /\ ~DerivedBy(i)}
      lang(i) == script[i].what
      twice == \E i \in 1..Len(script) : script[i].op = "tool" /\ (script[i].how # "" \/ DerivedBy(i))
  IN (Settled /\ status # "failed" /\ asked # {} /\ ~twice) =>
       LET last  == CHOOSE i \in asked : \A j \in asked : j <= i
         alone == AloneSets(lang(last), Visible("default", CompilerVar(lang(last)))[1])
         others == {CompilerOf(Visible("default", CompilerVar(l))[1]) :
                      l \in {x \in Langs : Visible("default", CompilerVar(x)) # <<>>}}
     IN /\ \A v \in DOMAIN alone \cap LinkVars : Visible("default", v) = alone[v]
        /\ \A v \in {"RPATH_ST", "FULLSTATIC_MARKER"} :
             Visible("default", v) # <<>> => others \cap {"gcc", "icc", "xlc"} # {}

\* What a test of code defines is the truth about the machine, in the
\* environment that it was made in and in every header that tells of it.
Works(c) ==
  /\ c.what \in machine.has /\ (c.execute => c.what \in machine.prints)
  /\ LET lang == IF IsIn("cxx", tools) THEN "CXX" ELSE "CC"
     IN \A p \in {Visible("default", lang), Visible("default", LinkVar(lang))} : p # <<>> /\ p[1] \in DOMAIN machine.prog
Testing(i) == script[i].op = "check" /\ script[i].how \in {"header", "function", "type", "fragment"}
DefinesTrue ==
  \A i \in {j \in 1..(at - 1) : Testing(j)} :
    LET name  == Validated(script[i]).define
        truth == IF Works(script[i]) THEN "1" ELSE Undefined
    IN (\A j \in 1..Len(script) : script[j].op \in {"define", "undefine"} => script[j].define # name) =>
       /\ Settled => name \in DOMAIN Defines(CurrentAt(i)) /\ Defines(CurrentAt(i))[name] = truth
       /\ \A v \in DOMAIN header : name \in DOMAIN header[v] => header[v][name] = truth

\* The flags under a uselib_store tell of the tests that succeeded, each
\* once, and are seen where the test was made.
FlagsFound ==
  LET tests == {j \in 1..(at - 1) : script[j].op = "check" /\ script[j].how = "lib"}
  IN \A i \in tests :
       LET key   == WithLibName("LIB", Validated(script[i]).store)
           lib   == script[i].vars["LIB"][1]
           times == Cardinality({j \in DOMAIN Visible(CurrentAt(i), key) : Visible(CurrentAt(i), key)[j] = lib})
           other == {j \in tests : Validated(script[j]).store = Validated(script[i]).store}
       IN Settled => /\ Works(script[i]) => times = 1
                     /\ times > 0 => times = 1 /\ \E j \in other : Works(script[j])

\* A variant has the flags that were added before it was split off and its
\* own, and default none of debug's: debug looks in default for the flags
\* that it has not added to yet, and for those alone.
VariantsApart ==
  \A i \in {j \in 1..(at - 1) : script[j].op = "append"} :
    LET c == script[i]
        flag == c.vars[c.what][1]
        touched == \E j \in 1..(i - 1) : script[j].op = "append" /\ script[j].what = c.what
                                          /\ CurrentAt(j) = "debug"
        shared == derived /\ (DerivedBy(i) => ~touched)
    IN /\ IsIn(flag, Visible(CurrentAt(i), c.what))
       /\ CurrentAt(i) = "debug" => ~IsIn(flag, Visible("default", c.what))
       /\ CurrentAt(i) = "default" => (IsIn(flag, Visible("debug", c.what)) <=> shared)

\* Nothing is stored unless all that is mandatory, or that the script
\* insists on, is there.
StoredIsComplete ==
  status = "stored" =>
    \A i \in 1..Len(script) :
      LET c == script[i]
      IN c.mandatory \/ c.must =>
         CASE c.op = "check"   -> Works(c)
           [] c.op = "cfg"     -> PkgConfig(c)
           [] c.op = "program" -> Get(EnvOf(CurrentAt(i)), c.store) # <<>>
           [] c.op = "tool"    -> Get(EnvOf(CurrentAt(i)), c.what) # <<>>
           [] OTHER            -> TRUE

\* The build loads the tools that are recorded: the compilers of the cache,
\* the archiver and the languages are among them.
ToolsRecorded ==
  status = "stored" =>
    \A e \in known, lang \in Langs :
      LET tool == Visible(e, CompilerVar(lang))
      IN tool # <<>> =>
         \A t \in {tool[1], "ar", Compilers(lang), IF lang = "CC" THEN "cc" ELSE "cxx"} : IsIn(t, tools)

\* A test that fails changes nothing of the environment but its define, if
\* the script has not given the environment itself to it.
FailedTestLeavesNoTrace ==
  [][test # NoTest =>
       \A e \in {"default", "debug"} : \A key \in DOMAIN tables[e]' \cup DOMAIN tables[e] :
         Get(EnvOf(e), key)' # Get(EnvOf(e), key) =>
           \/ key \in {"defines", test.call.define}
           \/ test.call.inplace \/ (test.ran /\ Success)]_cvars

\* The compilers: what is recorded of them is true, comes from those that were
\* chosen alone, and is all that the build needs.
CompilerSound == ConfTypeOK /\ CompilerIsWhatItSays /\ LinkFlagsOfOne /\ ToolsRecorded

\* The results of the tests: the defines and flags tell the truth, in the
\* variant that asked and in no other, and only a complete set is stored.
ResultsTrue == DefinesTrue /\ FlagsFound /\ VariantsApart /\ StoredIsComplete
=============================================================================
