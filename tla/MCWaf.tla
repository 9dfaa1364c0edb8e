------------------------------- MODULE MCWaf -------------------------------
(***************************************************************************)
(* A program of one source and two headers: the second version of h names  *)
(* g, the first does not; the header the configuration writes is named by  *)
(* the source.  One task compiles, one links, and the program is installed.*)
(* The source keeps its includes when it is edited, but in MCNewIncludes.  *)
(***************************************************************************)
EXTENDS Waf

MCSources == {"a.c", "h.h", "g.h"}
MCCfgFile == "config.h"
MCTasks ==
  <<[inputs |-> <<"a.c">>, outputs |-> <<"a.o">>, scan |-> TRUE, vars |-> {"FLAGS"}, install |-> FALSE],
    [inputs |-> <<"a.o">>, outputs |-> <<"prog">>, scan |-> FALSE, vars |-> {"SCRIPT"}, install |-> TRUE]>>
MCIncludes ==
  [f \in MCSources |->
     CASE f = "a.c" -> <<{"h.h", "config.h"}, {"h.h", "config.h"}>>
       [] f = "h.h" -> <<{}, {"g.h"}>>
       [] OTHER -> <<{}, {}>>]
MCCommandLines == {<<"configure">>, <<"build">>, <<"install">>, <<"uninstall">>,
                   <<"clean", "build">>, <<"distclean">>}
MCSettings ==
  {[wafcache |-> FALSE, autoconfig |-> FALSE, edits |-> {"a.c", "h.h", "g.h"}, removes |-> FALSE],
   [wafcache |-> TRUE, autoconfig |-> FALSE, edits |-> {"h.h", "flags"}, removes |-> FALSE],
   [wafcache |-> FALSE, autoconfig |-> TRUE, edits |-> {"flags", "wscript"}, removes |-> TRUE]}

\* the user removes the folder in the build directory and edits a header
MCRemovingFolders ==
  {[wafcache |-> FALSE, autoconfig |-> FALSE, edits |-> {"h.h"}, removes |-> TRUE]}
\* the second version of the source names g too, and the user edits both
MCNewIncludes == [MCIncludes EXCEPT !["a.c"] = <<{"h.h", "config.h"}, {"h.h", "config.h", "g.h"}>>]
MCNamingHeaders ==
  {[wafcache |-> FALSE, autoconfig |-> FALSE, edits |-> {"a.c", "g.h"}, removes |-> FALSE]}
=============================================================================
