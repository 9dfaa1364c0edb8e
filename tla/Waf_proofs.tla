----------------------------- MODULE Waf_proofs -----------------------------
(***************************************************************************)
(* Proofs about the commands of waf, for any tasks, edits, kills, removals *)
(* and failures.                                                           *)
(*                                                                         *)
(* WafIInv is about the files a configuration leaves: the environment is   *)
(* written first and the lock file last, so neither a kill between them    *)
(* nor an edit of the wscript lets a lock file vouch for an environment    *)
(* that is older than it says.                                             *)
(*                                                                         *)
(* InstIInv is about times: do_install copies only over a file that is     *)
(* older, so an installed file that is not older than the output has to be *)
(* a copy of it, wherever a build or an install was killed or has failed.  *)
(*                                                                         *)
(* BuildIInv and NeedIInv are about signatures.  GhostInv(K) has the pairs *)
(* K of an output's signature and the text that was made when the output   *)
(* got it.  As nothing is edited back, a signature that a task would get   *)
(* now was given to no other text than the one it would make now: so what  *)
(* is skipped is right.  NeedInv(Q) has outputs with the signature that    *)
(* goes with a text: so what is right is skipped.  Both sets exist because *)
(* each step shows how to go on from the one before.                       *)
(***************************************************************************)
EXTENDS Waf, FiniteSetTheorems, NaturalsInduction, WellFoundedInduction, TLAPS

(* ----- the inductive invariant ----- *)

\* the user's counters
UserTypes ==
  /\ src \in [Sources -> 1..(MaxVersion + 1)]
  /\ script \in Nat

\* The process: the wscript it has read is an old one only if something was
\* edited under its feet; the loop over the tasks stays in their sequence;
\* a clean installs nothing.
ProcessInv ==
  /\ pc \in Labels
  /\ DOMAIN p = DOMAIN Idle
  /\ p.script \in Nat
  /\ p.script <= script
  /\ pc # "idle" /\ ~p.edited => p.script = script
  /\ p.todo \in 0..(Len(Tasks) + 1)
  /\ pc = "status" => p.todo # 0
  /\ pc \in {"run", "finish"} => p.todo \in TaskIds
  /\ p.command = "clean" => p.is_install # INSTALL

\* What the steps of a command find: the fields of a context, the folder.
ContextInv ==
  /\ db # None => DOMAIN db = DOMAIN EmptyContext
  /\ pc \in {"status", "run", "finish", "unlink", "rename", "clean"} => "declared" \in DOMAIN ctx
  /\ pc \in {"status", "run", "finish"} => folder
  /\ DOMAIN saved = TaskIds
  /\ DOMAIN made = TaskIds

\* The lock file is not from a wscript newer than the one that was read.
LockInv ==
  lock # None =>
    /\ lock.hash \in Nat
    /\ lock.hash <= script
    /\ pc # "idle" => lock.hash <= p.script

\* The version of the wscript in the environment file; 0 if it was cut short.
Version == EnvGet(envfile.table, "SCRIPT")

\* The environment file is written before the lock file: it is cut short, or
\* at least as new, and nobody but this process has written it since.
EnvInv ==
  envfile # None /\ Version # 0 =>
    /\ Version \in Nat
    /\ Version <= script
    /\ lock # None => lock.hash <= Version
    /\ pc # "idle" => Version <= p.script
    /\ pc = "lock" => Version = p.script

\* With autoconfig, what is loaded is what the wscript that was read configured.
AutoconfigInv ==
  setting.autoconfig /\ p.command # "uninstall" =>
    /\ pc = "load" /\ p.command # "clean" => lock # None /\ lock.hash = p.script
    /\ pc \in {"status", "run", "finish"} => EnvGet(p.env, "SCRIPT") \in {0, p.script}

WafIInv == UserTypes /\ ProcessInv /\ ContextInv /\ LockInv /\ EnvInv /\ AutoconfigInv

(* ----- lemmas about contexts ----- *)

\* Whatever is done to a context, it keeps its fields.
LEMMA ContextFields ==
  ASSUME NEW c, "declared" \in DOMAIN c, NEW t, NEW s, NEW fs, NEW files, NEW outputs, NEW there
  PROVE  /\ "declared" \in DOMAIN FindResources(c, fs, files)
         /\ "declared" \in DOMAIN FindOrDeclare(c, fs)
         /\ "declared" \in DOMAIN Rescan(c, files, outputs, there)
         /\ "declared" \in DOMAIN SigImplicitDeps(c, t, files)
         /\ "declared" \in DOMAIN PostRun(c, t, s)
<1>1. ASSUME NEW d, "declared" \in DOMAIN d, NEW gs
      PROVE  "declared" \in DOMAIN FindResources(d, gs, files)
  BY <1>1 DEF FindResources
<1>2. "declared" \in DOMAIN FindOrDeclare(c, fs)
  BY DEF FindOrDeclare
<1>3. "declared" \in DOMAIN HashChilds(c, files)
  BY DEF HashChilds
<1>4. "declared" \in DOMAIN Rescan(c, files, outputs, there)
  BY <1>3 DEF Rescan, ListdirBld, DropChilds
<1>5. "declared" \in DOMAIN Scan(c, t, files)
  BY <1>1 DEF Scan
<1>6. "declared" \in DOMAIN SigImplicitDeps(c, t, files)
  BY <1>5 DEF SigImplicitDeps
<1>7. "declared" \in DOMAIN PostRun(c, t, s)
  BY DEF PostRun
<1> QED  BY <1>1, <1>2, <1>4, <1>6, <1>7

\* So does a context that is loaded.
LEMMA LoadedFields ==
  /\ "declared" \in DOMAIN LoadEnvs(Load)
  /\ "declared" \in DOMAIN Posted(LoadEnvs(Load))
<1>1. \A c : "declared" \in DOMAIN Opened(c)
  BY DEF Opened, EmptyContext
<1>2. "declared" \in DOMAIN Load
  BY <1>1 DEF Load
<1>3. "declared" \in DOMAIN FindOrDeclare(Load, {CfgFile})
  BY <1>2, ContextFields
<1>4. "declared" \in DOMAIN LoadEnvs(Load)
  BY <1>3 DEF LoadEnvs
<1>5. "declared" \in DOMAIN Rescan(LoadEnvs(Load), src, out, folder)
  BY <1>4, ContextFields
<1>6. "declared" \in DOMAIN FindResources(Rescan(LoadEnvs(Load), src, out, folder), AllInputs \ Built, src)
  BY <1>5, ContextFields
<1>7. "declared" \in DOMAIN Posted(LoadEnvs(Load))
  BY <1>6, ContextFields DEF Posted
<1> QED  BY <1>4, <1>7

\* What is stored has the fields of an empty context.
LEMMA SavedFields == \A c : DOMAIN Saved(c) = DOMAIN EmptyContext
  BY DEF Saved

\* The environment of a configuration has the version of its wscript, one
\* that was cut short has none.
LEMMA EnvVersions ==
  ASSUME NEW flags, NEW version
  PROVE  /\ EnvGet(Env(flags, version).table, "SCRIPT") = version
         /\ EnvGet(Partial.table, "SCRIPT") = 0
  BY DEF EnvGet, Env, Partial

(* ----- what every action keeps ----- *)

LEMMA WafStep ==
  ASSUME WafIInv, [Next]_vars
  PROVE  WafIInv'
<1> USE BuildContextAssumption DEF WafIInv, None, user, history, configured, NothingMade,
          Ends, Goto, Fails, Failing, NotInstalled, NextTask, AfterFinish, Faulty
<1>len. Len(Tasks) \in Nat /\ TaskIds = 1..Len(Tasks)
  BY DEF TaskIds
<1>1. CASE Shutdown
  BY <1>1 DEF Shutdown, UserTypes, ProcessInv, ContextInv, LockInv, EnvInv, AutoconfigInv, Version,
       EnvGet, Labels, Idle
<1>2. CASE NextCommand
  <2>first. pc' \in {"check_configured", "configure", "load", "distclean"}
    BY <1>2 DEF NextCommand, FirstStep
  <2>f. /\ p'.script = p.script /\ p'.edited = p.edited /\ p'.todo = 0
        /\ DOMAIN p' = DOMAIN Idle /\ p'.command = Head(p.commands)
        /\ p'.command = "clean" => p'.is_install # INSTALL
    BY <1>2 DEF NextCommand, Idle, INSTALL
  <2>1. UserTypes' /\ LockInv'
    BY <1>2 DEF NextCommand, UserTypes, ProcessInv, LockInv, Idle
  <2>2. ProcessInv'
    BY <1>2, <2>first, <2>f DEF NextCommand, UserTypes, ProcessInv, Labels, Idle
  <2>3. ContextInv'
    BY <1>2, <2>first DEF NextCommand, ContextInv
  <2>4. EnvInv'
    BY <1>2, <2>first, <2>f DEF NextCommand, UserTypes, ProcessInv, LockInv, EnvInv, Version,
         EnvGet, Idle
  <2>load. pc' = "load" => \/ p'.command \in {"clean", "uninstall"}
                            \/ ~setting'.autoconfig
    BY <1>2, <2>f DEF NextCommand, FirstStep, user
  <2>5. AutoconfigInv'
    BY <2>first, <2>load DEF AutoconfigInv
  <2> QED  BY <2>1, <2>2, <2>3, <2>4, <2>5
<1>3. CASE Configure
  BY <1>3 DEF Configure, UserTypes, ProcessInv, ContextInv, LockInv, EnvInv, AutoconfigInv, Version,
       EnvGet, Labels, Idle
<1>4. CASE Store
  <2>1. UserTypes' /\ LockInv'
    BY <1>4 DEF Store, UserTypes, ProcessInv, LockInv, Idle
  <2>2. ProcessInv'
    BY <1>4 DEF Store, UserTypes, ProcessInv, Labels, Idle
  <2>3. ContextInv'
    BY <1>4 DEF Store, ContextInv
  <2>4. EnvInv'
    <3>1. Version' = 0
      BY <1>4, EnvVersions DEF Store, Version
    <3> QED  BY <1>4, <3>1 DEF Store, UserTypes, ProcessInv, LockInv, EnvInv
  <2>5. AutoconfigInv'
    BY <1>4 DEF Store, UserTypes, ProcessInv, LockInv, EnvInv, AutoconfigInv, Version, EnvGet, Idle
  <2> QED  BY <2>1, <2>2, <2>3, <2>4, <2>5
<1>5. CASE Stored
  <2>1. UserTypes' /\ LockInv'
    BY <1>5 DEF Stored, UserTypes, ProcessInv, LockInv, Idle
  <2>2. ProcessInv'
    BY <1>5 DEF Stored, UserTypes, ProcessInv, Labels, Idle
  <2>3. ContextInv'
    BY <1>5 DEF Stored, ContextInv
  <2>4. EnvInv'
    <3>1. Version' = p.script
      BY <1>5, EnvVersions DEF Stored, Version
    <3> QED  BY <1>5, <3>1 DEF Stored, UserTypes, ProcessInv, LockInv, EnvInv
  <2>5. AutoconfigInv'
    BY <1>5 DEF Stored, UserTypes, ProcessInv, LockInv, EnvInv, AutoconfigInv, Version, EnvGet, Idle
  <2> QED  BY <2>1, <2>2, <2>3, <2>4, <2>5
<1>6. CASE Lock
  BY <1>6 DEF Lock, UserTypes, ProcessInv, ContextInv, LockInv, EnvInv, AutoconfigInv, Version,
       EnvGet, Labels, Idle
<1>7. CASE CheckConfigured
  <2>1. UserTypes' /\ LockInv'
    BY <1>7 DEF CheckConfigured, UserTypes, ProcessInv, LockInv, Idle
  <2>2. ProcessInv'
    BY <1>7 DEF CheckConfigured, UserTypes, ProcessInv, Labels, Idle
  <2>3. ContextInv'
    BY <1>7 DEF CheckConfigured, ContextInv
  <2>4. EnvInv'
    BY <1>7 DEF CheckConfigured, UserTypes, ProcessInv, LockInv, EnvInv, Version, EnvGet, Idle
  <2>5. AutoconfigInv'
    BY <1>7 DEF CheckConfigured, MustConfigure, ProcessInv, LockInv, AutoconfigInv, Idle
  <2> QED  BY <2>1, <2>2, <2>3, <2>4, <2>5
<1>8. CASE NotLoaded
  BY <1>8 DEF NotLoaded, UserTypes, ProcessInv, ContextInv, LockInv, EnvInv, AutoconfigInv, Version,
       EnvGet, Labels, Idle
<1>9. CASE LoadForClean
  <2>1. UserTypes' /\ LockInv'
    BY <1>9 DEF LoadForClean, UserTypes, ProcessInv, LockInv, Idle
  <2>2. ProcessInv'
    BY <1>9 DEF LoadForClean, UserTypes, ProcessInv, Labels, Idle
  <2>3. ContextInv'
    BY <1>9, LoadedFields DEF LoadForClean, ContextInv
  <2>4. EnvInv'
    BY <1>9 DEF LoadForClean, UserTypes, ProcessInv, LockInv, EnvInv, Version, EnvGet, Idle
  <2>5. AutoconfigInv'
    BY <1>9 DEF LoadForClean, UserTypes, ProcessInv, LockInv, EnvInv, AutoconfigInv, Version,
         EnvGet, Idle
  <2> QED  BY <2>1, <2>2, <2>3, <2>4, <2>5
<1>10. CASE LoadForBuild
  <2>1. UserTypes' /\ LockInv'
    BY <1>10 DEF LoadForBuild, UserTypes, ProcessInv, LockInv, Idle
  <2>2. CASE pc' = "status"
    <3>1. p' = [p EXCEPT !.env = envfile.table, !.todo = 1]
      BY <1>10, <2>2 DEF LoadForBuild, Ends
    <3>2. /\ DOMAIN p' = DOMAIN p /\ p'.env = envfile.table /\ p'.todo = 1
          /\ p'.script = p.script /\ p'.edited = p.edited
            /\ p'.command = p.command /\ p'.is_install = p.is_install
      BY <3>1 DEF ProcessInv, Idle
    <3>3. ProcessInv'
      BY <1>10, <1>len, <2>2, <3>2 DEF LoadForBuild, user, ProcessInv, Labels
    <3>4. ContextInv'
      BY <1>10, <2>2, LoadedFields DEF LoadForBuild, Ends, ContextInv, NothingMade
    <3>5. Version' = Version
      BY <1>10 DEF LoadForBuild, configured, Version
    <3>6. EnvInv'
      BY <1>10, <2>2, <3>2, <3>5 DEF LoadForBuild, configured, user, EnvInv
    <3>7. EnvGet(p'.env, "SCRIPT") = Version
      BY <3>2 DEF Version
    <3>8. AutoconfigInv'
      BY <1>10, <2>2, <3>2, <3>7 DEF LoadForBuild, CannotLoad, user, AutoconfigInv, EnvInv,
           ProcessInv, LockInv
    <3> QED  BY <2>1, <3>3, <3>4, <3>6, <3>8
  <2>3. CASE pc' # "status"
    <3>1. Ends
      BY <1>10, <2>3 DEF LoadForBuild
    <3>2. ProcessInv'
      BY <1>10, <3>1 DEF LoadForBuild, Ends, UserTypes, user, ProcessInv, Labels, Idle
    <3>3. ContextInv'
      BY <1>10, <3>1 DEF LoadForBuild, Ends, history, ContextInv, NothingMade
    <3>4. Version' = Version
      BY <1>10 DEF LoadForBuild, configured, Version
    <3>5. EnvInv'
      BY <1>10, <3>1, <3>4 DEF LoadForBuild, Ends, configured, user, EnvInv
    <3>6. AutoconfigInv'
      BY <3>1 DEF Ends, AutoconfigInv
    <3> QED  BY <2>1, <3>2, <3>3, <3>5, <3>6
  <2> QED  BY <2>2, <2>3
<1>11. CASE Status
  <2>1. UserTypes' /\ LockInv'
    BY <1>11 DEF Status, UserTypes, ProcessInv, LockInv, Idle
  <2>2. ProcessInv'
    BY <1>11 DEF Status, UserTypes, ProcessInv, Labels, Idle
  <2>3. ContextInv'
    BY <1>11, ContextFields DEF Status, ContextInv
  <2>4. EnvInv'
    BY <1>11 DEF Status, UserTypes, ProcessInv, LockInv, EnvInv, Version, EnvGet, Idle
  <2>5. AutoconfigInv'
    BY <1>11 DEF Status, UserTypes, ProcessInv, LockInv, EnvInv, AutoconfigInv, Version, EnvGet,
         Idle
  <2> QED  BY <2>1, <2>2, <2>3, <2>4, <2>5
<1>12. CASE StatusUninstall
  BY <1>12 DEF StatusUninstall, UserTypes, ProcessInv, ContextInv, LockInv, EnvInv, AutoconfigInv,
       Version, EnvGet, Labels, Idle
<1>13. CASE CanRetrieveCache
  <2>1. UserTypes' /\ LockInv'
    BY <1>13 DEF CanRetrieveCache, UserTypes, ProcessInv, LockInv, Idle
  <2>2. ProcessInv'
    BY <1>13 DEF CanRetrieveCache, UserTypes, ProcessInv, Labels, Idle
  <2>3. ContextInv'
    BY <1>13, ContextFields DEF CanRetrieveCache, ContextInv
  <2>4. EnvInv'
    BY <1>13 DEF CanRetrieveCache, UserTypes, ProcessInv, LockInv, EnvInv, Version, EnvGet, Idle
  <2>5. AutoconfigInv'
    BY <1>13 DEF CanRetrieveCache, UserTypes, ProcessInv, LockInv, EnvInv, AutoconfigInv, Version,
         EnvGet, Idle
  <2> QED  BY <2>1, <2>2, <2>3, <2>4, <2>5
<1>14. CASE Run
  <2>1. UserTypes' /\ LockInv'
    BY <1>14 DEF Run, UserTypes, ProcessInv, LockInv, Idle
  <2>2. ProcessInv'
    BY <1>14 DEF Run, UserTypes, ProcessInv, Labels, Idle
  <2>3. ContextInv'
    BY <1>14, ContextFields DEF Run, ContextInv
  <2>4. EnvInv'
    BY <1>14 DEF Run, UserTypes, ProcessInv, LockInv, EnvInv, Version, EnvGet, Idle
  <2>5. AutoconfigInv'
    BY <1>14 DEF Run, UserTypes, ProcessInv, LockInv, EnvInv, AutoconfigInv, Version, EnvGet, Idle
  <2> QED  BY <2>1, <2>2, <2>3, <2>4, <2>5
<1>15. CASE CannotRun
  BY <1>15 DEF CannotRun, UserTypes, ProcessInv, ContextInv, LockInv, EnvInv, AutoconfigInv,
       Version, EnvGet, Labels, Idle
<1>16. CASE Finish
  <2>1. UserTypes' /\ LockInv'
    BY <1>16 DEF Finish, UserTypes, ProcessInv, LockInv, Idle
  <2>2. ProcessInv'
    BY <1>16, <1>len DEF Finish, UserTypes, ProcessInv, Labels, Idle
  <2>3. ContextInv'
    BY <1>16 DEF Finish, ContextInv
  <2>4. EnvInv'
    BY <1>16 DEF Finish, UserTypes, ProcessInv, LockInv, EnvInv, Version, EnvGet, Idle
  <2>5. AutoconfigInv'
    BY <1>16 DEF Finish, UserTypes, ProcessInv, LockInv, EnvInv, AutoconfigInv, Version, EnvGet,
         Idle
  <2> QED  BY <2>1, <2>2, <2>3, <2>4, <2>5
<1>17. CASE Install
  <2>1. UserTypes' /\ LockInv'
    BY <1>17 DEF Install, UserTypes, ProcessInv, LockInv, Idle
  <2>2. ProcessInv'
    BY <1>17, <1>len DEF Install, UserTypes, ProcessInv, Labels, Idle
  <2>3. ContextInv'
    BY <1>17 DEF Install, ContextInv
  <2>4. EnvInv'
    BY <1>17 DEF Install, UserTypes, ProcessInv, LockInv, EnvInv, Version, EnvGet, Idle
  <2>5. AutoconfigInv'
    BY <1>17 DEF Install, UserTypes, ProcessInv, LockInv, EnvInv, AutoconfigInv, Version, EnvGet,
         Idle
  <2> QED  BY <2>1, <2>2, <2>3, <2>4, <2>5
<1>18. CASE InstallMissing
  BY <1>18 DEF InstallMissing, UserTypes, ProcessInv, ContextInv, LockInv, EnvInv, AutoconfigInv,
       Version, EnvGet, Labels, Idle
<1>19. CASE Uninstall
  <2>1. UserTypes' /\ LockInv'
    BY <1>19 DEF Uninstall, UserTypes, ProcessInv, LockInv, Idle
  <2>2. ProcessInv'
    BY <1>19, <1>len DEF Uninstall, UserTypes, ProcessInv, Labels, Idle
  <2>3. ContextInv'
    BY <1>19 DEF Uninstall, ContextInv
  <2>4. EnvInv'
    BY <1>19 DEF Uninstall, UserTypes, ProcessInv, LockInv, EnvInv, Version, EnvGet, Idle
  <2>5. AutoconfigInv'
    BY <1>19 DEF Uninstall, UserTypes, ProcessInv, LockInv, EnvInv, AutoconfigInv, Version, EnvGet,
         Idle
  <2> QED  BY <2>1, <2>2, <2>3, <2>4, <2>5
<1>20. CASE TasksDone
  BY <1>20 DEF TasksDone, UserTypes, ProcessInv, ContextInv, LockInv, EnvInv, AutoconfigInv,
       Version, EnvGet, Labels, Idle
<1>21. CASE Unlink
  BY <1>21 DEF Unlink, UserTypes, ProcessInv, ContextInv, LockInv, EnvInv, AutoconfigInv, Version,
       EnvGet, Labels, Idle
<1>22. CASE Rename
  <2>1. UserTypes' /\ LockInv'
    BY <1>22 DEF Rename, UserTypes, ProcessInv, LockInv, Idle
  <2>2. ProcessInv'
    BY <1>22 DEF Rename, UserTypes, ProcessInv, Labels, Idle
  <2>3. ContextInv'
    BY <1>22, SavedFields DEF Rename, ContextInv
  <2>4. EnvInv'
    BY <1>22 DEF Rename, UserTypes, ProcessInv, LockInv, EnvInv, Version, EnvGet, Idle
  <2>5. AutoconfigInv'
    BY <1>22 DEF Rename, UserTypes, ProcessInv, LockInv, EnvInv, AutoconfigInv, Version, EnvGet,
         Idle
  <2> QED  BY <2>1, <2>2, <2>3, <2>4, <2>5
<1>23. CASE Post
  BY <1>23 DEF Post, UserTypes, ProcessInv, ContextInv, LockInv, EnvInv, AutoconfigInv, Version,
       EnvGet, Labels, Idle
<1>24. CASE Clean
  BY <1>24 DEF Clean, UserTypes, ProcessInv, ContextInv, LockInv, EnvInv, AutoconfigInv, Version,
       EnvGet, Labels, Idle
<1>25. CASE Distclean
  BY <1>25 DEF Distclean, UserTypes, ProcessInv, ContextInv, LockInv, EnvInv, AutoconfigInv,
       Version, EnvGet, Labels, Idle
<1>26. CASE RemoveFolder
  BY <1>26 DEF RemoveFolder, UserTypes, ProcessInv, ContextInv, LockInv, EnvInv, AutoconfigInv,
       Version, EnvGet, Labels, Idle
<1>27. CASE RunFails
  BY <1>27 DEF RunFails, UserTypes, ProcessInv, ContextInv, LockInv, EnvInv, AutoconfigInv, Version,
       EnvGet, Labels, Idle
<1>28. CASE InstallFails
  BY <1>28 DEF InstallFails, UserTypes, ProcessInv, ContextInv, LockInv, EnvInv, AutoconfigInv,
       Version, EnvGet, Labels, Idle
<1>29. CASE Interrupt
  BY <1>29 DEF Interrupt, UserTypes, ProcessInv, ContextInv, LockInv, EnvInv, AutoconfigInv,
       Version, EnvGet, Labels, Idle
<1>30. CASE Kill
  BY <1>30 DEF Kill, UserTypes, ProcessInv, ContextInv, LockInv, EnvInv, AutoconfigInv, Version,
       EnvGet, Labels, Idle
<1>31. CASE KillInRun
  BY <1>31 DEF KillInRun, UserTypes, ProcessInv, ContextInv, LockInv, EnvInv, AutoconfigInv,
       Version, EnvGet, Labels, Idle
<1>32. CASE KillInDistclean
  BY <1>32 DEF KillInDistclean, UserTypes, ProcessInv, ContextInv, LockInv, EnvInv, AutoconfigInv,
       Version, EnvGet, Labels, Idle
<1>33. CASE Edit
  <2>1. /\ Edited /\ script' \in Nat /\ script <= script'
        /\ UNCHANGED <<setting, pc, ctx, folder, db, envfile, lock, saved, made>>
    BY <1>33 DEF Edit, EditSource, ChangeFlags, EditScript, UserTypes
  <2>2. src' \in [Sources -> 1..(MaxVersion + 1)]
    BY <1>33 DEF Edit, EditSource, ChangeFlags, EditScript, UserTypes
  <2>3. pc # "idle" => p'.edited
    BY <2>1 DEF Edited, ProcessInv, Idle
  <2>4. /\ DOMAIN p' = DOMAIN p /\ p'.script = p.script /\ p'.todo = p.todo
        /\ p'.command = p.command /\ p'.is_install = p.is_install /\ p'.env = p.env
    BY <2>1 DEF Edited, ProcessInv, Idle
  <2>5. UserTypes' /\ ProcessInv' /\ LockInv'
    BY <2>1, <2>2, <2>3, <2>4 DEF ProcessInv, UserTypes, LockInv
  <2>6. ContextInv' /\ AutoconfigInv'
    BY <2>1, <2>4 DEF ContextInv, AutoconfigInv
  <2>7. Version' = Version
    BY <2>1 DEF Version
  <2>8. EnvInv'
    BY <2>1, <2>4, <2>7 DEF EnvInv, ProcessInv, UserTypes
  <2> QED  BY <2>5, <2>6, <2>8
<1>34. CASE \E line \in CommandLines : Type(line)
  <2>1. UserTypes' /\ LockInv'
    BY <1>34 DEF Type, UserTypes, ProcessInv, LockInv, Idle
  <2>2. ProcessInv'
    BY <1>34 DEF Type, UserTypes, ProcessInv, Labels, Idle
  <2>3. ContextInv'
    BY <1>34 DEF Type, ContextInv
  <2>4. EnvInv'
    BY <1>34 DEF Type, UserTypes, ProcessInv, LockInv, EnvInv, Version, EnvGet, Idle
  <2>5. AutoconfigInv'
    BY <1>34 DEF Type, UserTypes, ProcessInv, LockInv, EnvInv, AutoconfigInv, Version, EnvGet, Idle
  <2> QED  BY <2>1, <2>2, <2>3, <2>4, <2>5
<1>35. CASE \E o \in Built : CleanRec(o)
  <2>1. UserTypes' /\ LockInv'
    BY <1>35 DEF CleanRec, Forget, UserTypes, ProcessInv, LockInv, Idle
  <2>2. ProcessInv'
    BY <1>35 DEF CleanRec, Forget, UserTypes, ProcessInv, Labels, Idle
  <2>3. ContextInv'
    BY <1>35 DEF CleanRec, Forget, ContextInv
  <2>4. EnvInv'
    BY <1>35 DEF CleanRec, Forget, UserTypes, ProcessInv, LockInv, EnvInv, Version, EnvGet, Idle
  <2>5. AutoconfigInv'
    BY <1>35 DEF CleanRec, Forget, UserTypes, ProcessInv, LockInv, EnvInv, AutoconfigInv, Version,
         EnvGet, Idle
  <2> QED  BY <2>1, <2>2, <2>3, <2>4, <2>5
<1>36. CASE \E o \in Built : RemoveOutput(o)
  <2>1. UserTypes' /\ LockInv'
    BY <1>36 DEF RemoveOutput, Forget, UserTypes, ProcessInv, LockInv, Idle
  <2>2. ProcessInv'
    BY <1>36 DEF RemoveOutput, Forget, UserTypes, ProcessInv, Labels, Idle
  <2>3. ContextInv'
    BY <1>36 DEF RemoveOutput, Forget, ContextInv
  <2>4. EnvInv'
    BY <1>36 DEF RemoveOutput, Forget, UserTypes, ProcessInv, LockInv, EnvInv, Version, EnvGet, Idle
  <2>5. AutoconfigInv'
    BY <1>36 DEF RemoveOutput, Forget, UserTypes, ProcessInv, LockInv, EnvInv, AutoconfigInv,
         Version, EnvGet, Idle
  <2> QED  BY <2>1, <2>2, <2>3, <2>4, <2>5
<1>37. CASE UNCHANGED vars
  BY <1>37 DEF vars, user, configured, history, UserTypes, ProcessInv, ContextInv, LockInv, EnvInv,
       AutoconfigInv, Version, EnvGet
<1> QED
  BY <1>1, <1>2, <1>3, <1>4, <1>5, <1>6, <1>7, <1>8, <1>9, <1>10, <1>11, <1>12, <1>13, <1>14, <1>15,
       <1>16, <1>17, <1>18, <1>19, <1>20, <1>21, <1>22, <1>23, <1>24, <1>25, <1>26, <1>27, <1>28,
       <1>29, <1>30, <1>31, <1>32, <1>33, <1>34, <1>35, <1>36, <1>37
  DEF Next, User, Command, Fault

(* ----- the theorem ----- *)

LEMMA WafInit == Init => WafIInv
<1> SUFFICES ASSUME Init PROVE WafIInv
  OBVIOUS
<1>1. Len(Tasks) \in Nat
  BY BuildContextAssumption
<1>2. UserTypes /\ ProcessInv
  BY <1>1, BuildContextAssumption DEF Init, UserTypes, ProcessInv, Idle, Labels
<1>3. ContextInv /\ LockInv /\ EnvInv /\ AutoconfigInv
  BY DEF Init, ContextInv, NothingMade, LockInv, EnvInv, AutoconfigInv
<1> QED  BY <1>2, <1>3 DEF WafIInv

LEMMA WafAlways == Spec => []WafIInv
  BY WafInit, WafStep, PTL DEF Spec

\* WafInv: whatever is edited, killed, interrupted or removed, and at any
\* point, each step of a command finds the context, the folder and the loop
\* counter it needs; and with autoconfig no task runs with what an older
\* wscript configured.
THEOREM WafInvTheorem == Spec => []WafInv
<1>1. WafIInv => WafInv
  <2> SUFFICES ASSUME WafIInv PROVE WafInv
    OBVIOUS
  <2>1. \A c : "declared" \in DOMAIN c => c # None
    BY DEF None
  <2>2. TypeOK
    BY <2>1 DEF WafIInv, UserTypes, ProcessInv, ContextInv, TypeOK
  <2>3. AutoconfigFresh
    BY DEF WafIInv, ProcessInv, AutoconfigInv, AutoconfigFresh
  <2> QED  BY <2>2, <2>3 DEF WafInv
<1> QED  BY <1>1, WafAlways, PTL

(* ----- what is installed: the invariant ----- *)

\* A file of the disk: it has a text and a time, which is a rank from 1 on if
\* the file is installed.
Timed(F) ==
  \A o \in DOMAIN F : F[o] # None =>
    /\ "time" \in DOMAIN F[o]
    /\ F[o].time \in Nat
    /\ o \in Installed => F[o].time # 0

FilesInv ==
  /\ cache = <<>>
  /\ DOMAIN out = Built /\ Timed(out)
  /\ DOMAIN inst = Installed /\ Timed(inst)

Same(o) == out[o] # None /\ inst[o] # None /\ inst[o].text = out[o].text

\* An installed file that is not older than the output is a copy of it.
AgeInv ==
  \A o \in Installed :
    out[o] # None /\ inst[o] # None /\ inst[o].time >= out[o].time => inst[o].text = out[o].text

Steady == {"check_configured", "configure", "store", "stored", "lock", "load", "status", "post"}

InstallingLabels == {"status", "run", "finish", "unlink", "rename", "post"}

\* Nothing has failed, and a clean installs nothing.
ErrorInv ==
  /\ pc \in Steady => ~p.error
  /\ pc = "clean" => p.is_install # INSTALL

Installing == pc \in InstallingLabels /\ ~p.error /\ p.is_install = INSTALL

\* The tasks the loop is through with have installed their outputs.
SoFar == \A t \in TaskIds : t < p.todo /\ Tasks[t].install => \A o \in Outputs(t) : Same(o)

InstallingInv ==
  Installing =>
    /\ SoFar
    /\ pc \in {"unlink", "rename", "post"} => p.todo = Len(Tasks) + 1

InstIInv == ~setting.wafcache => FilesInv /\ AgeInv /\ ErrorInv /\ InstallingInv

(* ----- times ----- *)

LEMMA ImageFinite ==
  ASSUME NEW f, IsFiniteSet(DOMAIN f)
  PROVE  IsFiniteSet({f[x] : x \in DOMAIN f})
<1> DEFINE T == {f[x] : x \in DOMAIN f}
           g == [x \in DOMAIN f |-> f[x]]
<1>1. g \in Surjection(DOMAIN f, T)
  BY DEF Surjection
<1> QED  BY <1>1, FS_Surjection

LEMMA BuiltFinite == IsFiniteSet(Built) /\ IsFiniteSet(Installed) /\ Installed \subseteq Built \ {CfgFile}
<1>1. Len(Tasks) \in Nat /\ TaskIds = 1..Len(Tasks)
  BY BuildContextAssumption DEF TaskIds
<1>2. IsFiniteSet(TaskIds)
  BY <1>1, FS_Interval
<1>3. ASSUME NEW t \in TaskIds PROVE IsFiniteSet(Outputs(t))
  <2> DEFINE s == Tasks[t].outputs
  <2>1. s \in Seq(Elements(s))
    BY BuildContextAssumption
  <2>2. Len(s) \in Nat /\ DOMAIN s = 1..Len(s)
    BY <2>1
  <2>3. IsFiniteSet(DOMAIN s)
    BY <2>2, FS_Interval
  <2> QED  BY <2>3, ImageFinite DEF Outputs, Elements
<1> DEFINE all == [t \in TaskIds |-> Outputs(t)]
<1>4. IsFiniteSet({all[t] : t \in DOMAIN all})
  BY <1>2, ImageFinite
<1>5. {all[t] : t \in DOMAIN all} = {Outputs(t) : t \in TaskIds}
  OBVIOUS
<1>6. IsFiniteSet(UNION {Outputs(t) : t \in TaskIds})
  BY <1>3, <1>4, <1>5, FS_UNION
<1>7. Built = (UNION {Outputs(t) : t \in TaskIds}) \cup {CfgFile}
  BY DEF Built, Outputs
<1>8. IsFiniteSet(Built)
  BY <1>6, <1>7, FS_AddElement
<1>9. Installed \subseteq Built \ {CfgFile}
  BY <1>7, OutputsAssumption DEF Installed
<1> QED  BY <1>8, <1>9, FS_Subset

LEMMA TimesFinite ==
  ASSUME NEW F, IsFiniteSet(DOMAIN F)
  PROVE  IsFiniteSet(FileTimes(F))
<1> DEFINE there == {x \in DOMAIN F : F[x] # None}
           g == [o \in there |-> F[o].time]
<1>1. IsFiniteSet(there)
  BY FS_Subset
<1>2. IsFiniteSet({g[x] : x \in DOMAIN g})
  BY <1>1, ImageFinite
<1>3. {g[x] : x \in DOMAIN g} = FileTimes(F)
  BY DEF FileTimes
<1> QED  BY <1>2, <1>3

\* Closing the ranks up keeps their order, and leaves the next one above them.
LEMMA Ranks ==
  ASSUME FilesInv
  PROVE  /\ Youngest \in Nat \ {0}
         /\ \A x \in Times : Rank(x) \in Nat /\ Rank(x) < Youngest
         /\ \A x \in Times : x # 0 => Rank(x) # 0
         /\ \A x, y \in Times : x < y => Rank(x) < Rank(y)
<1>1. UNION {FileTimes(cache[s]) : s \in DOMAIN cache} = {}
  <2>1. DOMAIN cache = {}
    BY DEF FilesInv
  <2> QED  BY <2>1
<1>2. Times = FileTimes(out) \cup FileTimes(inst)
  BY <1>1 DEF Times
<1>3. IsFiniteSet(Times)
  BY <1>2, TimesFinite, BuiltFinite, FS_Union DEF FilesInv
<1>4. Times \subseteq Nat
  BY <1>2 DEF FileTimes, FilesInv, Timed
<1> DEFINE upTo(x) == {u \in Times : 0 < u /\ u <= x}
<1>5. IsFiniteSet(Times \ {0}) /\ Cardinality(Times \ {0}) \in Nat
  BY <1>3, FS_Subset, FS_CardinalityType
<1>6. Youngest \in Nat \ {0}
  BY <1>5 DEF Youngest
<1>7. ASSUME NEW x \in Times PROVE Rank(x) \in Nat /\ Rank(x) < Youngest /\ IsFiniteSet(upTo(x))
  <2>1. upTo(x) \in SUBSET (Times \ {0})
    BY <1>4
  <2>2. IsFiniteSet(upTo(x)) /\ Cardinality(upTo(x)) <= Cardinality(Times \ {0})
    BY <1>5, <2>1, FS_Subset
  <2>3. Cardinality(upTo(x)) \in Nat
    BY <2>2, FS_CardinalityType
  <2>4. Rank(x) = Cardinality(upTo(x))
    BY DEF Rank
  <2> QED  BY <1>5, <2>2, <2>3, <2>4 DEF Youngest
<1>8. ASSUME NEW x \in Times, x # 0 PROVE Rank(x) # 0
  <2>1. x \in upTo(x)
    BY <1>4, <1>8
  <2>2. Cardinality(upTo(x)) # 0
    BY <1>7, <2>1, FS_EmptySet
  <2> QED  BY <2>2 DEF Rank
<1>9. ASSUME NEW x \in Times, NEW y \in Times, x < y PROVE Rank(x) < Rank(y)
  <2>0. x \in Nat /\ y \in Nat
    BY <1>4
  <2>1. y \in upTo(y) /\ y \notin upTo(x)
    BY <2>0, <1>9
  <2>a. \A u \in Times : u <= x => u <= y
    BY <2>0, <1>4, <1>9
  <2>b. upTo(x) \in SUBSET upTo(y)
    BY <2>a
  <2>2. upTo(x) # upTo(y)
    BY <2>1
  <2>3. Cardinality(upTo(x)) <= Cardinality(upTo(y)) /\ Cardinality(upTo(x)) # Cardinality(upTo(y))
    BY <1>7, <2>b, <2>2, FS_Subset
  <2>4. Cardinality(upTo(x)) \in Nat /\ Cardinality(upTo(y)) \in Nat
    BY <1>7, FS_CardinalityType
  <2>5. Cardinality(upTo(x)) < Cardinality(upTo(y))
    BY <2>3, <2>4
  <2> QED  BY <2>5 DEF Rank
<1> QED  BY <1>6, <1>7, <1>8, <1>9

\* What ageing does to the files of a folder.
LEMMA Ageing ==
  ASSUME FilesInv, NEW F, Timed(F), FileTimes(F) \subseteq Times
  PROVE  /\ DOMAIN Aged(F) = DOMAIN F
         /\ Timed(Aged(F))
         /\ \A o \in DOMAIN F : Aged(F)[o] = None <=> F[o] = None
         /\ \A o \in DOMAIN F : F[o] # None =>
              Aged(F)[o].text = F[o].text /\ Aged(F)[o].time = Rank(F[o].time)
<1>1. DOMAIN Aged(F) = DOMAIN F
  BY DEF Aged
<1>2. ASSUME NEW o \in DOMAIN F, F[o] = None PROVE Aged(F)[o] = None
  BY <1>2 DEF Aged
<1>3. ASSUME NEW o \in DOMAIN F, F[o] # None
      PROVE  /\ "time" \in DOMAIN Aged(F)[o]
             /\ Aged(F)[o].text = F[o].text
             /\ Aged(F)[o].time = Rank(F[o].time)
             /\ F[o].time \in Times
  <2>1. Aged(F)[o] = [F[o] EXCEPT !.time = Rank(@)]
    BY <1>3 DEF Aged
  <2>2. "time" \in DOMAIN F[o]
    BY <1>3 DEF Timed
  <2>3. F[o].time \in FileTimes(F)
    BY <1>3 DEF FileTimes
  <2> QED  BY <2>1, <2>2, <2>3
<1>4. \A o \in DOMAIN F : Aged(F)[o] = None <=> F[o] = None
  <2>1. "time" \notin DOMAIN None
    BY DEF None
  <2> QED  BY <1>2, <1>3, <2>1
<1>5. Timed(Aged(F))
  <2> SUFFICES ASSUME NEW o \in DOMAIN F, Aged(F)[o] # None
               PROVE  /\ "time" \in DOMAIN Aged(F)[o]
                      /\ Aged(F)[o].time \in Nat
                      /\ o \in Installed => Aged(F)[o].time # 0
    BY <1>1 DEF Timed
  <2>1. F[o] # None
    BY <1>4
  <2>2. o \in Installed => F[o].time # 0
    BY <2>1 DEF Timed
  <2> QED  BY <1>3, <2>1, <2>2, Ranks
<1> QED  BY <1>1, <1>3, <1>4, <1>5

\* A run of a task keeps the ages: its outputs are younger than what is installed.
LEMMA RunKeepsAges ==
  ASSUME FilesInv, AgeInv, NEW t \in TaskIds,
         out' = Over(Aged(out), Makes(t)), inst' = Aged(inst), cache' = <<>>
  PROVE  /\ FilesInv' /\ AgeInv'
         /\ \A o \in Installed \ Outputs(t) : Same(o) => Same(o)'
<1>1. FileTimes(out) \subseteq Times /\ FileTimes(inst) \subseteq Times
  BY DEF Times
<1>2. /\ DOMAIN Aged(out) = Built
      /\ Timed(Aged(out))
      /\ \A o \in Built : Aged(out)[o] = None <=> out[o] = None
      /\ \A o \in Built : out[o] # None =>
           Aged(out)[o].text = out[o].text /\ Aged(out)[o].time = Rank(out[o].time)
  BY <1>1, Ageing DEF FilesInv
<1>3. /\ DOMAIN Aged(inst) = Installed
      /\ Timed(Aged(inst))
      /\ \A o \in Installed : Aged(inst)[o] = None <=> inst[o] = None
      /\ \A o \in Installed : inst[o] # None =>
           Aged(inst)[o].text = inst[o].text /\ Aged(inst)[o].time = Rank(inst[o].time)
  BY <1>1, Ageing DEF FilesInv
<1>4. DOMAIN Makes(t) = Outputs(t)
  BY DEF Makes
<1>5. DOMAIN out' = Built
  BY <1>2 DEF Over
<1>6. \A o \in Built \ Outputs(t) : out'[o] = Aged(out)[o]
  BY <1>2, <1>4 DEF Over
<1>7. ASSUME NEW o \in Built \cap Outputs(t)
      PROVE  /\ out'[o] # None /\ "time" \in DOMAIN out'[o]
             /\ out'[o].time = IF o \in Installed THEN Youngest ELSE 0
  <2>1. out'[o] = Makes(t)[o]
    BY <1>2, <1>4 DEF Over
  <2>2. \E text : out'[o] = [text |-> text, time |-> IF o \in Installed THEN Youngest ELSE 0]
    BY <2>1 DEF Makes, File
  <2> QED  BY <2>2 DEF None
<1>8. Timed(out')
  <2> SUFFICES ASSUME NEW o \in Built, out'[o] # None
               PROVE  /\ "time" \in DOMAIN out'[o]
                      /\ out'[o].time \in Nat
                      /\ o \in Installed => out'[o].time # 0
    BY <1>5 DEF Timed
  <2>1. CASE o \in Outputs(t)
    BY <1>7, <2>1, Ranks
  <2>2. CASE o \notin Outputs(t)
    BY <1>2, <1>6, <2>2 DEF Timed
  <2> QED  BY <2>1, <2>2
<1>9. FilesInv'
  BY <1>3, <1>5, <1>8 DEF FilesInv
<1>10. Installed \subseteq Built
  BY BuiltFinite
<1>11. ASSUME NEW o \in Installed, out'[o] # None, inst'[o] # None, inst'[o].time >= out'[o].time
       PROVE  inst'[o].text = out'[o].text
  <2>1. inst[o] # None /\ inst[o].time \in Times /\ inst[o].time \in Nat /\ inst'[o].time = Rank(inst[o].time)
    BY <1>1, <1>3, <1>11 DEF FileTimes, FilesInv, Timed
  <2>2. CASE o \in Outputs(t)
    BY <1>7, <1>10, <1>11, <2>1, <2>2, Ranks
  <2>3. CASE o \notin Outputs(t)
    <3>1. out[o] # None /\ out[o].time \in Times /\ out[o].time \in Nat /\ out'[o].time = Rank(out[o].time)
      BY <1>1, <1>2, <1>6, <1>10, <1>11, <2>3 DEF FileTimes, FilesInv, Timed
    <3>2. inst[o].time >= out[o].time
      BY <1>11, <2>1, <3>1, Ranks
    <3> QED  BY <1>2, <1>3, <1>6, <1>10, <2>1, <2>3, <3>1, <3>2 DEF AgeInv
  <2> QED  BY <2>2, <2>3
<1>12. AgeInv'
  BY <1>11 DEF AgeInv
<1>13. ASSUME NEW o \in Installed \ Outputs(t), Same(o) PROVE Same(o)'
  BY <1>2, <1>3, <1>6, <1>10, <1>13 DEF Same
<1> QED  BY <1>9, <1>12, <1>13

\* So does a removal of files, and a new configuration header.
LEMMA RemovalKeepsAges ==
  ASSUME FilesInv, AgeInv, cache' = cache,
         DOMAIN out' = Built, Timed(out'), \A o \in Installed : out'[o] \in {None, out[o]},
         DOMAIN inst' = Installed, \A o \in Installed : inst'[o] \in {None, inst[o]}
  PROVE  FilesInv' /\ AgeInv'
<1>1. Timed(inst')
  BY DEF FilesInv, Timed
<1>2. FilesInv'
  BY <1>1 DEF FilesInv
<1>3. AgeInv'
  BY DEF AgeInv
<1> QED  BY <1>2, <1>3

LEMMA RemovalIsTimed ==
  ASSUME FilesInv, DOMAIN out' = Built, \A o \in Built : out'[o] \in {None, out[o]}
  PROVE  Timed(out') /\ \A o \in Installed : out'[o] \in {None, out[o]}
<1>1. Timed(out')
  BY DEF FilesInv, Timed
<1> QED  BY <1>1, BuiltFinite

(* ----- what is installed: every action ----- *)

LEMMA AgesStep ==
  ASSUME WafIInv, ~setting.wafcache, FilesInv, AgeInv, [Next]_vars
  PROVE  FilesInv' /\ AgeInv'
<1>frame. ASSUME UNCHANGED <<out, inst, cache>> PROVE FilesInv' /\ AgeInv'
  BY <1>frame DEF FilesInv, AgeInv, Timed
<1>removed. ASSUME UNCHANGED <<inst, cache>>, DOMAIN out' = Built, \A o \in Built : out'[o] \in {None, out[o]}
            PROVE  FilesInv' /\ AgeInv'
  BY <1>removed, RemovalIsTimed, RemovalKeepsAges DEF FilesInv
<1>uninstalled. ASSUME UNCHANGED <<out, cache>>, DOMAIN inst' = Installed, \A o \in Installed : inst'[o] \in {None, inst[o]}
            PROVE  FilesInv' /\ AgeInv'
  BY <1>uninstalled, RemovalIsTimed, RemovalKeepsAges DEF FilesInv
<1>todo. pc \in {"run", "finish"} => p.todo \in TaskIds
  BY DEF WafIInv, ProcessInv
<1>1. CASE Edit
  BY <1>1, <1>frame DEF Edit
<1>2. CASE \E line \in CommandLines : Type(line)
  BY <1>2, <1>frame DEF Type
<1>3. CASE Shutdown
  BY <1>3, <1>frame DEF Shutdown
<1>4. CASE NextCommand
  BY <1>4, <1>frame DEF NextCommand
<1>5. CASE Store
  BY <1>5, <1>frame DEF Store
<1>6. CASE Stored
  BY <1>6, <1>frame DEF Stored
<1>7. CASE Lock
  BY <1>7, <1>frame DEF Lock
<1>8. CASE CheckConfigured
  BY <1>8, <1>frame DEF CheckConfigured
<1>9. CASE NotLoaded
  BY <1>9, <1>frame DEF NotLoaded, Fails
<1>10. CASE LoadForClean
  BY <1>10, <1>frame DEF LoadForClean
<1>11. CASE LoadForBuild
  BY <1>11, <1>frame DEF LoadForBuild
<1>12. CASE Status
  BY <1>12, <1>frame DEF Status
<1>13. CASE StatusUninstall
  BY <1>13, <1>frame DEF StatusUninstall
<1>14. CASE Finish
  BY <1>14, <1>frame DEF Finish
<1>15. CASE TasksDone
  BY <1>15, <1>frame DEF TasksDone
<1>16. CASE Unlink
  BY <1>16, <1>frame DEF Unlink
<1>17. CASE Rename
  BY <1>17, <1>frame DEF Rename
<1>18. CASE Post
  BY <1>18, <1>frame DEF Post
<1>19. CASE Clean
  BY <1>19, <1>frame DEF Clean
<1>20. CASE Interrupt
  BY <1>20, <1>frame DEF Interrupt
<1>21. CASE Kill
  BY <1>21, <1>frame DEF Kill
<1>22. CASE Configure
  <2>1. out' = [out EXCEPT ![CfgFile] = File(CfgFile, <<CfgFile, p.flags>>)] /\ UNCHANGED <<inst, cache>>
    BY <1>22 DEF Configure
  <2>2. DOMAIN out' = Built /\ \A o \in Built \ {CfgFile} : out'[o] = out[o]
    BY <2>1 DEF FilesInv
  <2>3. CfgFile \in Built /\ CfgFile \notin Installed /\ Installed \subseteq Built
    BY BuiltFinite DEF Built
  <2>4. out'[CfgFile] = File(CfgFile, <<CfgFile, p.flags>>)
    BY <2>1, <2>3 DEF FilesInv
  <2>5. "time" \in DOMAIN out'[CfgFile] /\ out'[CfgFile].time = 0
    BY <2>3, <2>4 DEF File
  <2>6. Timed(out')
    BY <2>2, <2>3, <2>5 DEF Timed, FilesInv
  <2>7. \A o \in Installed : out'[o] \in {None, out[o]}
    BY <2>2, <2>3
  <2> QED  BY <2>1, <2>2, <2>6, <2>7, RemovalKeepsAges DEF FilesInv
<1>23. CASE \E o \in Built : RemoveOutput(o)
  BY <1>23, <1>removed DEF RemoveOutput, FilesInv
<1>24. CASE RemoveFolder
  BY <1>24, <1>removed DEF RemoveFolder, Over, FilesInv
<1>25. CASE \E o \in Built : CleanRec(o)
  BY <1>25, <1>removed DEF CleanRec, FilesInv
<1>26. CASE Distclean
  BY <1>26, <1>removed, <1>frame DEF Distclean
<1>27. CASE KillInDistclean
  <2>1. UNCHANGED <<inst, cache>> /\ (out' = out \/ out' = [o \in Built |-> None])
    BY <1>27 DEF KillInDistclean
  <2> QED  BY <2>1, <1>removed, <1>frame
<1>28. CASE CanRetrieveCache
  BY <1>28 DEF CanRetrieveCache
<1>29. CASE Run
  <2>1. out' = Over(Aged(out), Makes(p.todo)) /\ inst' = Aged(inst) /\ cache' = <<>>
    BY <1>29 DEF Run, FilesInv
  <2>2. p.todo \in TaskIds
    BY <1>29, <1>todo DEF Run
  <2> QED  BY <2>1, <2>2, RunKeepsAges
<1>30. CASE KillInRun
  <2>1. out' = Over(Aged(out), Makes(p.todo)) /\ inst' = Aged(inst)
    BY <1>30 DEF KillInRun
  <2>2. DOMAIN AgedCache = {}
    BY DEF AgedCache, FilesInv
  <2>3. cache' = <<>>
    BY <1>30, <2>2 DEF KillInRun, Drop
  <2>4. p.todo \in TaskIds
    BY <1>30, <1>todo DEF KillInRun
  <2> QED  BY <2>1, <2>3, <2>4, RunKeepsAges
<1>31. CASE CannotRun
  <2>1. Failing
    BY <1>31 DEF CannotRun
  <2> QED  BY <2>1, <1>removed, <1>frame DEF Failing, Over, FilesInv
<1>32. CASE RunFails
  <2>1. Failing
    BY <1>32 DEF RunFails
  <2> QED  BY <2>1, <1>removed, <1>frame DEF Failing, Over, FilesInv
<1>33. CASE Install
  <2>1. /\ inst' = [o \in Installed |-> IF o \in Outputs(p.todo) /\ ~UpToDate(o) THEN out[o] ELSE inst[o]]
        /\ UNCHANGED <<out, cache>>
    BY <1>33 DEF Install
  <2>2. DOMAIN inst' = Installed /\ \A o \in Installed : inst'[o] \in {inst[o], out[o]}
    BY <2>1
  <2>3. Timed(inst')
    BY <2>2, BuiltFinite DEF FilesInv, Timed
  <2> QED  BY <2>1, <2>2, <2>3 DEF FilesInv, AgeInv, Timed
<1>34. CASE InstallMissing
  BY <1>34, <1>uninstalled DEF InstallMissing, NotInstalled
<1>35. CASE InstallFails
  BY <1>35, <1>uninstalled DEF InstallFails, NotInstalled
<1>36. CASE Uninstall
  BY <1>36, <1>uninstalled DEF Uninstall, NotInstalled
<1>37. CASE UNCHANGED vars
  BY <1>37, <1>frame DEF vars
<1> QED
  BY <1>1, <1>2, <1>3, <1>4, <1>5, <1>6, <1>7, <1>8, <1>9, <1>10, <1>11, <1>12, <1>13, <1>14, <1>15, <1>16, <1>17, <1>18, <1>19, <1>20, <1>21, <1>22, <1>23, <1>24, <1>25, <1>26, <1>27, <1>28, <1>29, <1>30, <1>31, <1>32, <1>33, <1>34, <1>35, <1>36, <1>37
  DEF Next, User, Command, Fault

LEMMA InstallingStep ==
  ASSUME WafIInv, ~setting.wafcache, FilesInv, AgeInv, ErrorInv, InstallingInv, [Next]_vars
  PROVE  ErrorInv' /\ InstallingInv'
<1>fields. DOMAIN p = DOMAIN Idle /\ pc \in Labels
  BY DEF WafIInv, ProcessInv
<1>todo. /\ p.todo \in 0..(Len(Tasks) + 1)
         /\ pc = "status" => p.todo # 0
         /\ pc \in {"run", "finish"} => p.todo \in TaskIds
         /\ Len(Tasks) \in Nat /\ TaskIds = 1..Len(Tasks)
  BY BuildContextAssumption DEF WafIInv, ProcessInv, TaskIds
\* the command is over, or has not come to the tasks
<1>outside. ASSUME pc' \notin InstallingLabels \cup {"clean"}, pc' \in Steady => ~p'.error
            PROVE  ErrorInv' /\ InstallingInv'
  BY <1>outside DEF ErrorInv, InstallingInv, Installing
\* nothing is installed or made, and the loop stands still
<1>still. ASSUME UNCHANGED <<out, inst>>, p'.todo = p.todo, SoFar PROVE SoFar'
  BY <1>still DEF SoFar, Same
<1>failed. ASSUME p'.error, pc' \in {"finish", "unlink"}
           PROVE  ErrorInv' /\ InstallingInv'
  BY <1>failed DEF ErrorInv, InstallingInv, Installing, Steady
<1>1. CASE Edit
  <2>1. UNCHANGED <<out, inst, pc>> /\ Edited
    BY <1>1 DEF Edit, EditSource, ChangeFlags, EditScript
  <2>2. p'.todo = p.todo /\ p'.error = p.error /\ p'.is_install = p.is_install
    BY <1>fields, <2>1 DEF Edited, Idle
  <2> QED  BY <1>still, <2>1, <2>2 DEF ErrorInv, InstallingInv, Installing
<1>2. CASE \E line \in CommandLines : Type(line)
  BY <1>2, <1>outside DEF Type, InstallingLabels, Steady
<1>3. CASE RemoveFolder
  BY <1>3, <1>outside DEF RemoveFolder, Ends, Fails, NotInstalled, Goto, InstallingLabels, Steady
<1>4. CASE Distclean
  BY <1>4, <1>outside DEF Distclean, Ends, Fails, NotInstalled, Goto, InstallingLabels, Steady
<1>5. CASE Shutdown
  BY <1>5, <1>outside DEF Shutdown, Ends, Fails, NotInstalled, Goto, InstallingLabels, Steady
<1>6. CASE NotLoaded
  BY <1>6, <1>outside DEF NotLoaded, Ends, Fails, NotInstalled, Goto, InstallingLabels, Steady
<1>7. CASE Kill
  BY <1>7, <1>outside DEF Kill, Ends, Fails, NotInstalled, Goto, InstallingLabels, Steady
<1>8. CASE KillInRun
  BY <1>8, <1>outside DEF KillInRun, Ends, Fails, NotInstalled, Goto, InstallingLabels, Steady
<1>9. CASE KillInDistclean
  BY <1>9, <1>outside DEF KillInDistclean, Ends, Fails, NotInstalled, Goto, InstallingLabels, Steady
<1>10. CASE InstallMissing
  BY <1>10, <1>outside DEF InstallMissing, Ends, Fails, NotInstalled, Goto, InstallingLabels, Steady
<1>11. CASE InstallFails
  BY <1>11, <1>outside DEF InstallFails, Ends, Fails, NotInstalled, Goto, InstallingLabels, Steady
<1>12. CASE \E o \in Built : RemoveOutput(o)
  BY <1>12, <1>outside DEF RemoveOutput, InstallingLabels, Steady
<1>13. CASE NextCommand
  <2>1. pc' \in {"check_configured", "configure", "load", "distclean"}
    BY <1>13 DEF NextCommand, FirstStep
  <2>2. p'.error = FALSE
    BY <1>13 DEF NextCommand, Idle
  <2> QED  BY <1>outside, <2>1, <2>2 DEF InstallingLabels
<1>14. CASE Configure
  BY <1>14, <1>outside DEF Configure, Goto, ErrorInv, InstallingLabels, Steady
<1>15. CASE Store
  BY <1>15, <1>outside DEF Store, Goto, ErrorInv, InstallingLabels, Steady
<1>16. CASE Stored
  BY <1>16, <1>outside DEF Stored, Goto, ErrorInv, InstallingLabels, Steady
<1>17. CASE Lock
  BY <1>17, <1>outside DEF Lock, Goto, ErrorInv, InstallingLabels, Steady
<1>18. CASE CheckConfigured
  <2>1. p'.error = p.error /\ pc' \in {"configure", "load"}
    BY <1>18, <1>fields DEF CheckConfigured, Idle
  <2> QED  BY <1>18, <1>outside, <2>1 DEF CheckConfigured, ErrorInv, InstallingLabels, Steady
<1>19. CASE LoadForClean
  BY <1>19 DEF LoadForClean, WafIInv, ProcessInv, ErrorInv, InstallingInv, Installing, InstallingLabels, Steady
<1>20. CASE LoadForBuild
  <2>1. CASE Ends
    BY <1>outside, <2>1 DEF Ends, InstallingLabels, Steady
  <2>2. CASE ~Ends
    <3>1. pc' = "status" /\ p' = [p EXCEPT !.env = envfile.table, !.todo = 1]
      BY <1>20, <2>2 DEF LoadForBuild
    <3>2. p'.todo = 1 /\ p'.error = p.error
      BY <1>fields, <3>1 DEF Idle
    <3>3. SoFar'
      BY <1>todo, <3>2 DEF SoFar
    <3> QED  BY <1>20, <3>1, <3>2, <3>3 DEF LoadForBuild, ErrorInv, InstallingInv, Installing, Steady
  <2> QED  BY <2>1, <2>2
<1>21. CASE Status
  <2>1. pc' \in {"run", "finish"} /\ UNCHANGED <<out, inst>>
    BY <1>21 DEF Status
  <2>2. p'.todo = p.todo /\ p'.error = p.error /\ p'.is_install = p.is_install
    BY <1>21, <1>fields DEF Status, Idle
  <2> QED  BY <1>21, <1>still, <2>1, <2>2 DEF Status, ErrorInv, InstallingInv, Installing, InstallingLabels, Steady
<1>22. CASE StatusUninstall
  BY <1>22, <1>still DEF StatusUninstall, ErrorInv, InstallingInv, Installing, InstallingLabels, Steady
<1>23. CASE CanRetrieveCache
  BY <1>23 DEF CanRetrieveCache
<1>24. CASE Run
  <2>1. out' = Over(Aged(out), Makes(p.todo)) /\ inst' = Aged(inst) /\ cache' = <<>>
    BY <1>24 DEF Run, FilesInv
  <2>2. pc = "run" /\ pc' = "finish" /\ p' = p /\ p.todo \in TaskIds
    BY <1>24, <1>todo DEF Run
  <2>3. \A o \in Installed \ Outputs(p.todo) : Same(o) => Same(o)'
    BY <2>1, <2>2, RunKeepsAges
  <2>4. ASSUME SoFar PROVE SoFar'
    <3> SUFFICES ASSUME NEW t \in TaskIds, t < p.todo, Tasks[t].install, NEW o \in Outputs(t)
                 PROVE  Same(o)'
      BY <2>2 DEF SoFar
    <3>1. t # p.todo
      BY <1>todo, <2>2
    <3>2. o \in Installed \ Outputs(p.todo)
      BY <2>2, <3>1, OutputsAssumption DEF Installed
    <3> QED  BY <2>3, <2>4, <3>2 DEF SoFar
  <2> QED  BY <2>2, <2>4 DEF ErrorInv, InstallingInv, Installing, InstallingLabels, Steady
<1>25. CASE CannotRun
  <2>1. Failing
    BY <1>25 DEF CannotRun
  <2>2. p'.error = TRUE
    BY <1>fields, <2>1 DEF Failing, Idle
  <2> QED  BY <1>failed, <2>1, <2>2 DEF Failing
<1>26. CASE RunFails
  <2>1. Failing
    BY <1>26 DEF RunFails
  <2>2. p'.error = TRUE
    BY <1>fields, <2>1 DEF Failing, Idle
  <2> QED  BY <1>failed, <2>1, <2>2 DEF Failing
<1>27. CASE Finish
  <2>1. /\ p'.todo = p.todo + 1 /\ p'.error = p.error /\ p'.is_install = p.is_install
        /\ pc' = IF p.error THEN "unlink" ELSE "status"
        /\ pc = "finish" /\ p.todo \in TaskIds
    BY <1>27, <1>fields, <1>todo DEF Finish, NextTask, AfterFinish, Idle
  <2>9. ASSUME SoFar, p.is_install = INSTALL PROVE SoFar'
    <3> SUFFICES ASSUME NEW t \in TaskIds, t < p.todo + 1, Tasks[t].install, NEW o \in Outputs(t)
                 PROVE  Same(o)'
      BY <2>1 DEF SoFar
    <3>1. t # p.todo
      BY <1>27, <2>9 DEF Finish, INSTALL
    <3>2. t < p.todo
      BY <1>todo, <2>1, <3>1
    <3>3. Same(o)
      BY <2>9, <3>2 DEF SoFar
    <3> QED  BY <1>27, <3>3 DEF Finish, Same
  <2> QED
    <3>1. CASE p.error
      BY <1>failed, <2>1, <3>1
    <3>2. CASE ~p.error
      BY <2>1, <2>9, <3>2 DEF ErrorInv, InstallingInv, Installing, InstallingLabels, Steady
    <3> QED  BY <3>1, <3>2
<1>28. CASE Install
  <2>1. /\ p'.todo = p.todo + 1 /\ p'.error = p.error /\ p'.is_install = p.is_install
        /\ pc' = IF p.error THEN "unlink" ELSE "status"
        /\ pc = "finish" /\ p.todo \in TaskIds
    BY <1>28, <1>fields, <1>todo DEF Install, NextTask, AfterFinish, Idle
  <2>2. /\ \A o \in Outputs(p.todo) : out[o] # None
        /\ inst' = [o \in Installed |-> IF o \in Outputs(p.todo) /\ ~UpToDate(o) THEN out[o] ELSE inst[o]]
        /\ out' = out
    BY <1>28 DEF Install
  <2>9. ASSUME SoFar, p.is_install = INSTALL PROVE SoFar'
    <3> SUFFICES ASSUME NEW t \in TaskIds, t < p.todo + 1, Tasks[t].install, NEW o \in Outputs(t)
                 PROVE  Same(o)'
      BY <2>1 DEF SoFar
    <3>1. o \in Installed
      BY DEF Installed
    <3>2. CASE t = p.todo
      BY <2>2, <3>1, <3>2 DEF Same, UpToDate, AgeInv
    <3>3. CASE t # p.todo
      <4>1. t < p.todo
        BY <1>todo, <2>1, <3>3
      <4>2. Same(o)
        BY <2>9, <4>1 DEF SoFar
      <4>3. o \notin Outputs(p.todo)
        BY <2>1, <3>3, OutputsAssumption
      <4> QED  BY <2>2, <3>1, <4>2, <4>3 DEF Same
    <3> QED  BY <3>2, <3>3
  <2> QED
    <3>1. CASE p.error
      BY <1>failed, <2>1, <3>1
    <3>2. CASE ~p.error
      BY <2>1, <2>9, <3>2 DEF ErrorInv, InstallingInv, Installing, InstallingLabels, Steady
    <3> QED  BY <3>1, <3>2
<1>29. CASE Uninstall
  <2>1. /\ p'.todo = p.todo + 1 /\ p'.error = p.error /\ p'.is_install = p.is_install
        /\ pc' = IF p.error THEN "unlink" ELSE "status"
        /\ pc = "finish" /\ p.todo \in TaskIds
    BY <1>29, <1>fields, <1>todo DEF Uninstall, NextTask, AfterFinish, Idle
  <2>9. p.is_install # INSTALL
    BY <1>29 DEF Uninstall, INSTALL, UNINSTALL
  <2> QED
    <3>1. CASE p.error
      BY <1>failed, <2>1, <3>1
    <3>2. CASE ~p.error
      BY <2>1, <2>9, <3>2 DEF ErrorInv, InstallingInv, Installing, InstallingLabels, Steady
    <3> QED  BY <3>1, <3>2
<1>30. CASE TasksDone
  <2>1. p' = p /\ UNCHANGED <<out, inst>> /\ pc = "status" /\ pc' \in {"unlink", "post"}
    BY <1>30 DEF TasksDone, Goto
  <2>2. p.todo = Len(Tasks) + 1
    BY <1>30, <1>todo DEF TasksDone
  <2> QED  BY <1>still, <2>1, <2>2 DEF ErrorInv, InstallingInv, Installing, InstallingLabels, Steady
<1>31. CASE Unlink
  <2>1. p' = p /\ UNCHANGED <<out, inst>> /\ pc = "unlink" /\ pc' = "rename"
    BY <1>31 DEF Unlink, Goto
  <2> QED  BY <1>still, <2>1 DEF ErrorInv, InstallingInv, Installing, InstallingLabels, Steady
<1>32. CASE Rename
  <2>1. CASE p.error
    BY <1>32, <1>outside, <2>1 DEF Rename, Ends, InstallingLabels, Steady
  <2>2. CASE ~p.error
    <3>1. p' = p /\ UNCHANGED <<out, inst>> /\ pc = "rename" /\ pc' \in {"next", "post"}
      BY <1>32, <2>2 DEF Rename
    <3> QED  BY <1>still, <2>2, <3>1 DEF ErrorInv, InstallingInv, Installing, InstallingLabels, Steady
  <2> QED  BY <2>1, <2>2
<1>33. CASE Post
  BY <1>33, <1>outside DEF Post, Goto, InstallingLabels, Steady
<1>34. CASE Interrupt
  <2>1. p'.error = TRUE /\ pc' = "unlink"
    BY <1>34, <1>fields DEF Interrupt, Idle
  <2> QED  BY <1>failed, <2>1
<1>35. CASE \E o \in Built : CleanRec(o)
  BY <1>35 DEF CleanRec, ErrorInv, InstallingInv, Installing, InstallingLabels, Steady
<1>36. CASE Clean
  BY <1>36 DEF Clean, ErrorInv, InstallingInv, Installing, Steady
<1>37. CASE UNCHANGED vars
  BY <1>37, <1>still DEF vars, ErrorInv, InstallingInv, Installing
<1> QED
  BY <1>1, <1>2, <1>3, <1>4, <1>5, <1>6, <1>7, <1>8, <1>9, <1>10, <1>11, <1>12, <1>13, <1>14, <1>15, <1>16, <1>17, <1>18, <1>19, <1>20, <1>21, <1>22, <1>23, <1>24, <1>25, <1>26, <1>27, <1>28, <1>29, <1>30, <1>31, <1>32, <1>33, <1>34, <1>35, <1>36, <1>37
  DEF Next, User, Command, Fault

LEMMA SettingKept == [Next]_vars => setting' = setting
<1>1. User => setting' = setting
  BY DEF user, User, Edit, EditSource, ChangeFlags, EditScript, Type
<1>2. Command => setting' = setting
  BY DEF user, Command, NextCommand, Shutdown, Configure, Store, Stored, Lock, CheckConfigured,
         NotLoaded, Fails, LoadForClean, LoadForBuild, Status, StatusUninstall, CanRetrieveCache,
         Run, CannotRun, Failing, Finish, Install, InstallMissing, NotInstalled, Uninstall,
         TasksDone, Unlink, Rename, Post, CleanRec, Clean, Distclean
<1>3. Fault => setting' = setting
  BY DEF user, Fault, RemoveOutput, RemoveFolder, RunFails, Failing, InstallFails, NotInstalled,
         Interrupt, Kill, KillInRun, KillInDistclean
<1>4. UNCHANGED vars => setting' = setting
  BY DEF vars, user
<1> QED  BY <1>1, <1>2, <1>3, <1>4 DEF Next

(* ----- what is installed: the theorem ----- *)

LEMMA InstallAlways == Spec => []InstIInv
<1>1. Init => InstIInv
  <2> SUFFICES ASSUME Init PROVE InstIInv
    OBVIOUS
  <2>1. FilesInv /\ AgeInv
    BY DEF Init, FilesInv, AgeInv, Timed
  <2>2. ErrorInv /\ InstallingInv
    BY DEF Init, ErrorInv, InstallingInv, Installing, InstallingLabels, Steady
  <2> QED  BY <2>1, <2>2 DEF InstIInv
<1>2. WafIInv /\ InstIInv /\ [Next]_vars => InstIInv'
  <2> SUFFICES ASSUME WafIInv, InstIInv, [Next]_vars, ~setting'.wafcache
               PROVE  (FilesInv /\ AgeInv /\ ErrorInv /\ InstallingInv)'
    BY DEF InstIInv
  <2>1. setting' = setting
    BY SettingKept
  <2>2. ~setting.wafcache /\ FilesInv /\ AgeInv /\ ErrorInv /\ InstallingInv
    BY <2>1 DEF InstIInv
  <2> QED  BY <2>2, AgesStep, InstallingStep
<1> QED  BY <1>1, <1>2, WafAlways, PTL DEF Spec

\* InstalledIsBuilt: although do_install copies nothing over a file that is not
\* older than the output, an install that succeeds leaves every installed file
\* there, with the text of the output; whatever was edited, killed or removed
\* in this invocation or before.
THEOREM InstalledTheorem == Spec => []InstalledIsBuilt
<1>1. InstIInv => InstalledIsBuilt
  <2> SUFFICES ASSUME InstIInv, Succeeded, p.is_install = INSTALL, ~setting.wafcache, NEW o \in Installed
               PROVE  inst[o] # None /\ inst[o].text = out[o].text
    BY DEF InstalledIsBuilt
  <2>1. Installing /\ pc = "post" /\ ErrorInv /\ InstallingInv
    BY DEF InstIInv, Succeeded, ErrorInv, Installing, InstallingLabels, Steady
  <2>2. SoFar /\ p.todo = Len(Tasks) + 1
    BY <2>1 DEF InstallingInv
  <2>3. PICK t \in TaskIds : Tasks[t].install /\ o \in Outputs(t)
    BY DEF Installed
  <2>4. t < Len(Tasks) + 1
    BY BuildContextAssumption DEF TaskIds
  <2> QED  BY <2>2, <2>3, <2>4 DEF SoFar, Same
<1> QED  BY <1>1, InstallAlways, PTL

(* ----- the recursive functions of the model ----- *)

\* A set of numbers with zero, and with the successor of each, has them all:
\* what stands for an induction below.
LEMMA AllNumbers ==
  ASSUME NEW S, 0 \in S, \A n \in Nat : n \in S => n + 1 \in S
  PROVE  Nat \subseteq S
<1> SUFFICES ASSUME Nat \ S # {} PROVE FALSE
  OBVIOUS
<1>1. IsWellFoundedOn({q \in Nat \X Nat : q[1] < q[2]}, Nat)
  BY NatLessThanWellFounded DEF OpToRel
<1>2. PICK n \in Nat \ S : \A m \in Nat \ S : ~(<<m, n>> \in {q \in Nat \X Nat : q[1] < q[2]})
  BY <1>1, WFMin
<1>3. n # 0 /\ n - 1 \in Nat /\ n - 1 < n
  BY <1>2
<1>4. n - 1 \in S
  BY <1>2, <1>3
<1>5. (n - 1) + 1 \in S
  BY <1>3, <1>4
<1> QED  BY <1>2, <1>5

\* The versions of the sources at some moment.
Versions == [Sources -> 1..(MaxVersion + 1)]

\* One level of includes, and the levels up to the n-th.
Named(t, x, names) ==
  UNION {Includes[f][x[f]] : f \in {g \in (names \cup Elements(Tasks[t].inputs)) \ Built : Exists(x, g)}}
Levels(f, n, t, x) == f = [i \in 0..n |-> IF i = 0 THEN {} ELSE Named(t, x, f[i - 1])]

LEMMA LevelsExist ==
  ASSUME NEW t, NEW x
  PROVE  \A n \in Nat : \E f : Levels(f, n, t, x)
<1> DEFINE S == {n \in Nat : \E f : Levels(f, n, t, x)}
<1>1. 0 \in S
  <2>1. PICK f : f = [i \in 0..0 |-> {}]
    OBVIOUS
  <2>2. f = [i \in 0..0 |-> IF i = 0 THEN {} ELSE Named(t, x, f[i - 1])]
    BY <2>1
  <2> QED  BY <2>2 DEF Levels
<1>2. ASSUME NEW n \in Nat, n \in S PROVE n + 1 \in S
  <2>1. PICK f : Levels(f, n, t, x)
    BY <1>2
  <2>2. PICK last : last = Named(t, x, f[n])
    OBVIOUS
  <2>3. PICK g : g = [i \in 0..(n + 1) |-> IF i = n + 1 THEN last ELSE f[i]]
    OBVIOUS
  <2>4. \A i \in 0..n : f[i] = IF i = 0 THEN {} ELSE Named(t, x, f[i - 1])
    BY <2>1 DEF Levels
  <2>5. \A i \in 0..(n + 1) : g[i] = IF i = 0 THEN {} ELSE Named(t, x, g[i - 1])
    <3> TAKE i \in 0..(n + 1)
    <3>1. CASE i = 0
      BY <2>3, <2>4, <3>1
    <3>2. CASE i # 0 /\ i # n + 1
      <4>1. i \in 0..n /\ i - 1 \in 0..(n + 1) /\ i - 1 # n + 1
        BY <3>2
      <4>2. g[i] = f[i] /\ g[i - 1] = f[i - 1]
        BY <2>3, <3>2, <4>1
      <4> QED  BY <2>4, <3>2, <4>1, <4>2
    <3>3. CASE i # 0 /\ i = n + 1
      <4>1. i - 1 = n /\ n \in 0..(n + 1) /\ n # n + 1
        BY <3>3
      <4>2. g[i] = last /\ g[i - 1] = f[n]
        BY <2>3, <3>3, <4>1
      <4> QED  BY <2>2, <3>3, <4>2
    <3> QED  BY <3>1, <3>2, <3>3
  <2>6. g = [i \in 0..(n + 1) |-> g[i]]
    BY <2>3
  <2>7. Levels(g, n + 1, t, x)
    BY <2>5, <2>6 DEF Levels
  <2> QED  BY <2>7
<1> QED  BY <1>1, <1>2, AllNumbers

\* What Included is: the last of these levels.
LEMMA IncludedIs ==
  ASSUME NEW t, NEW x, Tasks[t].scan
  PROVE  \E f : Levels(f, Cardinality(Sources), t, x) /\ Included(t, x) = f[Cardinality(Sources)]
<1> DEFINE N == Cardinality(Sources)
<1>1. N \in Nat
  BY FilesAssumption, FS_CardinalityType
<1>2. PICK named : named = CHOOSE f : Levels(f, N, t, x)
  OBVIOUS
<1>3. Levels(named, N, t, x)
  BY <1>1, <1>2, LevelsExist
<1>4. named = CHOOSE f : f = [n \in 0..N |->
                 IF n = 0 THEN {}
                 ELSE UNION {Includes[h][x[h]] : h \in {g \in (f[n - 1] \cup Elements(Tasks[t].inputs)) \ Built : Exists(x, g)}}]
  BY <1>2 DEF Levels, Named
<1>5. Included(t, x) = named[N]
  BY <1>4 DEF Included
<1> QED  BY <1>3, <1>5

\* The levels grow, and hold nothing but sources and what is built.
LEMMA LevelsGrow ==
  ASSUME NEW t \in TaskIds, NEW x \in Versions, NEW N \in Nat, NEW f, Levels(f, N, t, x)
  PROVE  \A n \in 0..N : f[n] \subseteq f[N] /\ f[n] \subseteq Sources \cup Built
<1>def. \A n \in 0..N : f[n] = IF n = 0 THEN {} ELSE Named(t, x, f[n - 1])
  BY DEF Levels
<1>range. ASSUME NEW A, A \subseteq Sources \cup Built PROVE Named(t, x, A) \subseteq Sources \cup Built
  <2> SUFFICES ASSUME NEW g \in (A \cup Elements(Tasks[t].inputs)) \ Built, Exists(x, g)
               PROVE  Includes[g][x[g]] \subseteq Sources \cup Built
    BY DEF Named
  <2>1. g \in Sources
    BY <1>range, FilesAssumption
  <2>2. x[g] \in 1..MaxVersion
    BY <2>1, BuildContextAssumption DEF Exists, Versions
  <2> QED  BY <2>1, <2>2, FilesAssumption
<1>grow. ASSUME NEW A, NEW B, A \subseteq B PROVE Named(t, x, A) \subseteq Named(t, x, B)
  BY <1>grow DEF Named
<1>1. \A n \in 0..N : f[n] \subseteq Sources \cup Built
  <2> DEFINE S == {n \in Nat : n <= N => f[n] \subseteq Sources \cup Built}
  <2>1. 0 \in S
    BY <1>def
  <2>2. ASSUME NEW n \in Nat, n \in S PROVE n + 1 \in S
    <3> SUFFICES ASSUME n + 1 <= N PROVE f[n + 1] \subseteq Sources \cup Built
      OBVIOUS
    <3>1. f[n] \subseteq Sources \cup Built
      BY <2>2
    <3>2. f[n + 1] = Named(t, x, f[(n + 1) - 1]) /\ (n + 1) - 1 = n
      BY <1>def
    <3> QED  BY <1>range, <3>1, <3>2
  <2>3. Nat \subseteq S
    <3> HIDE DEF S
    <3> QED  BY <2>1, <2>2, AllNumbers
  <2> QED  BY <2>3
<1>2. \A n \in Nat : n + 1 <= N => f[n] \subseteq f[n + 1]
  <2> DEFINE S == {n \in Nat : n + 1 <= N => f[n] \subseteq f[n + 1]}
  <2>1. 0 \in S
    BY <1>def
  <2>2. ASSUME NEW n \in Nat, n \in S PROVE n + 1 \in S
    <3> SUFFICES ASSUME (n + 1) + 1 <= N PROVE f[n + 1] \subseteq f[(n + 1) + 1]
      OBVIOUS
    <3>1. f[n] \subseteq f[n + 1]
      BY <2>2
    <3>2. f[n + 1] = Named(t, x, f[(n + 1) - 1]) /\ (n + 1) - 1 = n
      BY <1>def
    <3>3. f[(n + 1) + 1] = Named(t, x, f[((n + 1) + 1) - 1]) /\ ((n + 1) + 1) - 1 = n + 1
      BY <1>def
    <3> QED  BY <1>grow, <3>1, <3>2, <3>3
  <2> QED  BY <2>1, <2>2, AllNumbers
<1>3. \A n \in 0..N : f[n] \subseteq f[N]
  <2> DEFINE S == {k \in Nat : k <= N => f[N - k] \subseteq f[N]}
  <2>1. 0 \in S
    OBVIOUS
  <2>2. ASSUME NEW k \in Nat, k \in S PROVE k + 1 \in S
    <3> SUFFICES ASSUME k + 1 <= N PROVE f[N - (k + 1)] \subseteq f[N]
      OBVIOUS
    <3>1. f[N - k] \subseteq f[N]
      BY <2>2
    <3>2. N - (k + 1) \in Nat /\ (N - (k + 1)) + 1 = N - k /\ N - k <= N
      OBVIOUS
    <3> QED  BY <1>2, <3>1, <3>2
  <2>3. Nat \subseteq S
    BY <2>1, <2>2, AllNumbers
  <2> TAKE n \in 0..N
  <2>4. N - n \in Nat /\ N - n <= N /\ N - (N - n) = n
    OBVIOUS
  <2> QED  BY <2>3, <2>4
<1> QED  BY <1>1, <1>3

LEMMA IncludedFiles ==
  ASSUME NEW t \in TaskIds, NEW x \in Versions
  PROVE  Included(t, x) \subseteq Sources \cup Built
<1>1. CASE Tasks[t].scan
  <2>1. PICK f : Levels(f, Cardinality(Sources), t, x) /\ Included(t, x) = f[Cardinality(Sources)]
    BY <1>1, IncludedIs
  <2>2. Cardinality(Sources) \in Nat
    BY FilesAssumption, FS_CardinalityType
  <2> QED  BY <2>1, <2>2, LevelsGrow
<1>2. CASE ~Tasks[t].scan
  BY <1>2 DEF Included
<1> QED  BY <1>1, <1>2

\* An edit of a task's input does not change what it includes.
KeepsIncludes ==
  \A t \in TaskIds : Tasks[t].scan =>
    \A f \in Elements(Tasks[t].inputs) \ Built : \A v, u \in 1..MaxVersion : Includes[f][v] = Includes[f][u]

\* Two moments at which everything a task includes had the same version.
LEMMA SameIncludes ==
  ASSUME KeepsIncludes, NEW t \in TaskIds, NEW x \in Versions, NEW y \in Versions,
         \A f \in Included(t, x) \ Built : x[f] = y[f],
         \A f \in Elements(Tasks[t].inputs) \ Built : Exists(x, f) /\ Exists(y, f)
  PROVE  Included(t, x) = Included(t, y)
<1> DEFINE N == Cardinality(Sources)
<1>1. CASE ~Tasks[t].scan
  BY <1>1 DEF Included
<1>2. CASE Tasks[t].scan
  <2>N. N \in Nat
    BY FilesAssumption, FS_CardinalityType
  <2>1. PICK f : Levels(f, N, t, x) /\ Included(t, x) = f[N]
    BY <1>2, IncludedIs
  <2>2. PICK g : Levels(g, N, t, y) /\ Included(t, y) = g[N]
    BY <1>2, IncludedIs
  <2>3. \A n \in 0..N : f[n] \subseteq Included(t, x)
    BY <2>1, <2>N, LevelsGrow
  <2>4. ASSUME NEW A, A \subseteq Included(t, x) PROVE Named(t, x, A) = Named(t, y, A)
    <3> DEFINE from == (A \cup Elements(Tasks[t].inputs)) \ Built
    <3>1. ASSUME NEW h \in from
          PROVE  (Exists(x, h) <=> Exists(y, h)) /\ (Exists(x, h) => Includes[h][x[h]] = Includes[h][y[h]])
      <4>1. CASE h \in Included(t, x) \ Built
        BY <4>1 DEF Exists
      <4>2. CASE h \in Elements(Tasks[t].inputs) \ Built
        <5>1. h \in Sources /\ Exists(x, h) /\ Exists(y, h)
          BY <4>2, FilesAssumption
        <5>2. x[h] \in 1..MaxVersion /\ y[h] \in 1..MaxVersion
          BY <5>1, BuildContextAssumption DEF Exists, Versions
        <5> QED  BY <1>2, <4>2, <5>1, <5>2 DEF KeepsIncludes
      <4> QED  BY <2>4, <3>1, <4>1, <4>2
    <3>2. {h \in from : Exists(x, h)} = {h \in from : Exists(y, h)}
      BY <3>1
    <3>3. {Includes[h][x[h]] : h \in {k \in from : Exists(x, k)}} = {Includes[h][y[h]] : h \in {k \in from : Exists(y, k)}}
      BY <3>1, <3>2
    <3> QED  BY <3>3 DEF Named
  <2>5. \A n \in 0..N : f[n] = g[n]
    <3> DEFINE S == {n \in Nat : n <= N => f[n] = g[n]}
    <3>def. \A n \in 0..N : /\ f[n] = IF n = 0 THEN {} ELSE Named(t, x, f[n - 1])
                            /\ g[n] = IF n = 0 THEN {} ELSE Named(t, y, g[n - 1])
      BY <2>1, <2>2 DEF Levels
    <3>1. 0 \in S
      BY <2>N, <3>def
    <3>2. ASSUME NEW n \in Nat, n \in S PROVE n + 1 \in S
      <4> SUFFICES ASSUME n + 1 <= N PROVE f[n + 1] = g[n + 1]
        OBVIOUS
      <4>1. f[n] = g[n] /\ f[n] \subseteq Included(t, x)
        BY <2>N, <2>3, <3>2
      <4>2. /\ f[n + 1] = Named(t, x, f[(n + 1) - 1]) /\ g[n + 1] = Named(t, y, g[(n + 1) - 1])
            /\ (n + 1) - 1 = n
        BY <2>N, <3>def
      <4> QED  BY <2>4, <4>1, <4>2
    <3>3. Nat \subseteq S
      <4> HIDE DEF S
      <4> QED  BY <3>1, <3>2, AllNumbers
    <3> QED  BY <2>N, <3>3
  <2> QED  BY <2>1, <2>2, <2>5, <2>N
<1> QED  BY <1>1, <1>2

(* ----- signatures and texts ----- *)

(* The invariant below speaks of a set K of triples <<o, sig, text>>: sig is a
   signature that some context has, or had, for the output o, and text is
   what the task made of o at that time or later.  Nothing is ever edited
   back, so what went into sig is no newer than what went into text, one file
   at a time; and when sig is what a task would be signed with now, and text
   cannot be newer than now, they are the same.  sv are the versions of the
   sources, env is the table of the configuration. *)

NotAfter(x, w) == \A f \in Sources : x[f] <= w[f]
NotOlderThan(env, old) ==
  \A v : EnvGet(old, v) \in Nat /\ EnvGet(env, v) \in Nat /\ EnvGet(old, v) <= EnvGet(env, v)

\* A signature that the file has, or had.
KnownSig(K, sv, env, f, sig) ==
  IF f \in Sources THEN \E v \in 1..sv[f] : sig = <<f, v>>
  ELSE IF f = CfgFile THEN sig = SIG_NIL \/ \E k \in 0..EnvGet(env, "FLAGS") : sig = <<CfgFile, k>>
  ELSE \E r \in K : r[1] = f /\ r[2] = sig

\* The text is no older than the signature.
Before(K, f, sig, text) ==
  IF f \in Sources \cup {CfgFile} THEN sig[2] <= text[2] ELSE <<f, sig, text>> \in K

\* A scan that found these names; those it did not find were removed.
Explains(t, x, names) ==
  /\ names \subseteq Included(t, x)
  /\ \A g \in Included(t, x) \ names : g \in Sources /\ x[g] = MaxVersion + 1

Names(imp) == {e[1] : e \in imp}
UpTo(imp, x) == \A e \in imp : e[1] \in Sources => e[2][2] \in 0..x[e[1]]

\* A signature of t: its parts are known, and the implicit dependencies were
\* found at x, when their signatures had been taken.
SigPart(K, sv, env, t, s, x) ==
  /\ \A i \in DOMAIN Tasks[t].inputs : KnownSig(K, sv, env, Tasks[t].inputs[i], s[1][i])
  /\ Tasks[t].scan =>
       /\ Explains(t, x, Names(s[2]))
       /\ UpTo(s[2], x)
       /\ \A e \in s[2] : KnownSig(K, sv, env, e[1], e[2])
  /\ \A v \in Tasks[t].vars : s[3][v] \in 0..EnvGet(env, v)

\* Nothing is made without a configuration header it needs: a signature that
\* saw none is of a source that has changed since.
NilPart(sv, t, s) ==
  /\ \A i \in DOMAIN Tasks[t].inputs : s[1][i] # SIG_NIL
  /\ Tasks[t].scan /\ <<CfgFile, SIG_NIL>> \in s[2] =>
       \E e \in s[2] : e[1] \in Sources /\ e[2][2] < sv[e[1]]

\* What t made at w.
TextPart(env, t, T, w) ==
  /\ T = [task |-> t, from |-> T.from, flags |-> T.flags]
  /\ T.from = [f \in ReadBy(t, w) |-> T.from[f]]
  /\ T.flags = [v \in Tasks[t].vars |-> T.flags[v]]
  /\ \A f \in ReadBy(t, w) \cap Sources : T.from[f] = <<f, w[f]>> /\ w[f] <= MaxVersion
  /\ CfgFile \in ReadBy(t, w) =>
       \E k \in 0..EnvGet(env, "FLAGS") : T.from[CfgFile] = <<CfgFile, k>>
  /\ \A v \in Tasks[t].vars : T.flags[v] \in 0..EnvGet(env, v)

\* Part by part, what was made is no older than the signature.
InOrder(K, t, s, T) ==
  /\ \A i \in DOMAIN Tasks[t].inputs :
       Before(K, Tasks[t].inputs[i], s[1][i], T.from[Tasks[t].inputs[i]])
  /\ Tasks[t].scan =>
       \A e \in s[2] : e[1] \in Built /\ e[1] \in DOMAIN T.from => Before(K, e[1], e[2], T.from[e[1]])
  /\ \A v \in Tasks[t].vars : s[3][v] <= T.flags[v]

PairOK(K, sv, env, t, s, T) ==
  /\ NilPart(sv, t, s)
  /\ \E x, w \in Versions :
       /\ NotAfter(x, w) /\ NotAfter(w, sv)
       /\ SigPart(K, sv, env, t, s, x) /\ TextPart(env, t, T, w) /\ InOrder(K, t, s, T)

\* A context: what it knows are signatures of that kind; its implicit
\* dependencies were found at some x.
NodesOK(K, sv, env, c) ==
  \A n \in DOMAIN c.node_sigs :
    /\ n[1] \in Sources \cup Built /\ n = NodeOf(c, n[1]) /\ Known(c, n[1])
    /\ KnownSig(K, sv, env, n[1], c.node_sigs[n])
SigsOK(K, sv, env, c) ==
  \A t \in DOMAIN c.task_sigs :
    /\ t \in TaskIds
    /\ c.task_sigs[t].imp = c.task_sigs[t].sig[2]
    /\ \A o \in Outputs(t) : KnownSig(K, sv, env, o, c.task_sigs[t].sig)
    /\ Tasks[t].scan => t \in DOMAIN c.node_deps
DepsOK(sv, c) ==
  \A t \in DOMAIN c.node_deps :
    /\ t \in TaskIds /\ Tasks[t].scan
    /\ \E x \in Versions :
         /\ NotAfter(x, sv)
         /\ Explains(t, x, Names(c.node_deps[t]))
         /\ t \in DOMAIN c.task_sigs => UpTo(c.task_sigs[t].imp, x)
ContextOK(K, sv, env, c) == NodesOK(K, sv, env, c) /\ SigsOK(K, sv, env, c) /\ DepsOK(sv, c)

\* All this stays true: sources and configuration get newer, K grows.
LEMMA NotAfterTransitive ==
  ASSUME NEW x \in Versions, NEW w \in Versions, NEW y \in Versions, NotAfter(x, w), NotAfter(w, y)
  PROVE  NotAfter(x, y)
<1> SUFFICES ASSUME NEW f \in Sources PROVE x[f] <= y[f]
  BY DEF NotAfter
<1>1. x[f] \in Nat /\ w[f] \in Nat /\ y[f] \in Nat
  BY BuildContextAssumption DEF Versions
<1>2. x[f] <= w[f] /\ w[f] <= y[f]
  BY DEF NotAfter
<1> QED  BY <1>1, <1>2

LEMMA StaysKnown ==
  ASSUME NEW K, NEW L, K \subseteq L, NEW sv \in Versions, NEW sw \in Versions, NotAfter(sv, sw),
         NEW old, NEW env, NotOlderThan(env, old), NEW f, NEW sig, KnownSig(K, sv, old, f, sig)
  PROVE  KnownSig(L, sw, env, f, sig)
<1>1. CASE f \in Sources
  <2>1. PICK v \in 1..sv[f] : sig = <<f, v>>
    BY <1>1 DEF KnownSig
  <2>2. sv[f] \in Nat /\ sw[f] \in Nat /\ sv[f] <= sw[f]
    BY <1>1, BuildContextAssumption DEF Versions, NotAfter
  <2>3. v \in 1..sw[f]
    BY <2>2
  <2> QED  BY <1>1, <2>1, <2>3 DEF KnownSig
<1>2. CASE f \notin Sources /\ f = CfgFile
  <2>1. CASE sig = SIG_NIL
    BY <1>2, <2>1 DEF KnownSig
  <2>2. CASE sig # SIG_NIL
    <3>1. PICK k \in 0..EnvGet(old, "FLAGS") : sig = <<CfgFile, k>>
      BY <1>2, <2>2 DEF KnownSig
    <3>2. EnvGet(old, "FLAGS") \in Nat /\ EnvGet(env, "FLAGS") \in Nat /\ EnvGet(old, "FLAGS") <= EnvGet(env, "FLAGS")
      BY DEF NotOlderThan
    <3>3. k \in 0..EnvGet(env, "FLAGS")
      BY <3>2
    <3> QED  BY <1>2, <3>1, <3>3 DEF KnownSig
  <2> QED  BY <2>1, <2>2
<1>3. CASE f \notin Sources /\ f # CfgFile
  BY <1>3 DEF KnownSig
<1> QED  BY <1>1, <1>2, <1>3

LEMMA EnvRange ==
  ASSUME NEW env, NEW old, NotOlderThan(env, old), NEW v, NEW k \in 0..EnvGet(old, v)
  PROVE  k \in 0..EnvGet(env, v)
<1>1. EnvGet(old, v) \in Nat /\ EnvGet(env, v) \in Nat /\ EnvGet(old, v) <= EnvGet(env, v)
  BY DEF NotOlderThan
<1> QED  BY <1>1

LEMMA StaysPair ==
  ASSUME NEW K, NEW L, K \subseteq L, NEW sv \in Versions, NEW sw \in Versions, NotAfter(sv, sw),
         NEW old, NEW env, NotOlderThan(env, old), NEW t \in TaskIds, NEW s, NEW T,
         PairOK(K, sv, old, t, s, T)
  PROVE  PairOK(L, sw, env, t, s, T)
<1>1. PICK x \in Versions, w \in Versions :
        /\ NotAfter(x, w) /\ NotAfter(w, sv)
        /\ SigPart(K, sv, old, t, s, x) /\ TextPart(old, t, T, w) /\ InOrder(K, t, s, T)
  BY DEF PairOK
<1>2. NilPart(sw, t, s)
  <2>1. NilPart(sv, t, s)
    BY DEF PairOK
  <2>2. ASSUME Tasks[t].scan, <<CfgFile, SIG_NIL>> \in s[2]
        PROVE  \E e \in s[2] : e[1] \in Sources /\ e[2][2] < sw[e[1]]
    <3>1. PICK e \in s[2] : e[1] \in Sources /\ e[2][2] < sv[e[1]]
      BY <2>1, <2>2 DEF NilPart
    <3>2. PICK v \in 1..sv[e[1]] : e[2] = <<e[1], v>>
      BY <1>1, <2>2, <3>1 DEF SigPart, KnownSig
    <3>3. sv[e[1]] \in Nat /\ sw[e[1]] \in Nat /\ sv[e[1]] <= sw[e[1]]
      BY <3>1, BuildContextAssumption DEF Versions, NotAfter
    <3>4. e[2][2] < sw[e[1]]
      BY <3>1, <3>2, <3>3
    <3> QED  BY <3>1, <3>4
  <2> QED  BY <2>1, <2>2 DEF NilPart
<1>3. NotAfter(w, sw)
  BY <1>1, NotAfterTransitive
<1>4. SigPart(L, sw, env, t, s, x)
  <2>1. \A f, sig : KnownSig(K, sv, old, f, sig) => KnownSig(L, sw, env, f, sig)
    BY StaysKnown
  <2>2. \A v \in Tasks[t].vars : s[3][v] \in 0..EnvGet(env, v)
    BY <1>1, EnvRange DEF SigPart
  <2> QED  BY <1>1, <2>1, <2>2 DEF SigPart
<1>5. TextPart(env, t, T, w)
  <2>1. \A v \in Tasks[t].vars : T.flags[v] \in 0..EnvGet(env, v)
    BY <1>1, EnvRange DEF TextPart
  <2>2. CfgFile \in ReadBy(t, w) => \E k \in 0..EnvGet(env, "FLAGS") : T.from[CfgFile] = <<CfgFile, k>>
    BY <1>1, EnvRange DEF TextPart
  <2> QED  BY <1>1, <2>1, <2>2 DEF TextPart
<1>6. InOrder(L, t, s, T)
  <2>1. \A f, sig, text : Before(K, f, sig, text) => Before(L, f, sig, text)
    BY DEF Before
  <2> QED  BY <1>1, <2>1 DEF InOrder
<1> QED  BY <1>1, <1>2, <1>3, <1>4, <1>5, <1>6 DEF PairOK

LEMMA StaysContext ==
  ASSUME NEW K, NEW L, K \subseteq L, NEW sv \in Versions, NEW sw \in Versions, NotAfter(sv, sw),
         NEW old, NEW env, NotOlderThan(env, old), NEW c, ContextOK(K, sv, old, c)
  PROVE  ContextOK(L, sw, env, c)
<1>1. \A f, sig : KnownSig(K, sv, old, f, sig) => KnownSig(L, sw, env, f, sig)
  BY StaysKnown
<1>2. NodesOK(L, sw, env, c)
  BY <1>1 DEF ContextOK, NodesOK
<1>3. SigsOK(L, sw, env, c)
  BY <1>1 DEF ContextOK, SigsOK
<1>4. \A x \in Versions : NotAfter(x, sv) => NotAfter(x, sw)
  BY NotAfterTransitive
<1>5. DepsOK(sw, c)
  BY <1>4 DEF ContextOK, DepsOK
<1> QED  BY <1>2, <1>3, <1>5 DEF ContextOK

\* What the tasks before t have made is what their signatures stand for, and
\* the sources and the configuration are those that the context has signed.
CurrentNodes(sv, env, F, c) ==
  /\ \A n \in DOMAIN c.node_sigs : n[1] \in Sources => c.node_sigs[n] = FileText(sv, n[1])
  /\ c.node_sigs[BuildNode(CfgFile)] = IF F[CfgFile] = None THEN SIG_NIL ELSE F[CfgFile].text
  /\ F[CfgFile] # None => F[CfgFile].text = <<CfgFile, EnvGet(env, "FLAGS")>>
CurrentOutputs(K, F, c, t) ==
  \A u \in 1..(t - 1) : \A o \in Outputs(u) :
    /\ F[o] # None
    /\ \A r \in K : r[1] = o /\ r[2] = c.node_sigs[BuildNode(o)] => r[3] = F[o].text

\* All that a file read by t can have been: what it is now.  sig is the
\* signature that it has now, text what t was made from.
LEMMA OnlyFile ==
  ASSUME NEW K, NEW sv \in Versions, NEW env, NEW F, NEW c, NEW t \in TaskIds, NEW w \in Versions,
         NotOlderThan(env, env), CurrentNodes(sv, env, F, c), CurrentOutputs(K, F, c, t), NotAfter(w, sv),
         NEW T, TextPart(env, t, T, w), NEW f \in ReadBy(t, w) \cap Built,
         c.node_sigs[BuildNode(f)] # SIG_NIL \/ f # CfgFile,
         Before(K, f, c.node_sigs[BuildNode(f)], T.from[f])
  PROVE  T.from[f] = TextOf(f, sv, F) /\ There(f, sv, F)
<1>0. Sources \cap Built = {} /\ f \notin Sources
  BY FilesAssumption
<1>1. CASE f = CfgFile
  <2>1. PICK k \in 0..EnvGet(env, "FLAGS") : T.from[f] = <<CfgFile, k>>
    BY <1>1 DEF TextPart
  <2>2. F[f] # None /\ F[f].text = <<CfgFile, EnvGet(env, "FLAGS")>> /\ c.node_sigs[BuildNode(f)] = F[f].text
    BY <1>1 DEF CurrentNodes
  <2>3. EnvGet(env, "FLAGS") <= k
    BY <1>1, <2>1, <2>2 DEF Before
  <2>4. EnvGet(env, "FLAGS") \in Nat
    BY DEF NotOlderThan
  <2>5. k = EnvGet(env, "FLAGS")
    BY <2>3, <2>4
  <2> QED  BY <2>1, <2>2, <2>5 DEF TextOf, There, None, Nothing
<1>2. CASE f # CfgFile
  <2>1. PICK u \in 1..(t - 1) : f \in Outputs(u)
    BY <1>2, OrderAssumption DEF Versions, Outputs
  <2>2. F[f] # None /\ \A r \in K : r[1] = f /\ r[2] = c.node_sigs[BuildNode(f)] => r[3] = F[f].text
    BY <2>1 DEF CurrentOutputs
  <2>3. <<f, c.node_sigs[BuildNode(f)], T.from[f]>> \in K
    BY <1>0, <1>2 DEF Before
  <2>4. T.from[f] = F[f].text
    BY <2>2, <2>3
  <2> QED  BY <2>2, <2>4 DEF TextOf, There, None, Nothing
<1> QED  BY <1>1, <1>2

\* The versions of a signature that is the present one: nothing that the task
\* includes has changed since it was scanned, or since it was made.
LEMMA OnlyVersions ==
  ASSUME NEW sv \in Versions, NEW t \in TaskIds, NEW x \in Versions, NotAfter(x, sv),
         NEW imp, Explains(t, x, Names(imp)), UpTo(imp, x),
         \A e \in imp : e[1] \in Sources => e[2] = <<e[1], sv[e[1]]>>
  PROVE  \A f \in Included(t, x) \ Built : x[f] = sv[f]
<1>2. ASSUME NEW f \in Included(t, x) \ Built PROVE x[f] = sv[f]
  <2>0. f \in Sources
    BY IncludedFiles
  <2>n. x[f] \in 1..(MaxVersion + 1) /\ sv[f] \in 1..(MaxVersion + 1) /\ x[f] <= sv[f] /\ MaxVersion \in Nat
    BY <2>0, BuildContextAssumption DEF Versions, NotAfter
  <2>1. CASE f \in Names(imp)
    <3>1. PICK e \in imp : e[1] = f
      BY <2>1 DEF Names
    <3>2. e[2] = <<f, sv[f]>>
      BY <2>0, <3>1
    <3>3. e[2][2] <= x[f]
      BY <2>0, <3>1 DEF UpTo
    <3>4. sv[f] <= x[f]
      BY <3>2, <3>3
    <3> QED  BY <2>n, <3>4
  <2>2. CASE f \notin Names(imp)
    <3>1. x[f] = MaxVersion + 1
      BY <2>2 DEF Explains
    <3> QED  BY <2>n, <3>1
  <2> QED  BY <2>1, <2>2
<1> QED  BY <1>2

\* A task whose signature is the one it has now was made from what there is
\* now: the only text that goes with it is what the task would make.
LEMMA OnlyText ==
  ASSUME KeepsIncludes, NEW K, NEW sv \in Versions, NEW env, NEW F, NEW c, NEW t \in TaskIds,
         NotOlderThan(env, env), CurrentNodes(sv, env, F, c), CurrentOutputs(K, F, c, t), NodesOK(K, sv, env, c),
         \A f \in Elements(Tasks[t].inputs) \ Built : Exists(sv, f),
         Signature(c, t, env) # NoSig,
         NEW T, PairOK(K, sv, env, t, Signature(c, t, env).sig, T)
  PROVE  T = Compile(t, sv, F, env) /\ Compiles(t, sv, F)
<1>s. PICK s : s = Signature(c, t, env).sig
  OBVIOUS
<1>0. /\ HasExplicit(c, t)
      /\ Tasks[t].scan => HasImplicit(c, t)
      /\ s[1] = SigExplicitDeps(c, t)
      /\ Tasks[t].scan => s[2] = {<<n[1], c.node_sigs[n]>> : n \in NodeDeps(c, t)}
      /\ s[3] = HashEnvVars(env, Tasks[t].vars)
  <2>1. HasExplicit(c, t) /\ (Tasks[t].scan => HasImplicit(c, t))
    BY DEF Signature
  <2>2. s = <<SigExplicitDeps(c, t), IF Tasks[t].scan THEN ComputeSigImplicitDeps(c, t) ELSE SIG_NIL, SigVars(t, env)>>
    BY <1>s, <2>1 DEF Signature
  <2> QED  BY <2>1, <2>2 DEF ComputeSigImplicitDeps, SigVars
<1>1. PICK x \in Versions, w \in Versions :
        /\ NotAfter(x, w) /\ NotAfter(w, sv)
        /\ SigPart(K, sv, env, t, s, x) /\ TextPart(env, t, T, w) /\ InOrder(K, t, s, T)
  BY <1>s DEF PairOK
<1>nil. NilPart(sv, t, s)
  BY <1>s DEF PairOK
<1>n. \A f \in Sources : /\ x[f] \in 1..(MaxVersion + 1) /\ w[f] \in 1..(MaxVersion + 1) /\ sv[f] \in 1..(MaxVersion + 1)
                         /\ x[f] <= w[f] /\ w[f] <= sv[f]
  BY <1>1 DEF Versions, NotAfter
<1>m. MaxVersion \in Nat /\ Sources \cap Built = {} /\ Elements(Tasks[t].inputs) \subseteq Sources \cup Built
  BY BuildContextAssumption, FilesAssumption
<1>2. ASSUME NEW f \in Elements(Tasks[t].inputs)
      PROVE  \E i \in DOMAIN Tasks[t].inputs :
               Tasks[t].inputs[i] = f /\ NodeOf(c, f) \in DOMAIN c.node_sigs /\ s[1][i] = c.node_sigs[NodeOf(c, f)]
  <2>1. PICK i \in DOMAIN Tasks[t].inputs : Tasks[t].inputs[i] = f
    BY DEF Elements
  <2>2. ExplicitNodes(c, t)[i] = NodeOf(c, f)
    BY <2>1 DEF ExplicitNodes
  <2>3. NodeOf(c, f) \in DOMAIN c.node_sigs
    BY <1>0, <2>2 DEF HasExplicit
  <2>4. s[1][i] = c.node_sigs[NodeOf(c, f)]
    BY <1>0, <2>2 DEF SigExplicitDeps
  <2> QED  BY <2>1, <2>3, <2>4
<1>3. ASSUME NEW f \in Elements(Tasks[t].inputs) \cap Sources
      PROVE  w[f] = sv[f] /\ Exists(x, f) /\ Exists(w, f) /\ Exists(sv, f)
  <2>1. PICK i \in DOMAIN Tasks[t].inputs :
          Tasks[t].inputs[i] = f /\ NodeOf(c, f) \in DOMAIN c.node_sigs /\ s[1][i] = c.node_sigs[NodeOf(c, f)]
    BY <1>2
  <2>2. s[1][i] = <<f, sv[f]>>
    <3>1. NodeOf(c, f)[1] = f
      BY <1>m DEF NodeOf, FileNode
    <3> QED  BY <2>1, <3>1 DEF CurrentNodes, FileText
  <2>3. s[1][i][2] <= T.from[f][2]
    BY <1>1, <2>1 DEF InOrder, Before
  <2>4. T.from[f] = <<f, w[f]>> /\ w[f] <= MaxVersion
    BY <1>1 DEF TextPart, ReadBy
  <2>5. sv[f] <= w[f]
    BY <2>2, <2>3, <2>4
  <2> QED  BY <1>m, <1>n, <2>4, <2>5 DEF Exists
<1>4. /\ Tasks[t].scan => \A e \in s[2] : e[1] \in Sources => e[2] = <<e[1], sv[e[1]]>>
      /\ \A f \in Included(t, x) \ Built : x[f] = sv[f] /\ w[f] = sv[f]
  <2>1. CASE ~Tasks[t].scan
    BY <2>1 DEF Included
  <2>2. CASE Tasks[t].scan
    <3>1. NotAfter(x, sv)
      BY <1>1, NotAfterTransitive
    <3>2. /\ \A e \in s[2] : e[1] \in Sources => e[2] = <<e[1], sv[e[1]]>>
          /\ \A f \in Included(t, x) \ Built : x[f] = sv[f]
      <4>1. ASSUME NEW e \in s[2], e[1] \in Sources PROVE e[2] = <<e[1], sv[e[1]]>>
        <5>1. PICK n \in NodeDeps(c, t) : e = <<n[1], c.node_sigs[n]>>
          BY <1>0, <2>2
        <5>2. n \in DOMAIN c.node_sigs
          BY <1>0, <2>2 DEF HasImplicit
        <5> QED  BY <4>1, <5>1, <5>2 DEF CurrentNodes, FileText
      <4>2. Explains(t, x, Names(s[2])) /\ UpTo(s[2], x)
        BY <1>1, <2>2 DEF SigPart
      <4> QED  BY <3>1, <4>1, <4>2, OnlyVersions
    <3>3. \A f \in Included(t, x) \ Built : f \in Sources
      BY IncludedFiles
    <3> QED  BY <1>n, <3>2, <3>3
  <2> QED  BY <2>1, <2>2
<1>5. Included(t, x) = Included(t, sv) /\ Included(t, x) = Included(t, w)
  <2>1. \A f \in Elements(Tasks[t].inputs) \ Built : Exists(x, f) /\ Exists(w, f) /\ Exists(sv, f)
    BY <1>3, <1>m
  <2> QED  BY <1>4, <2>1, SameIncludes
<1>6. ReadBy(t, w) = ReadBy(t, sv)
  BY <1>5 DEF ReadBy
<1>7. ASSUME NEW f \in ReadBy(t, sv) PROVE T.from[f] = TextOf(f, sv, F) /\ There(f, sv, F)
  <2>1. CASE f \in Sources
    <3>1. T.from[f] = <<f, w[f]>> /\ w[f] <= MaxVersion
      BY <1>1, <1>6, <2>1 DEF TextPart
    <3>2. w[f] = sv[f]
      BY <1>3, <1>4, <1>5, <1>m, <2>1 DEF ReadBy
    <3> QED  BY <1>m, <2>1, <3>1, <3>2 DEF TextOf, There, FileText, Exists
  <2>2. CASE f \in Built /\ f \in Elements(Tasks[t].inputs)
    <3>1. PICK i \in DOMAIN Tasks[t].inputs : Tasks[t].inputs[i] = f /\ s[1][i] = c.node_sigs[BuildNode(f)]
      BY <1>2, <2>2 DEF NodeOf
    <3>2. Before(K, f, c.node_sigs[BuildNode(f)], T.from[f])
      BY <1>1, <3>1 DEF InOrder
    <3>3. c.node_sigs[BuildNode(f)] # SIG_NIL
      BY <1>nil, <3>1 DEF NilPart
    <3> QED  BY <1>1, <1>6, <2>2, <3>2, <3>3, OnlyFile
  <2>3. CASE f \in Built /\ f \notin Elements(Tasks[t].inputs)
    <3>1. f \in Included(t, x) /\ Tasks[t].scan
      BY <1>5, <2>3 DEF ReadBy, Included
    <3>2. f \in Names(s[2])
      BY <1>1, <1>m, <2>3, <3>1 DEF SigPart, Explains
    <3>3. PICK n \in NodeDeps(c, t) : <<f, c.node_sigs[n]>> \in s[2] /\ n[1] = f
      <4>1. PICK e \in s[2] : e[1] = f
        BY <3>2 DEF Names
      <4>2. PICK n \in NodeDeps(c, t) : e = <<n[1], c.node_sigs[n]>>
        BY <1>0, <3>1, <4>1
      <4> QED  BY <4>1, <4>2
    <3>4. n = BuildNode(f)
      BY <1>0, <2>3, <3>1, <3>3 DEF HasImplicit, NodesOK, NodeOf
    <3>5. f \in DOMAIN T.from
      BY <1>1, <1>6 DEF TextPart
    <3>6. Before(K, f, c.node_sigs[BuildNode(f)], T.from[f])
      BY <1>1, <2>3, <3>1, <3>3, <3>4, <3>5 DEF InOrder
    <3>7. c.node_sigs[BuildNode(f)] # SIG_NIL \/ f # CfgFile
      <4> SUFFICES ASSUME f = CfgFile, c.node_sigs[BuildNode(f)] = SIG_NIL PROVE FALSE
        OBVIOUS
      <4>1. PICK e \in s[2] : e[1] \in Sources /\ e[2][2] < sv[e[1]]
        BY <1>nil, <3>1, <3>3, <3>4 DEF NilPart
      <4>2. e[2] = <<e[1], sv[e[1]]>>
        BY <1>4, <3>1, <4>1
      <4> QED  BY <1>n, <1>m, <4>1, <4>2
    <3> QED  BY <1>1, <1>6, <2>3, <3>6, <3>7, OnlyFile
  <2>4. f \in Sources \cup Built
    BY <1>m, IncludedFiles DEF ReadBy
  <2> QED  BY <2>1, <2>2, <2>3, <2>4
<1>8. T.from = [f \in ReadBy(t, sv) |-> TextOf(f, sv, F)]
  BY <1>1, <1>6, <1>7 DEF TextPart
<1>9. T.flags = HashEnvVars(env, Tasks[t].vars)
  <2>1. ASSUME NEW v \in Tasks[t].vars PROVE T.flags[v] = EnvGet(env, v)
    <3>1. s[3][v] = EnvGet(env, v) /\ s[3][v] <= T.flags[v] /\ T.flags[v] \in 0..EnvGet(env, v)
      BY <1>0, <1>1 DEF HashEnvVars, InOrder, TextPart
    <3>2. EnvGet(env, v) \in Nat
      BY DEF NotOlderThan
    <3> QED  BY <3>1, <3>2
  <2> QED  BY <1>1, <2>1 DEF TextPart, HashEnvVars
<1>10. T = [task |-> t, from |-> T.from, flags |-> T.flags]
  BY <1>1 DEF TextPart
<1>11. T = Compile(t, sv, F, env)
  BY <1>8, <1>9, <1>10 DEF Compile
<1>12. Compiles(t, sv, F)
  BY <1>7 DEF Compiles
<1> QED  BY <1>11, <1>12

(* ----- what would be made from nothing ----- *)

\* What task n makes of the files F, and the files after each task.
MadeBy(n, F) ==
  [o \in Built |-> IF o \in Outputs(n) THEN [text |-> Compile(n, src, F, p.env)] ELSE F[o]]
Rebuilds(f, n) == f = [i \in 0..n |-> IF i = 0 THEN out ELSE MadeBy(i, f[i - 1])]

LEMMA RebuildsExist == \A n \in Nat : \E f : Rebuilds(f, n)
<1> DEFINE S == {n \in Nat : \E f : Rebuilds(f, n)}
<1>1. 0 \in S
  <2>1. PICK f : f = [i \in 0..0 |-> out]
    OBVIOUS
  <2>2. f = [i \in 0..0 |-> IF i = 0 THEN out ELSE MadeBy(i, f[i - 1])]
    BY <2>1
  <2> QED  BY <2>2 DEF Rebuilds
<1>2. ASSUME NEW n \in Nat, n \in S PROVE n + 1 \in S
  <2>1. PICK f : Rebuilds(f, n)
    BY <1>2
  <2>2. PICK last : last = MadeBy(n + 1, f[n])
    OBVIOUS
  <2>3. PICK g : g = [i \in 0..(n + 1) |-> IF i = n + 1 THEN last ELSE f[i]]
    OBVIOUS
  <2>4. \A i \in 0..n : f[i] = IF i = 0 THEN out ELSE MadeBy(i, f[i - 1])
    BY <2>1 DEF Rebuilds
  <2>5. \A i \in 0..(n + 1) : g[i] = IF i = 0 THEN out ELSE MadeBy(i, g[i - 1])
    <3> TAKE i \in 0..(n + 1)
    <3>1. CASE i = 0
      BY <2>3, <2>4, <3>1
    <3>2. CASE i # 0 /\ i # n + 1
      <4>1. i \in 0..n /\ i - 1 \in 0..(n + 1) /\ i - 1 # n + 1
        BY <3>2
      <4>2. g[i] = f[i] /\ g[i - 1] = f[i - 1]
        BY <2>3, <3>2, <4>1
      <4> QED  BY <2>4, <3>2, <4>1, <4>2
    <3>3. CASE i # 0 /\ i = n + 1
      <4>1. i - 1 = n /\ n \in 0..(n + 1) /\ n # n + 1
        BY <3>3
      <4>2. g[i] = last /\ g[i - 1] = f[n]
        BY <2>3, <3>3, <4>1
      <4> QED  BY <2>2, <3>3, <4>2
    <3> QED  BY <3>1, <3>2, <3>3
  <2>6. g = [i \in 0..(n + 1) |-> g[i]]
    BY <2>3
  <2>7. Rebuilds(g, n + 1)
    BY <2>5, <2>6 DEF Rebuilds
  <2> QED  BY <2>7
<1> QED  BY <1>1, <1>2, AllNumbers

\* If every output is what its task makes of the files there are, a build from
\* nothing makes the same.
LEMMA ScratchIsSame ==
  ASSUME \A u \in TaskIds : \A o \in Outputs(u) : out[o].text = Compile(u, src, out, p.env)
  PROVE  \A o \in Built : FromScratch[o].text = out[o].text
<1> DEFINE N == Len(Tasks)
<1>n. N \in Nat /\ TaskIds = 1..N
  BY BuildContextAssumption DEF TaskIds
<1>1. PICK after : after = CHOOSE f : Rebuilds(f, N)
  OBVIOUS
<1>2. Rebuilds(after, N)
  BY <1>n, <1>1, RebuildsExist
<1>3. FromScratch = after[N]
  <2>1. after = CHOOSE f : f = [n \in 0..N |->
              IF n = 0 THEN out
              ELSE [o \in Built |-> IF o \in Outputs(n)
                                    THEN [text |-> Compile(n, src, f[n - 1], p.env)]
                                    ELSE f[n - 1][o]]]
    BY <1>1 DEF Rebuilds, MadeBy
  <2> QED  BY <2>1 DEF FromScratch
<1>def. \A n \in 0..N : after[n] = IF n = 0 THEN out ELSE MadeBy(n, after[n - 1])
  BY <1>2 DEF Rebuilds
<1> DEFINE S == {n \in Nat : n <= N => \A o \in Built : after[n][o].text = out[o].text}
<1>4. 0 \in S
  BY <1>n, <1>def
<1>5. ASSUME NEW n \in Nat, n \in S PROVE n + 1 \in S
  <2> SUFFICES ASSUME n + 1 <= N, NEW o \in Built PROVE after[n + 1][o].text = out[o].text
    OBVIOUS
  <2>1. after[n + 1] = MadeBy(n + 1, after[n])
    <3>1. n + 1 \in 0..N /\ n + 1 # 0 /\ (n + 1) - 1 = n
      BY <1>n
    <3> QED  BY <1>def, <3>1
  <2>2. \A f \in Built : after[n][f].text = out[f].text
    BY <1>n, <1>5
  <2>3. CASE o \in Outputs(n + 1)
    <3>1. PICK F : F = after[n]
      OBVIOUS
    <3>2. \A f : TextOf(f, src, F) = TextOf(f, src, out)
      BY <2>2, <3>1 DEF TextOf
    <3>3. Compile(n + 1, src, F, p.env) = Compile(n + 1, src, out, p.env)
      BY <3>2 DEF Compile
    <3>4. after[n + 1][o] = [text |-> Compile(n + 1, src, F, p.env)]
      BY <2>1, <2>3, <3>1 DEF MadeBy
    <3>5. n + 1 \in TaskIds
      BY <1>n
    <3> QED  BY <2>3, <3>3, <3>4, <3>5
  <2>4. CASE o \notin Outputs(n + 1)
    BY <2>1, <2>2, <2>4 DEF MadeBy
  <2> QED  BY <2>3, <2>4
<1>6. Nat \subseteq S
  <2> HIDE DEF S
  <2> QED  BY <1>4, <1>5, AllNumbers
<1> QED  BY <1>n, <1>3, <1>6

(* ----- the operations on contexts ----- *)

StoredFields == {"childs", "id_nodes", "declared", "node_sigs", "node_deps", "task_sigs"}
Numbered(c) == c.childs \in [Sources -> Nat] /\ c.id_nodes \in [Sources -> Nat]
OpenShape(c) == DOMAIN c = StoredFields \cup {"scanned", "listing"} /\ Numbered(c)
StoredShape(c) == DOMAIN c = StoredFields /\ Numbered(c)
Childless(c) == \A f \in Sources : c.childs[f] = 0

\* Each source that is found has its node, signed as it is.
SourcesCurrent(sv, c) ==
  \A f \in Sources : Found(c, f) =>
    /\ FileNode(c, f) \in DOMAIN c.node_sigs
    /\ c.node_sigs[FileNode(c, f)] = FileText(sv, f)
    /\ Exists(sv, f)

LEMMA FilesApart == Sources \cap Built = {} /\ CfgFile \in Built /\ MaxVersion \in Nat
BY FilesAssumption, BuildContextAssumption DEF Built

LEMMA HashedChilds ==
  ASSUME NEW c, OpenShape(c), NEW K, NEW env, NEW sv \in Versions, NodesOK(K, sv, env, c)
  PROVE  LET h == HashChilds(c, sv)
         IN /\ OpenShape(h) /\ NodesOK(K, sv, env, h) /\ SourcesCurrent(sv, h)
            /\ h.declared = c.declared /\ h.node_deps = c.node_deps /\ h.task_sigs = c.task_sigs
            /\ h.listing = {f \in Sources : Exists(sv, f)}
            /\ Childless(c) => Childless(h)
            /\ \A n \in DOMAIN c.node_sigs : n[1] \in Built => n \in DOMAIN h.node_sigs /\ h.node_sigs[n] = c.node_sigs[n]
<1> DEFINE gone == {f \in Sources : Found(c, f) /\ ~Exists(sv, f)}
           kept == {f \in Sources : Found(c, f) /\ Exists(sv, f)}
           left == Drop(c.node_sigs, {FileNode(c, f) : f \in gone})
           new == [n \in {FileNode(c, f) : f \in kept} |-> FileText(sv, n[1])]
<1>h. PICK h : h = HashChilds(c, sv)
  OBVIOUS
<1>1. /\ DOMAIN h = DOMAIN c /\ h.declared = c.declared /\ h.node_deps = c.node_deps /\ h.task_sigs = c.task_sigs
      /\ h.id_nodes = c.id_nodes
      /\ h.listing = {f \in Sources : Exists(sv, f)}
      /\ h.childs = [f \in Sources |-> IF f \in gone THEN 0 ELSE c.childs[f]]
      /\ h.node_sigs = Update(left, new)
  BY <1>h DEF HashChilds, OpenShape, StoredFields
<1>2. OpenShape(h) /\ (Childless(c) => Childless(h))
  BY <1>1 DEF OpenShape, Numbered, Childless
<1>3. /\ DOMAIN h.node_sigs = {FileNode(c, f) : f \in kept} \cup (DOMAIN c.node_sigs \ {FileNode(c, f) : f \in gone})
      /\ \A n \in {FileNode(c, f) : f \in kept} : h.node_sigs[n] = FileText(sv, n[1])
      /\ \A n \in DOMAIN c.node_sigs \ {FileNode(c, f) : f \in gone} :
            n \notin {FileNode(c, f) : f \in kept} => h.node_sigs[n] = c.node_sigs[n]
  <2>1. PICK A : A = {FileNode(c, f) : f \in gone}
    OBVIOUS
  <2>2. PICK B : B = {FileNode(c, f) : f \in kept}
    OBVIOUS
  <2>3. PICK N : N = [n \in B |-> FileText(sv, n[1])]
    OBVIOUS
  <2>4. h.node_sigs = Update(Drop(c.node_sigs, A), N)
    BY <1>1, <2>1, <2>2, <2>3
  <2>5. /\ DOMAIN Drop(c.node_sigs, A) = DOMAIN c.node_sigs \ A
        /\ \A n \in DOMAIN c.node_sigs \ A : Drop(c.node_sigs, A)[n] = c.node_sigs[n]
    BY DEF Drop
  <2>6. /\ DOMAIN h.node_sigs = B \cup (DOMAIN c.node_sigs \ A)
        /\ \A n \in B : h.node_sigs[n] = FileText(sv, n[1])
        /\ \A n \in DOMAIN c.node_sigs \ A : n \notin B => h.node_sigs[n] = c.node_sigs[n]
    BY <2>3, <2>4, <2>5 DEF Update
  <2> QED  BY <2>1, <2>2, <2>6
<1> HIDE DEF left, new
<1>4. ASSUME NEW n \in DOMAIN c.node_sigs, n[1] \in Built
      PROVE  n \in DOMAIN h.node_sigs /\ h.node_sigs[n] = c.node_sigs[n]
  <2>1. \A f \in Sources : FileNode(c, f)[1] # n[1]
    BY <1>4, FilesApart DEF FileNode
  <2>2. n \notin {FileNode(c, f) : f \in kept} /\ n \notin {FileNode(c, f) : f \in gone}
    BY <2>1
  <2> QED  BY <1>3, <2>2
<1>5. SourcesCurrent(sv, h)
  <2> SUFFICES ASSUME NEW f \in Sources, Found(h, f)
               PROVE  /\ FileNode(h, f) \in DOMAIN h.node_sigs
                      /\ h.node_sigs[FileNode(h, f)] = FileText(sv, f) /\ Exists(sv, f)
    BY DEF SourcesCurrent
  <2>1. f \in kept /\ FileNode(h, f) = FileNode(c, f) /\ FileNode(c, f)[1] = f
    BY <1>1 DEF Found, FileNode
  <2> QED  BY <1>3, <2>1 DEF FileText
<1>6. NodesOK(K, sv, env, h)
  <2> SUFFICES ASSUME NEW n \in DOMAIN h.node_sigs
               PROVE  /\ n[1] \in Sources \cup Built /\ n = NodeOf(h, n[1]) /\ Known(h, n[1])
                      /\ KnownSig(K, sv, env, n[1], h.node_sigs[n])
    BY DEF NodesOK
  <2>1. CASE n \in {FileNode(c, f) : f \in kept}
    <3>1. PICK f \in kept : n = FileNode(c, f)
      BY <2>1
    <3>2. n[1] = f /\ f \notin Built /\ f \in Sources
      BY <3>1, FilesApart DEF FileNode
    <3>3. h.childs[f] = c.childs[f] /\ Found(h, f)
      BY <1>1, <3>1 DEF Found
    <3>4. h.node_sigs[n] = <<f, sv[f]>>
      BY <1>3, <2>1, <3>2 DEF FileText
    <3>5. sv[f] \in 1..sv[f]
      BY <3>2, BuildContextAssumption DEF Versions
    <3> QED  BY <3>1, <3>2, <3>3, <3>4, <3>5 DEF NodeOf, FileNode, Known, KnownSig
  <2>2. CASE n \notin {FileNode(c, f) : f \in kept}
    <3>1. n \in DOMAIN c.node_sigs /\ n \notin {FileNode(c, f) : f \in gone} /\ h.node_sigs[n] = c.node_sigs[n]
      BY <1>3, <2>2
    <3>2. /\ n[1] \in Sources \cup Built /\ n = NodeOf(c, n[1]) /\ Known(c, n[1])
          /\ KnownSig(K, sv, env, n[1], c.node_sigs[n])
      BY <3>1 DEF NodesOK
    <3>3. n[1] \in Built
      BY <2>2, <3>1, <3>2 DEF NodeOf, Known
    <3> QED  BY <1>1, <3>1, <3>2, <3>3 DEF NodeOf, Known
  <2> QED  BY <2>1, <2>2
<1> QED  BY <1>h, <1>1, <1>2, <1>4, <1>5, <1>6

\* After a rescan: the sources that are found are signed as they are, and no
\* output that is missing has a signature.
LEMMA Rescanned ==
  ASSUME NEW c, OpenShape(c), ~c.scanned, NEW K, NEW env, NEW sv \in Versions, NodesOK(K, sv, env, c),
         NEW F, NEW there \in BOOLEAN, ~there => Childless(c)
  PROVE  LET r == Rescan(c, sv, F, there)
         IN /\ OpenShape(r) /\ NodesOK(K, sv, env, r) /\ SourcesCurrent(sv, r)
            /\ r.node_deps = c.node_deps /\ r.task_sigs = c.task_sigs
            /\ r.listing = {f \in Sources : Exists(sv, f)}
            /\ \A o \in Built \ {CfgFile} : BuildNode(o) \in DOMAIN r.node_sigs => F[o] # None
            /\ BuildNode(CfgFile) \in DOMAIN c.node_sigs =>
                 /\ BuildNode(CfgFile) \in DOMAIN r.node_sigs
                 /\ r.node_sigs[BuildNode(CfgFile)] = c.node_sigs[BuildNode(CfgFile)]
            /\ there => \A o \in Built : BuildNode(o) \in DOMAIN c.node_sigs /\ F[o] # None =>
                 /\ BuildNode(o) \in DOMAIN r.node_sigs
                 /\ r.node_sigs[BuildNode(o)] = c.node_sigs[BuildNode(o)]
<1>h. PICK h : h = HashChilds(c, sv)
  OBVIOUS
<1>0. /\ OpenShape(h) /\ NodesOK(K, sv, env, h) /\ SourcesCurrent(sv, h)
      /\ h.declared = c.declared /\ h.node_deps = c.node_deps /\ h.task_sigs = c.task_sigs
      /\ h.listing = {f \in Sources : Exists(sv, f)}
      /\ Childless(c) => Childless(h)
      /\ \A n \in DOMAIN c.node_sigs : n[1] \in Built => n \in DOMAIN h.node_sigs /\ h.node_sigs[n] = c.node_sigs[n]
  BY <1>h, HashedChilds
<1>r. PICK r : r = Rescan(c, sv, F, there)
  OBVIOUS
<1>b. \A o : BuildNode(o)[1] = o
  BY DEF BuildNode
<1>1. CASE there
  <2> DEFINE S == {BuildNode(o) : o \in {x \in h.declared \ {CfgFile} : F[x] = Nothing}}
  <2>1. r = [h EXCEPT !.node_sigs = Drop(@, S)]
    BY <1>1, <1>h, <1>r DEF Rescan, ListdirBld
  <2>2. /\ DOMAIN r = DOMAIN h /\ r.node_sigs = Drop(h.node_sigs, S) /\ r.childs = h.childs /\ r.id_nodes = h.id_nodes
        /\ r.declared = h.declared /\ r.node_deps = h.node_deps /\ r.task_sigs = h.task_sigs /\ r.listing = h.listing
    BY <1>0, <2>1 DEF OpenShape, StoredFields
  <2>3. /\ DOMAIN r.node_sigs = DOMAIN h.node_sigs \ S
        /\ \A n \in DOMAIN h.node_sigs \ S : r.node_sigs[n] = h.node_sigs[n]
    <3> HIDE DEF S
    <3> QED  BY <2>2 DEF Drop
  <2>4. \A o : BuildNode(o) \in S => o \in h.declared \ {CfgFile} /\ F[o] = None
    BY <1>b DEF None, Nothing
  <2>5. \A n \in S : n[1] \in h.declared /\ n = BuildNode(n[1])
    BY <1>b
  <2> HIDE DEF S
  <2>6. OpenShape(r) /\ NodesOK(K, sv, env, r)
    BY <1>0, <2>2, <2>3 DEF OpenShape, Numbered, NodesOK, NodeOf, FileNode, Known, Found
  <2>7. SourcesCurrent(sv, r)
    <3> SUFFICES ASSUME NEW f \in Sources, Found(r, f)
                 PROVE  /\ FileNode(r, f) \in DOMAIN r.node_sigs
                        /\ r.node_sigs[FileNode(r, f)] = FileText(sv, f) /\ Exists(sv, f)
      BY DEF SourcesCurrent
    <3>1. Found(h, f) /\ FileNode(r, f) = FileNode(h, f)
      BY <2>2 DEF Found, FileNode
    <3>2. FileNode(h, f) \notin S
      <4> SUFFICES ASSUME FileNode(h, f) \in S PROVE FALSE
        OBVIOUS
      <4>1. FileNode(h, f) = BuildNode(FileNode(h, f)[1])
        BY <2>5
      <4>2. FileNode(h, f) = <<f, h.childs[f]>> /\ BuildNode(FileNode(h, f)[1]) = <<f, 0>>
        BY DEF FileNode, BuildNode
      <4>3. h.childs[f] = 0
        BY <4>1, <4>2
      <4> QED  BY <3>1, <4>3 DEF Found
    <3> QED  BY <1>0, <2>3, <3>1, <3>2 DEF SourcesCurrent
  <2>8. ASSUME NEW o \in Built \ {CfgFile}, BuildNode(o) \in DOMAIN r.node_sigs PROVE F[o] # None
    <3>1. BuildNode(o) \in DOMAIN h.node_sigs /\ BuildNode(o) \notin S
      BY <2>3, <2>8
    <3>2. o \in h.declared
      BY <1>0, <1>b, <3>1 DEF NodesOK, Known
    <3> QED  BY <3>1, <3>2 DEF S, None, Nothing
  <2>9. ASSUME NEW o \in Built, BuildNode(o) \in DOMAIN c.node_sigs, o = CfgFile \/ F[o] # None
        PROVE  BuildNode(o) \in DOMAIN r.node_sigs /\ r.node_sigs[BuildNode(o)] = c.node_sigs[BuildNode(o)]
    BY <1>0, <1>b, <2>3, <2>4, <2>9
  <2> QED  BY <1>0, <1>1, <1>r, <2>2, <2>6, <2>7, <2>8, <2>9, FilesApart
<1>2. CASE ~there
  <2> DEFINE S == {BuildNode(o) : o \in h.declared \ {CfgFile}}
  <2>0. Childless(h)
    BY <1>0, <1>2
  <2>1. r = [h EXCEPT !.node_sigs = Drop(@, S), !.childs = [f \in Sources |-> 0], !.declared = @ \cap {CfgFile}]
    BY <1>2, <1>h, <1>r DEF Rescan, DropChilds
  <2>2. /\ DOMAIN r = DOMAIN h /\ r.node_sigs = Drop(h.node_sigs, S) /\ r.childs = [f \in Sources |-> 0] /\ r.id_nodes = h.id_nodes
        /\ r.declared = h.declared \cap {CfgFile} /\ r.node_deps = h.node_deps /\ r.task_sigs = h.task_sigs /\ r.listing = h.listing
    BY <1>0, <2>1 DEF OpenShape, StoredFields
  <2>3. /\ DOMAIN r.node_sigs = DOMAIN h.node_sigs \ S
        /\ \A n \in DOMAIN h.node_sigs \ S : r.node_sigs[n] = h.node_sigs[n]
    <3> HIDE DEF S
    <3> QED  BY <2>2 DEF Drop
  <2>4. BuildNode(CfgFile) \notin S
    BY <1>b
  <2>5. ASSUME NEW n \in DOMAIN r.node_sigs PROVE n = BuildNode(CfgFile) /\ CfgFile \in r.declared
    <3>1. n[1] \in Sources \cup Built /\ n = NodeOf(h, n[1]) /\ Known(h, n[1]) /\ n \notin S
      BY <1>0, <2>3 DEF NodesOK
    <3>2. n[1] \in Built
      BY <2>0, <3>1 DEF Known, Found, Childless
    <3>3. n[1] \in h.declared /\ n = BuildNode(n[1])
      BY <3>1, <3>2 DEF Known, NodeOf
    <3>4. n[1] = CfgFile
      BY <3>1, <3>3
    <3> QED  BY <2>2, <3>3, <3>4
  <2> HIDE DEF S
  <2>6. OpenShape(r)
    BY <1>0, <2>2 DEF OpenShape, Numbered
  <2>7. NodesOK(K, sv, env, r)
    <3> SUFFICES ASSUME NEW n \in DOMAIN r.node_sigs
                 PROVE  /\ n[1] \in Sources \cup Built /\ n = NodeOf(r, n[1]) /\ Known(r, n[1])
                        /\ KnownSig(K, sv, env, n[1], r.node_sigs[n])
      BY DEF NodesOK
    <3>1. KnownSig(K, sv, env, n[1], r.node_sigs[n])
      BY <1>0, <2>3 DEF NodesOK
    <3> QED  BY <1>b, <2>5, <3>1, FilesApart DEF NodeOf, Known
  <2>8. SourcesCurrent(sv, r)
    BY <2>2 DEF SourcesCurrent, Found
  <2>9. \A o \in Built \ {CfgFile} : BuildNode(o) \notin DOMAIN r.node_sigs
    BY <1>b, <2>5
  <2>10. BuildNode(CfgFile) \in DOMAIN c.node_sigs =>
           /\ BuildNode(CfgFile) \in DOMAIN r.node_sigs
           /\ r.node_sigs[BuildNode(CfgFile)] = c.node_sigs[BuildNode(CfgFile)]
    BY <1>0, <1>b, <2>3, <2>4, FilesApart
  <2> QED  BY <1>0, <1>2, <1>r, <2>2, <2>6, <2>7, <2>8, <2>9, <2>10
<1> QED  BY <1>1, <1>2

\* Sources that are looked up and found get a node that is signed as they are.
LEMMA FoundResources ==
  ASSUME NEW c, OpenShape(c), NEW K, NEW env, NEW sv \in Versions, NodesOK(K, sv, env, c), NEW fs, fs \subseteq Sources
  PROVE  LET r == FindResources(c, fs, sv)
         IN /\ OpenShape(r) /\ NodesOK(K, sv, env, r)
            /\ r.declared = c.declared /\ r.node_deps = c.node_deps /\ r.task_sigs = c.task_sigs /\ r.listing = c.listing
            /\ SourcesCurrent(sv, c) => SourcesCurrent(sv, r)
            /\ \A f \in fs : Found(c, f) \/ (f \in c.listing /\ Exists(sv, f)) => Found(r, f)
            /\ \A f \in Sources : Found(c, f) => Found(r, f)
            /\ \A o \in Built : BuildNode(o) \in DOMAIN r.node_sigs <=> BuildNode(o) \in DOMAIN c.node_sigs
            /\ \A o \in Built : BuildNode(o) \in DOMAIN c.node_sigs => r.node_sigs[BuildNode(o)] = c.node_sigs[BuildNode(o)]
<1> DEFINE new == {f \in fs : ~Found(c, f) /\ f \in c.listing /\ Exists(sv, f)}
           node == [f \in Sources |-> c.id_nodes[f] + 1]
<1>r. PICK r : r = FindResources(c, fs, sv)
  OBVIOUS
<1>B. PICK B : B = {<<f, node[f]>> : f \in new}
  OBVIOUS
<1>1. /\ DOMAIN r = DOMAIN c /\ r.declared = c.declared /\ r.node_deps = c.node_deps /\ r.task_sigs = c.task_sigs
      /\ r.listing = c.listing
      /\ r.childs = [f \in Sources |-> IF f \in new THEN node[f] ELSE c.childs[f]]
      /\ r.id_nodes = [f \in Sources |-> IF f \in new THEN node[f] ELSE c.id_nodes[f]]
      /\ r.node_sigs = Update(c.node_sigs, [n \in B |-> FileText(sv, n[1])])
  BY <1>r, <1>B DEF FindResources, OpenShape, StoredFields
<1>2. \A f \in Sources : node[f] \in Nat /\ node[f] # 0
  BY DEF OpenShape, Numbered
<1>3. OpenShape(r)
  BY <1>1, <1>2 DEF OpenShape, Numbered
<1>4. /\ DOMAIN r.node_sigs = B \cup DOMAIN c.node_sigs
      /\ \A n \in B : r.node_sigs[n] = FileText(sv, n[1])
      /\ \A n \in DOMAIN c.node_sigs \ B : r.node_sigs[n] = c.node_sigs[n]
  BY <1>1 DEF Update
<1>5. /\ \A n \in B : n[1] \in new /\ n[1] \in Sources /\ n[1] \notin Built /\ n = <<n[1], node[n[1]]>>
      /\ \A f \in new : <<f, node[f]>> \in B
  BY <1>B, FilesApart
<1> HIDE DEF node
<1>6. ASSUME NEW f \in Sources
      PROVE  /\ f \in new => Found(r, f) /\ ~Found(c, f) /\ Exists(sv, f) /\ FileNode(r, f) = <<f, node[f]>>
             /\ f \notin new => FileNode(r, f) = FileNode(c, f) /\ (Found(r, f) <=> Found(c, f))
  BY <1>1, <1>2 DEF Found, FileNode
<1>7. NodesOK(K, sv, env, r)
  <2> SUFFICES ASSUME NEW n \in DOMAIN r.node_sigs
               PROVE  /\ n[1] \in Sources \cup Built /\ n = NodeOf(r, n[1]) /\ Known(r, n[1])
                      /\ KnownSig(K, sv, env, n[1], r.node_sigs[n])
    BY DEF NodesOK
  <2>1. CASE n \in B
    <3>1. r.node_sigs[n] = <<n[1], sv[n[1]]>> /\ sv[n[1]] \in 1..sv[n[1]]
      BY <1>4, <1>5, <2>1, BuildContextAssumption DEF FileText, Versions
    <3>2. KnownSig(K, sv, env, n[1], r.node_sigs[n])
      BY <1>5, <2>1, <3>1 DEF KnownSig
    <3> QED  BY <1>5, <1>6, <2>1, <3>2 DEF NodeOf, Known
  <2>2. CASE n \notin B
    <3>1. n \in DOMAIN c.node_sigs /\ r.node_sigs[n] = c.node_sigs[n]
      BY <1>4, <2>2
    <3>2. /\ n[1] \in Sources \cup Built /\ n = NodeOf(c, n[1]) /\ Known(c, n[1])
          /\ KnownSig(K, sv, env, n[1], c.node_sigs[n])
      BY <3>1 DEF NodesOK
    <3>3. CASE n[1] \in Built
      BY <1>1, <3>1, <3>2, <3>3 DEF NodeOf, Known
    <3>4. CASE n[1] \in Sources /\ n[1] \notin Built
      BY <1>6, <3>1, <3>2, <3>4 DEF NodeOf, Known
    <3> QED  BY <3>2, <3>3, <3>4
  <2> QED  BY <2>1, <2>2
<1>8. ASSUME SourcesCurrent(sv, c) PROVE SourcesCurrent(sv, r)
  <2> SUFFICES ASSUME NEW f \in Sources, Found(r, f)
               PROVE  /\ FileNode(r, f) \in DOMAIN r.node_sigs
                      /\ r.node_sigs[FileNode(r, f)] = FileText(sv, f) /\ Exists(sv, f)
    BY DEF SourcesCurrent
  <2>1. CASE f \in new
    BY <1>4, <1>5, <1>6, <2>1 DEF FileText
  <2>2. CASE f \notin new
    <3>1. Found(c, f) /\ FileNode(r, f) = FileNode(c, f) /\ FileNode(c, f)[1] = f
      BY <1>6, <2>2 DEF FileNode
    <3>2. FileNode(c, f) \notin B
      BY <1>5, <2>2, <3>1
    <3> QED  BY <1>4, <1>8, <3>1, <3>2 DEF SourcesCurrent
  <2> QED  BY <2>1, <2>2
<1>9. /\ \A f \in fs : Found(c, f) \/ (f \in c.listing /\ Exists(sv, f)) => Found(r, f)
      /\ \A f \in Sources : Found(c, f) => Found(r, f)
  BY <1>6
<1>10. ASSUME NEW o \in Built
       PROVE  /\ BuildNode(o) \in DOMAIN r.node_sigs <=> BuildNode(o) \in DOMAIN c.node_sigs
              /\ BuildNode(o) \in DOMAIN c.node_sigs => r.node_sigs[BuildNode(o)] = c.node_sigs[BuildNode(o)]
  <2>1. BuildNode(o)[1] = o
    BY DEF BuildNode
  <2>2. BuildNode(o) \notin B
    BY <1>5, <2>1
  <2> QED  BY <1>4, <2>2
<1> QED  BY <1>r, <1>1, <1>3, <1>7, <1>8, <1>9, <1>10

LEMMA Declared ==
  ASSUME NEW c, OpenShape(c), NEW os
  PROVE  LET r == FindOrDeclare(c, os)
         IN /\ OpenShape(r) /\ r.declared = c.declared \cup os
            /\ r.childs = c.childs /\ r.node_sigs = c.node_sigs
            /\ r.node_deps = c.node_deps /\ r.task_sigs = c.task_sigs /\ r.listing = c.listing /\ r.scanned = c.scanned
BY DEF OpenShape, Numbered, StoredFields, FindOrDeclare

LEMMA DeclaredNodes ==
  ASSUME NEW c, OpenShape(c), NEW os, NEW K, NEW sv, NEW env, NodesOK(K, sv, env, c)
  PROVE  /\ NodesOK(K, sv, env, FindOrDeclare(c, os))
         /\ SourcesCurrent(sv, c) => SourcesCurrent(sv, FindOrDeclare(c, os))
<1>r. PICK r : r = FindOrDeclare(c, os)
  OBVIOUS
<1>1. r.declared = c.declared \cup os /\ r.childs = c.childs /\ r.node_sigs = c.node_sigs
  BY <1>r, Declared
<1>2. \A n : NodeOf(r, n) = NodeOf(c, n) /\ (Known(c, n) => Known(r, n)) /\ Found(r, n) = Found(c, n) /\ FileNode(r, n) = FileNode(c, n)
  BY <1>1 DEF NodeOf, FileNode, Known, Found
<1>3. NodesOK(K, sv, env, r)
  BY <1>1, <1>2 DEF NodesOK
<1>4. SourcesCurrent(sv, c) => SourcesCurrent(sv, r)
  BY <1>1, <1>2 DEF SourcesCurrent
<1> QED  BY <1>r, <1>3, <1>4

\* A scan: the implicit dependencies are those that the sources name now.
LEMMA Scanned ==
  ASSUME NEW c, OpenShape(c), NEW K, NEW env, NEW sv \in Versions, ContextOK(K, sv, env, c),
         Built \subseteq c.declared, \A g \in Sources \ c.listing : sv[g] = MaxVersion + 1,
         NEW t \in TaskIds, Tasks[t].scan
  PROVE  LET r == Scan(c, t, sv)
         IN /\ OpenShape(r) /\ ContextOK(K, sv, env, r)
            /\ r.declared = c.declared /\ r.task_sigs = c.task_sigs /\ r.listing = c.listing
            /\ SourcesCurrent(sv, c) => SourcesCurrent(sv, r)
            /\ t \in DOMAIN r.node_deps
            /\ Explains(t, sv, Names(r.node_deps[t]))
            /\ \A f \in Sources : Found(c, f) => Found(r, f)
            /\ \A o \in Built : BuildNode(o) \in DOMAIN r.node_sigs <=> BuildNode(o) \in DOMAIN c.node_sigs
            /\ \A o \in Built : BuildNode(o) \in DOMAIN c.node_sigs => r.node_sigs[BuildNode(o)] = c.node_sigs[BuildNode(o)]
<1>names. PICK names : names = Included(t, sv)
  OBVIOUS
<1>range. names \subseteq Sources \cup Built
  BY <1>names, IncludedFiles
<1>l. PICK l : l = FindResources(c, names \ Built, sv)
  OBVIOUS
<1>1. /\ OpenShape(l) /\ NodesOK(K, sv, env, l)
      /\ l.declared = c.declared /\ l.node_deps = c.node_deps /\ l.task_sigs = c.task_sigs /\ l.listing = c.listing
      /\ SourcesCurrent(sv, c) => SourcesCurrent(sv, l)
      /\ \A f \in names \ Built : Found(c, f) \/ (f \in c.listing /\ Exists(sv, f)) => Found(l, f)
      /\ \A f \in Sources : Found(c, f) => Found(l, f)
      /\ \A o \in Built : BuildNode(o) \in DOMAIN l.node_sigs <=> BuildNode(o) \in DOMAIN c.node_sigs
      /\ \A o \in Built : BuildNode(o) \in DOMAIN c.node_sigs => l.node_sigs[BuildNode(o)] = c.node_sigs[BuildNode(o)]
  BY <1>l, <1>range, FoundResources DEF ContextOK
<1>r. PICK r : r = Scan(c, t, sv)
  OBVIOUS
<1>D. PICK D : D = {NodeOf(l, f) : f \in {g \in names : Known(l, g)}}
  OBVIOUS
<1>2. r = [l EXCEPT !.node_deps = Update(@, [u \in {t} |-> D])]
  BY <1>r, <1>l, <1>names, <1>D DEF Scan
<1>3. /\ DOMAIN r = DOMAIN l /\ r.node_deps = Update(l.node_deps, [u \in {t} |-> D])
      /\ r.childs = l.childs /\ r.id_nodes = l.id_nodes /\ r.declared = l.declared /\ r.node_sigs = l.node_sigs
      /\ r.task_sigs = l.task_sigs /\ r.listing = l.listing
  BY <1>1, <1>2 DEF OpenShape, StoredFields
<1>4. /\ DOMAIN r.node_deps = {t} \cup DOMAIN c.node_deps
      /\ r.node_deps[t] = D
      /\ \A u \in DOMAIN c.node_deps \ {t} : r.node_deps[u] = c.node_deps[u]
  BY <1>1, <1>3 DEF Update
<1>5. \A f : NodeOf(r, f) = NodeOf(l, f) /\ Known(r, f) = Known(l, f) /\ Found(r, f) = Found(l, f) /\ FileNode(r, f) = FileNode(l, f)
  BY <1>3 DEF NodeOf, FileNode, Known, Found
<1>6. OpenShape(r) /\ NodesOK(K, sv, env, r) /\ (SourcesCurrent(sv, l) => SourcesCurrent(sv, r))
  BY <1>1, <1>3, <1>5 DEF OpenShape, Numbered, NodesOK, SourcesCurrent
<1>7. Explains(t, sv, Names(D))
  <2>1. \A n \in D : n[1] \in names
    BY <1>D DEF NodeOf, BuildNode, FileNode
  <2>2. ASSUME NEW g \in names, g \notin Names(D) PROVE g \in Sources /\ sv[g] = MaxVersion + 1
    <3>1. NodeOf(l, g)[1] = g
      BY DEF NodeOf, BuildNode, FileNode
    <3>2. ~Known(l, g)
      <4> SUFFICES ASSUME Known(l, g) PROVE FALSE
        OBVIOUS
      <4>1. NodeOf(l, g) \in D
        BY <1>D
      <4> QED  BY <2>2, <3>1, <4>1 DEF Names
    <3>3. g \notin Built
      BY <1>1, <3>2 DEF Known
    <3>4. g \in Sources
      BY <1>range, <3>3
    <3>5. g \notin c.listing \/ ~Exists(sv, g)
      BY <1>1, <3>2, <3>3 DEF Known
    <3>6. sv[g] \in 1..(MaxVersion + 1) /\ MaxVersion \in Nat
      BY <3>4, BuildContextAssumption DEF Versions
    <3> QED  BY <3>4, <3>5, <3>6 DEF Exists
  <2> QED  BY <1>names, <2>1, <2>2 DEF Explains, Names
<1>8. SigsOK(K, sv, env, r)
  BY <1>1, <1>3, <1>4 DEF ContextOK, SigsOK
<1>9. DepsOK(sv, r)
  <2> SUFFICES ASSUME NEW u \in DOMAIN r.node_deps
               PROVE  /\ u \in TaskIds /\ Tasks[u].scan
                      /\ \E x \in Versions :
                           /\ NotAfter(x, sv) /\ Explains(u, x, Names(r.node_deps[u]))
                           /\ u \in DOMAIN r.task_sigs => UpTo(r.task_sigs[u].imp, x)
    BY DEF DepsOK
  <2>1. CASE u # t
    BY <1>1, <1>3, <1>4, <2>1 DEF ContextOK, DepsOK
  <2>2. CASE u = t
    <3>1. NotAfter(sv, sv)
      BY BuildContextAssumption DEF NotAfter, Versions
    <3>2. ASSUME t \in DOMAIN c.task_sigs PROVE UpTo(c.task_sigs[t].imp, sv)
      <4>1. t \in DOMAIN c.node_deps
        BY <3>2 DEF ContextOK, SigsOK
      <4>2. PICK x \in Versions : NotAfter(x, sv) /\ UpTo(c.task_sigs[t].imp, x)
        BY <3>2, <4>1 DEF ContextOK, DepsOK
      <4>3. \A f \in Sources : x[f] \in Nat /\ sv[f] \in Nat /\ x[f] <= sv[f]
        BY <4>2, BuildContextAssumption DEF Versions, NotAfter
      <4> QED  BY <4>2, <4>3 DEF UpTo
    <3> QED  BY <1>1, <1>3, <1>4, <1>7, <2>2, <3>1, <3>2
  <2> QED  BY <2>1, <2>2
<1> QED  BY <1>r, <1>1, <1>3, <1>4, <1>5, <1>6, <1>7, <1>8, <1>9 DEF ContextOK

\* What is loaded: the stored context, the header of the configuration signed.
LEMMA OpenedContext ==
  ASSUME NEW d, StoredShape(d)
  PROVE  LET r == Opened(d)
         IN /\ OpenShape(r) /\ ~r.scanned
            /\ r.childs = d.childs /\ r.declared = d.declared /\ r.node_sigs = d.node_sigs
            /\ r.node_deps = d.node_deps /\ r.task_sigs = d.task_sigs
<1>0. DOMAIN EmptyContext = StoredFields
  BY DEF EmptyContext, StoredFields
<1>r. PICK r : r = Opened(d)
  OBVIOUS
<1>1. r = [x \in StoredFields \cup {"scanned", "listing"} |->
             CASE x = "scanned" -> FALSE [] x = "listing" -> {} [] OTHER -> d[x]]
  BY <1>r, <1>0 DEF Opened
<1>2. DOMAIN r = StoredFields \cup {"scanned", "listing"} /\ r.scanned = FALSE
  BY <1>1 DEF StoredFields
<1>3. /\ r.childs = d.childs /\ r.id_nodes = d.id_nodes /\ r.declared = d.declared
      /\ r.node_sigs = d.node_sigs /\ r.node_deps = d.node_deps /\ r.task_sigs = d.task_sigs
  BY <1>1 DEF StoredFields
<1> QED  BY <1>r, <1>2, <1>3 DEF OpenShape, Numbered, StoredShape

LEMMA EmptyIsFine ==
  ASSUME NEW K, NEW sv, NEW env
  PROVE  StoredShape(EmptyContext) /\ ContextOK(K, sv, env, EmptyContext) /\ Childless(EmptyContext)
<1>1. /\ DOMAIN EmptyContext = StoredFields
      /\ EmptyContext.childs = [f \in Sources |-> 0] /\ EmptyContext.id_nodes = [f \in Sources |-> 0]
      /\ EmptyContext.node_sigs = <<>> /\ EmptyContext.node_deps = <<>> /\ EmptyContext.task_sigs = <<>>
  BY DEF EmptyContext, StoredFields
<1>2. DOMAIN EmptyContext.node_sigs = {} /\ DOMAIN EmptyContext.node_deps = {} /\ DOMAIN EmptyContext.task_sigs = {}
  BY <1>1
<1> QED  BY <1>1, <1>2 DEF StoredShape, Numbered, ContextOK, NodesOK, SigsOK, DepsOK, Childless

CfgSig == IF out[CfgFile] = None THEN SIG_NIL ELSE out[CfgFile].text
HeaderOK(env) ==
  /\ EnvGet(env, "FLAGS") \in Nat
  /\ out[CfgFile] # None => out[CfgFile].text = <<CfgFile, EnvGet(env, "FLAGS")>>
\* The database: sound, and without sources if there is no folder.
DbOK(K, sv, env) ==
  db # None => StoredShape(db) /\ ContextOK(K, sv, env, db) /\ (~folder => Childless(db))

LEMMA LoadedContext ==
  ASSUME NEW K, NEW env, src \in Versions, HeaderOK(env), DbOK(K, src, env)
  PROVE  LET c == LoadEnvs(Load)
         IN /\ OpenShape(c) /\ ContextOK(K, src, env, c) /\ ~c.scanned /\ (~folder => Childless(c))
            /\ BuildNode(CfgFile) \in DOMAIN c.node_sigs /\ c.node_sigs[BuildNode(CfgFile)] = CfgSig
            /\ db # None =>
                 /\ c.task_sigs = db.task_sigs /\ c.node_deps = db.node_deps
                 /\ \A o \in Built \ {CfgFile} : BuildNode(o) \in DOMAIN db.node_sigs =>
                      BuildNode(o) \in DOMAIN c.node_sigs /\ c.node_sigs[BuildNode(o)] = db.node_sigs[BuildNode(o)]
<1>d. PICK d : d = IF db = None THEN EmptyContext ELSE db
  OBVIOUS
<1>1. StoredShape(d) /\ ContextOK(K, src, env, d) /\ (~folder => Childless(d))
  BY <1>d, EmptyIsFine DEF DbOK
<1>o. PICK o : o = Opened(d)
  OBVIOUS
<1>2. /\ OpenShape(o) /\ ~o.scanned
      /\ o.childs = d.childs /\ o.declared = d.declared /\ o.node_sigs = d.node_sigs
      /\ o.node_deps = d.node_deps /\ o.task_sigs = d.task_sigs
  BY <1>o, <1>1, OpenedContext
<1>3. ContextOK(K, src, env, o) /\ (~folder => Childless(o))
  <2>1. \A n : NodeOf(o, n) = NodeOf(d, n) /\ Known(o, n) = Known(d, n)
    BY <1>2 DEF NodeOf, FileNode, Known, Found
  <2> QED  BY <1>1, <1>2, <2>1 DEF ContextOK, NodesOK, SigsOK, DepsOK, Childless
<1>r. PICK r : r = FindOrDeclare(o, {CfgFile})
  OBVIOUS
<1>4. /\ OpenShape(r) /\ r.declared = o.declared \cup {CfgFile}
      /\ r.childs = o.childs /\ r.node_sigs = o.node_sigs
      /\ r.node_deps = o.node_deps /\ r.task_sigs = o.task_sigs /\ r.scanned = o.scanned
  BY <1>r, <1>2, Declared
<1>5. NodesOK(K, src, env, r)
  BY <1>r, <1>2, <1>3, DeclaredNodes DEF ContextOK
<1>c. PICK c : c = LoadEnvs(Load)
  OBVIOUS
<1>6. c = [r EXCEPT !.node_sigs = Update(@, [n \in {BuildNode(CfgFile)} |-> CfgSig])]
  BY <1>c, <1>r, <1>o, <1>d DEF LoadEnvs, Load, CfgSig
<1>7. /\ DOMAIN c = DOMAIN r /\ c.node_sigs = Update(r.node_sigs, [n \in {BuildNode(CfgFile)} |-> CfgSig])
      /\ c.childs = r.childs /\ c.id_nodes = r.id_nodes /\ c.declared = r.declared
      /\ c.node_deps = r.node_deps /\ c.task_sigs = r.task_sigs /\ c.scanned = r.scanned
  BY <1>4, <1>6 DEF OpenShape, StoredFields
<1>8. /\ DOMAIN c.node_sigs = {BuildNode(CfgFile)} \cup DOMAIN r.node_sigs
      /\ c.node_sigs[BuildNode(CfgFile)] = CfgSig
      /\ \A n \in DOMAIN r.node_sigs \ {BuildNode(CfgFile)} : c.node_sigs[n] = r.node_sigs[n]
  BY <1>7 DEF Update
<1>9. KnownSig(K, src, env, CfgFile, CfgSig)
  <2>1. out[CfgFile] # None => EnvGet(env, "FLAGS") \in 0..EnvGet(env, "FLAGS") /\ CfgSig = <<CfgFile, EnvGet(env, "FLAGS")>>
    BY DEF HeaderOK, CfgSig
  <2> QED  BY <2>1, FilesApart DEF KnownSig, CfgSig
<1>10. NodesOK(K, src, env, c)
  <2>1. \A n : NodeOf(c, n) = NodeOf(r, n) /\ Known(c, n) = Known(r, n)
    BY <1>7 DEF NodeOf, FileNode, Known, Found
  <2>2. BuildNode(CfgFile)[1] = CfgFile /\ NodeOf(c, CfgFile) = BuildNode(CfgFile) /\ Known(c, CfgFile)
    BY <1>4, <1>7, FilesApart DEF BuildNode, NodeOf, Known
  <2> QED  BY <1>5, <1>8, <1>9, <2>1, <2>2, FilesApart DEF NodesOK
<1>11. ContextOK(K, src, env, c)
  BY <1>3, <1>4, <1>7, <1>10 DEF ContextOK, SigsOK, DepsOK
<1>12. OpenShape(c) /\ ~c.scanned /\ (~folder => Childless(c))
  BY <1>2, <1>3, <1>4, <1>7 DEF OpenShape, Numbered, Childless
<1>13. ASSUME db # None, NEW x \in Built \ {CfgFile}, BuildNode(x) \in DOMAIN db.node_sigs
       PROVE  BuildNode(x) \in DOMAIN c.node_sigs /\ c.node_sigs[BuildNode(x)] = db.node_sigs[BuildNode(x)]
  <2>1. BuildNode(x) # BuildNode(CfgFile)
    BY DEF BuildNode
  <2> QED  BY <1>d, <1>2, <1>4, <1>8, <1>13, <2>1
<1>14. db # None => c.task_sigs = db.task_sigs /\ c.node_deps = db.node_deps
  BY <1>d, <1>2, <1>4, <1>7
<1> QED  BY <1>c, <1>8, <1>11, <1>12, <1>13, <1>14

\* The context of a build, once the task generators are through.
BuildContextOK(c) ==
  /\ Built \subseteq c.declared
  /\ \A g \in Sources \ c.listing : src[g] = MaxVersion + 1
  /\ BuildNode(CfgFile) \in DOMAIN c.node_sigs /\ c.node_sigs[BuildNode(CfgFile)] = CfgSig

LEMMA PostedContext ==
  ASSUME NEW K, NEW env, src \in Versions, folder \in BOOLEAN, HeaderOK(env), DbOK(K, src, env)
  PROVE  LET c == Posted(LoadEnvs(Load))
         IN /\ OpenShape(c) /\ ContextOK(K, src, env, c) /\ BuildContextOK(c) /\ SourcesCurrent(src, c)
            /\ \A o \in Built \ {CfgFile} : BuildNode(o) \in DOMAIN c.node_sigs => out[o] # None
            /\ db # None =>
                 /\ c.task_sigs = db.task_sigs /\ c.node_deps = db.node_deps
                 /\ folder => \A o \in Built \ {CfgFile} : BuildNode(o) \in DOMAIN db.node_sigs /\ out[o] # None =>
                      BuildNode(o) \in DOMAIN c.node_sigs /\ c.node_sigs[BuildNode(o)] = db.node_sigs[BuildNode(o)]
<1>l. PICK l : l = LoadEnvs(Load)
  OBVIOUS
<1>1. /\ OpenShape(l) /\ ContextOK(K, src, env, l) /\ ~l.scanned /\ (~folder => Childless(l))
      /\ BuildNode(CfgFile) \in DOMAIN l.node_sigs /\ l.node_sigs[BuildNode(CfgFile)] = CfgSig
      /\ db # None =>
           /\ l.task_sigs = db.task_sigs /\ l.node_deps = db.node_deps
           /\ \A o \in Built \ {CfgFile} : BuildNode(o) \in DOMAIN db.node_sigs =>
                BuildNode(o) \in DOMAIN l.node_sigs /\ l.node_sigs[BuildNode(o)] = db.node_sigs[BuildNode(o)]
  BY <1>l, LoadedContext
<1>r. PICK r : r = Rescan(l, src, out, folder)
  OBVIOUS
<1>2. /\ OpenShape(r) /\ NodesOK(K, src, env, r) /\ SourcesCurrent(src, r)
      /\ r.node_deps = l.node_deps /\ r.task_sigs = l.task_sigs
      /\ r.listing = {f \in Sources : Exists(src, f)}
      /\ \A o \in Built \ {CfgFile} : BuildNode(o) \in DOMAIN r.node_sigs => out[o] # None
      /\ BuildNode(CfgFile) \in DOMAIN r.node_sigs /\ r.node_sigs[BuildNode(CfgFile)] = CfgSig
      /\ folder => \A o \in Built : BuildNode(o) \in DOMAIN l.node_sigs /\ out[o] # None =>
           /\ BuildNode(o) \in DOMAIN r.node_sigs
           /\ r.node_sigs[BuildNode(o)] = l.node_sigs[BuildNode(o)]
  BY <1>r, <1>1, Rescanned DEF ContextOK
<1>f. PICK fs : fs = AllInputs \ Built
  OBVIOUS
<1>3. fs \subseteq Sources
  BY <1>f, FilesAssumption DEF AllInputs
<1>q. PICK q : q = FindResources(r, fs, src)
  OBVIOUS
<1>4. /\ OpenShape(q) /\ NodesOK(K, src, env, q)
      /\ q.declared = r.declared /\ q.node_deps = r.node_deps /\ q.task_sigs = r.task_sigs /\ q.listing = r.listing
      /\ SourcesCurrent(src, q)
      /\ \A o \in Built : BuildNode(o) \in DOMAIN q.node_sigs <=> BuildNode(o) \in DOMAIN r.node_sigs
      /\ \A o \in Built : BuildNode(o) \in DOMAIN r.node_sigs => q.node_sigs[BuildNode(o)] = r.node_sigs[BuildNode(o)]
  BY <1>q, <1>2, <1>3, FoundResources
<1>c. PICK c : c = FindOrDeclare(q, Built)
  OBVIOUS
<1>5. c = Posted(l)
  BY <1>c, <1>q, <1>f, <1>r DEF Posted
<1>6. /\ OpenShape(c) /\ c.declared = q.declared \cup Built /\ c.node_sigs = q.node_sigs
      /\ c.node_deps = q.node_deps /\ c.task_sigs = q.task_sigs /\ c.listing = q.listing
  BY <1>c, <1>4, Declared
<1>7. NodesOK(K, src, env, c) /\ SourcesCurrent(src, c)
  BY <1>c, <1>4, DeclaredNodes
<1>8. ContextOK(K, src, env, c)
  BY <1>1, <1>2, <1>4, <1>6, <1>7 DEF ContextOK, SigsOK, DepsOK
<1>9. BuildContextOK(c)
  <2>1. \A g \in Sources \ c.listing : src[g] = MaxVersion + 1
    <3>1. \A g \in Sources \ c.listing : ~Exists(src, g) /\ src[g] \in 1..(MaxVersion + 1) /\ MaxVersion \in Nat
      BY <1>2, <1>4, <1>6, BuildContextAssumption DEF Versions
    <3> QED  BY <3>1 DEF Exists
  <2> QED  BY <1>2, <1>4, <1>6, <2>1, FilesApart DEF BuildContextOK
<1>10. \A o \in Built \ {CfgFile} : BuildNode(o) \in DOMAIN c.node_sigs => out[o] # None
  BY <1>2, <1>4, <1>6
<1>11. ASSUME db # None, folder, NEW o \in Built \ {CfgFile}, BuildNode(o) \in DOMAIN db.node_sigs, out[o] # None
       PROVE  BuildNode(o) \in DOMAIN c.node_sigs /\ c.node_sigs[BuildNode(o)] = db.node_sigs[BuildNode(o)]
  BY <1>1, <1>2, <1>4, <1>6, <1>11
<1>12. db # None => c.task_sigs = db.task_sigs /\ c.node_deps = db.node_deps
  BY <1>1, <1>2, <1>4, <1>6
<1> QED  BY <1>l, <1>5, <1>6, <1>7, <1>8, <1>9, <1>10, <1>11, <1>12

(* ----- the invariant of a build ----- *)

\* What the lock file vouches for, the steps with a context at hand, and the
\* steps between the configuration header and the lock file.
LockEnv == Env(lock.flags, lock.hash).table
Holding == {"status", "run", "finish", "unlink", "rename", "post", "clean"}
Configuring == {"store", "stored", "lock"}

\* The header, the environment file and the lock file are of one configuration,
\* but for the moments in which they are written.
ConfigInv ==
  /\ want \in Nat \ {0} /\ p.flags \in Nat /\ p.flags <= want
  /\ pc \in {"check_configured", "configure"} \cup Configuring => p.flags # 0
  /\ lock # None =>
       /\ lock.flags \in Nat \ {0} /\ lock.hash \in Nat /\ lock.flags <= want
       /\ pc \in {"check_configured", "configure"} \cup Configuring => lock.flags <= p.flags
       /\ pc \notin Configuring =>
            /\ envfile # None => envfile.table = LockEnv
            /\ out[CfgFile] # None => out[CfgFile].text = <<CfgFile, lock.flags>>
  /\ pc \in Configuring => out[CfgFile] # None /\ out[CfgFile].text = <<CfgFile, p.flags>>
  /\ pc = "lock" => envfile = Env(p.flags, p.script)

\* K holds every signature that an output has or had, with what was made of the
\* output since, the text that it has now included.
PairsInv(K) ==
  \A r \in K :
    /\ r[2] # SIG_NIL
    /\ \E t \in TaskIds : r[1] \in Outputs(t) /\ PairOK(K, src, LockEnv, t, r[2], r[3])
    /\ out[r[1]] # None => <<r[1], r[2], out[r[1]].text>> \in K

ContextSound(K) ==
  OpenShape(ctx) /\ ContextOK(K, src, LockEnv, ctx) /\ (~folder => Childless(ctx))

StoreInv(K) ==
  /\ folder \in BOOLEAN
  /\ lock = None => K = {} /\ db = None /\ pc \notin Holding /\ \A o \in Built \ {CfgFile} : out[o] = None
  /\ PairsInv(K)
  /\ DbOK(K, src, LockEnv)
  /\ pc \in Holding => ContextSound(K)

\* In a build, the context has signed what there is.
Building == pc \in {"status", "run", "finish", "post"} \/ (pc \in {"unlink", "rename"} /\ p.command # "clean")
BuildInv ==
  /\ pc = "clean" => p.command = "clean"
  /\ Building =>
       /\ BuildContextOK(ctx)
       /\ p.env = LockEnv
       /\ ~p.error => \A o \in Built \ {CfgFile} : BuildNode(o) \in DOMAIN ctx.node_sigs => out[o] # None
       /\ \A f \in AllInputs \ Built : Found(ctx, f)
       /\ ~p.edited => SourcesCurrent(src, ctx)

\* A task that is to run has the signature that it has in the context.
RunInv ==
  pc = "run" /\ p.sig # NoSig =>
    /\ p.sig = Signature(ctx, p.todo, p.env)
    /\ Tasks[p.todo].scan =>
         /\ p.todo \in DOMAIN ctx.node_deps
         /\ \E x \in Versions :
              /\ NotAfter(x, src)
              /\ Explains(p.todo, x, Names(NodeDeps(ctx, p.todo)))
              /\ UpTo(p.sig.imp, x)

\* The tasks that the build is through with have made what they would make
\* now, and their signatures stand for nothing else.
Settled(K, c, u) ==
  \A o \in Outputs(u) :
    /\ out[o] # None /\ out[o].text = Compile(u, src, out, p.env)
    /\ BuildNode(o) \in DOMAIN c.node_sigs
    /\ \A r \in K : r[1] = o /\ r[2] = c.node_sigs[BuildNode(o)] => r[3] = out[o].text
DoneTasks == {u \in TaskIds : (pc \in {"status", "run"} => u < p.todo) /\ (pc = "finish" => u <= p.todo)}
SettledInv(K) ==
  Building /\ ~p.edited /\ ~p.error /\ p.is_install # UNINSTALL => \A u \in DoneTasks : Settled(K, ctx, u)

(* ----- what the configuration keeps ----- *)

LEMMA LockValues ==
  ASSUME NEW a \in Nat, NEW b \in Nat
  PROVE  /\ EnvGet(Env(a, b).table, "FLAGS") = a /\ EnvGet(Env(a, b).table, "SCRIPT") = b
         /\ \A v : v \notin {"FLAGS", "SCRIPT"} => EnvGet(Env(a, b).table, v) = 0
<1>1. Env(a, b).table = [FLAGS |-> a, SCRIPT |-> b]
  BY DEF Env
<1>2. PICK e : e = Env(a, b).table
  OBVIOUS
<1>3. DOMAIN e = {"FLAGS", "SCRIPT"} /\ e["FLAGS"] = a /\ e["SCRIPT"] = b
  BY <1>1, <1>2
<1>4. EnvGet(e, "FLAGS") = a /\ EnvGet(e, "SCRIPT") = b
  BY <1>3 DEF EnvGet
<1>5. \A v : v \notin {"FLAGS", "SCRIPT"} => EnvGet(e, v) = 0
  BY <1>3 DEF EnvGet
<1> QED  BY <1>2, <1>4, <1>5

\* A later configuration is not older in any variable.
LEMMA LockGrows ==
  ASSUME NEW a \in Nat, NEW b \in Nat, NEW c \in Nat, NEW d \in Nat, a <= c, b <= d
  PROVE  NotOlderThan(Env(c, d).table, Env(a, b).table)
<1> SUFFICES ASSUME NEW v
             PROVE  /\ EnvGet(Env(a, b).table, v) \in Nat /\ EnvGet(Env(c, d).table, v) \in Nat
                    /\ EnvGet(Env(a, b).table, v) <= EnvGet(Env(c, d).table, v)
  BY DEF NotOlderThan
<1>a. \A w : w \notin {"FLAGS", "SCRIPT"} => EnvGet(Env(a, b).table, w) = 0
  BY LockValues
<1>c. \A w : w \notin {"FLAGS", "SCRIPT"} => EnvGet(Env(c, d).table, w) = 0
  BY LockValues
<1>1. CASE v = "FLAGS"
  BY <1>1, LockValues
<1>2. CASE v = "SCRIPT"
  BY <1>2, LockValues
<1>3. CASE v \notin {"FLAGS", "SCRIPT"}
  <2>1. EnvGet(Env(a, b).table, v) = 0 /\ EnvGet(Env(c, d).table, v) = 0
    BY <1>3, <1>a, <1>c
  <2>2. 0 \in Nat /\ 0 <= 0
    OBVIOUS
  <2> QED  BY <2>1, <2>2, Zenon
<1> QED  BY <1>1, <1>2, <1>3

\* What most steps do to the configuration: nothing.
LEMMA ConfigFrame ==
  ASSUME ConfigInv, want' = want, lock' = lock, p'.flags \in {p.flags, 0},
         envfile' \in {envfile, None},
         out'[CfgFile] # None => out[CfgFile] # None /\ out'[CfgFile].text = out[CfgFile].text,
         pc \notin Configuring, pc' \notin {"check_configured", "configure"} \cup Configuring
  PROVE  ConfigInv'
<1> USE DEF ConfigInv, Configuring
<1>0. LockEnv' = LockEnv
  BY DEF LockEnv
<1>1. want' \in Nat \ {0} /\ p'.flags \in Nat /\ p'.flags <= want'
  OBVIOUS
<1>2. lock' # None => lock'.flags \in Nat \ {0} /\ lock'.hash \in Nat /\ lock'.flags <= want'
  OBVIOUS
<1>3. lock' # None => (envfile' # None => envfile'.table = LockEnv')
                   /\ (out'[CfgFile] # None => out'[CfgFile].text = <<CfgFile, lock'.flags>>)
  BY <1>0
<1> QED  BY <1>1, <1>2, <1>3

\* What a task that is run leaves.
LEMMA RunOutputs ==
  ASSUME FilesInv, NEW t \in TaskIds, out' = Over(Aged(out), Makes(t))
  PROVE  \A o \in Built :
           /\ o \in Outputs(t) => out'[o] # None /\ out'[o].text = Compile(t, src, out, p.env)
           /\ o \notin Outputs(t) => /\ out'[o] = None <=> out[o] = None
                                     /\ out[o] # None => out'[o].text = out[o].text
<1>1. FileTimes(out) \subseteq Times /\ DOMAIN out = Built /\ Timed(out)
  BY DEF Times, FilesInv
<1>2. /\ DOMAIN Aged(out) = Built
      /\ \A o \in Built : Aged(out)[o] = None <=> out[o] = None
      /\ \A o \in Built : out[o] # None => Aged(out)[o].text = out[o].text
  BY <1>1, Ageing
<1> SUFFICES ASSUME NEW o \in Built
             PROVE  /\ o \in Outputs(t) => out'[o] # None /\ out'[o].text = Compile(t, src, out, p.env)
                    /\ o \notin Outputs(t) => /\ out'[o] = None <=> out[o] = None
                                              /\ out[o] # None => out'[o].text = out[o].text
  OBVIOUS
<1>3. DOMAIN Makes(t) = Outputs(t)
  BY DEF Makes
<1>4. ASSUME o \in Outputs(t)
      PROVE  out'[o] # None /\ out'[o].text = Compile(t, src, out, p.env)
  <2>1. PICK text : text = Compile(t, src, out, p.env)
    OBVIOUS
  <2>2. out'[o] = File(o, text)
    BY <1>2, <1>3, <1>4, <2>1 DEF Over, Makes
  <2>3. File(o, text).text = text /\ "text" \in DOMAIN File(o, text)
    BY DEF File
  <2>4. "text" \notin DOMAIN None
    BY DEF None
  <2> QED  BY <2>1, <2>2, <2>3, <2>4
<1>5. o \notin Outputs(t) => out'[o] = Aged(out)[o]
  BY <1>2, <1>3 DEF Over
<1> QED  BY <1>2, <1>4, <1>5

\* What a task that fails leaves.
LEMMA FailedOutputs ==
  ASSUME FilesInv, Failing
  PROVE  \A o \in Built : out'[o] \in {out[o], None} /\ (o \notin Outputs(p.todo) => out'[o] = out[o])
<1>1. DOMAIN out = Built
  BY DEF FilesInv
<1> QED  BY <1>1 DEF Failing, Over

\* The steps of a command that the configuration is not touched by.
LEMMA ConfigStep ==
  ASSUME WafIInv, FilesInv, ConfigInv, ~setting.wafcache, ~setting.removes, [Next]_vars,
         ~(Kill /\ pc \in Configuring)
  PROVE  ConfigInv'
<1> USE DEF user, history, configured, Ends, Goto, Fails, NotInstalled, NextTask, AfterFinish, Faulty
<1>f. p.flags' = p.flags => p'.flags = p.flags
  OBVIOUS
<1>p. DOMAIN p = DOMAIN Idle
  BY DEF WafIInv, ProcessInv
<1>i. Idle.flags = 0 /\ "flags" \in DOMAIN Idle /\ "edited" \in DOMAIN Idle
  BY DEF Idle
<1>C. CfgFile \in Built /\ (\A t \in TaskIds : CfgFile \notin Outputs(t))
  BY FilesApart, OutputsAssumption
<1>1. CASE UNCHANGED vars
  BY <1>1 DEF vars, ConfigInv, LockEnv
<1>2. CASE Edit
  <2>1. want' \in {want, want + 1} /\ p'.flags = p.flags
    BY <1>2, <1>p, <1>i DEF Edit, Edited, EditSource, ChangeFlags, EditScript
  <2>2. UNCHANGED <<lock, envfile, out, pc>> /\ pc \notin {"check_configured", "configure"} \cup Configuring
    BY <1>2 DEF Edit, Configuring
  <2>3. want' \in Nat \ {0} /\ want <= want'
    BY <2>1 DEF ConfigInv
  <2> QED  BY <2>1, <2>2, <2>3 DEF ConfigInv, LockEnv, Configuring
<1>3. CASE \E line \in CommandLines : Type(line)
  <2>1. /\ UNCHANGED <<want, lock, envfile, out>> /\ p'.flags = 0
        /\ pc = "idle" /\ pc' = "next"
    BY <1>3, <1>i DEF Type
  <2> QED  BY <2>1, ConfigFrame DEF Configuring
<1>4. CASE NextCommand
  <2>1. /\ UNCHANGED <<want, lock, envfile, out>> /\ pc = "next" /\ p'.flags = want
        /\ pc' \in {"configure", "distclean", "load", "check_configured"}
    BY <1>4, <1>i DEF NextCommand, FirstStep
  <2> QED  BY <2>1 DEF ConfigInv, LockEnv, Configuring
<1>5. CASE Configure
  <2>1. /\ UNCHANGED <<want, lock, envfile, p>> /\ pc = "configure" /\ pc' = "store"
        /\ out'[CfgFile] = File(CfgFile, <<CfgFile, p.flags>>)
    BY <1>5, <1>C DEF Configure, FilesInv
  <2>2. out'[CfgFile] # None /\ out'[CfgFile].text = <<CfgFile, p.flags>>
    BY <2>1 DEF File, None
  <2> QED  BY <2>1, <2>2 DEF ConfigInv, LockEnv, Configuring
<1>6. CASE Store \/ Stored
  <2>1. /\ UNCHANGED <<want, lock, out, p>> /\ pc \in {"store", "stored"} /\ pc' \in {"stored", "lock"}
        /\ pc' = "lock" => envfile' = Env(p.flags, p.script)
    BY <1>6 DEF Store, Stored
  <2> QED  BY <2>1 DEF ConfigInv, LockEnv, Configuring
<1>7. CASE Lock
  <2>1. /\ UNCHANGED <<want, envfile, out, p>> /\ pc = "lock" /\ pc' \in {"next", "load"}
        /\ lock' = [flags |-> p.flags, hash |-> p.script] /\ envfile = Env(p.flags, p.script)
    BY <1>7 DEF Lock, ConfigInv
  <2>2. lock'.flags = p.flags /\ lock'.hash = p.script
    BY <2>1
  <2>3. LockEnv' = envfile'.table
    BY <2>1, <2>2 DEF LockEnv
  <2>4. p.script \in Nat /\ p.flags \in Nat \ {0}
    BY <2>1 DEF WafIInv, ProcessInv, ConfigInv, Configuring
  <2> QED  BY <2>1, <2>2, <2>3, <2>4 DEF ConfigInv, Configuring
<1>8. CASE CheckConfigured
  <2>1. /\ UNCHANGED <<want, lock, envfile, out>> /\ pc = "check_configured" /\ pc' \in {"configure", "load"}
        /\ p'.flags = IF lock = None THEN p.flags ELSE lock.flags
    BY <1>8, <1>p, <1>i DEF CheckConfigured
  <2> QED  BY <2>1 DEF ConfigInv, LockEnv, Configuring
<1>9. CASE Shutdown \/ NotLoaded \/ LoadForClean \/ LoadForBuild
  <2>1. /\ UNCHANGED <<want, lock, envfile, out>> /\ pc \in {"next", "load"} /\ pc' \in {"idle", "clean", "status"}
        /\ p'.flags \in {p.flags, 0}
    BY <1>9, <1>p, <1>i DEF Shutdown, NotLoaded, LoadForClean, LoadForBuild
  <2> QED  BY <2>1, ConfigFrame DEF Configuring
<1>10. CASE Status \/ StatusUninstall \/ Finish \/ Install \/ Uninstall \/ TasksDone
  <2>1. /\ UNCHANGED <<want, lock, envfile, out>> /\ pc \in {"status", "finish"}
        /\ pc' \in {"run", "finish", "unlink", "status", "post"} /\ p'.flags = p.flags
    BY <1>10, <1>p, <1>i DEF Status, StatusUninstall, Finish, Install, Uninstall, TasksDone
  <2> QED  BY <2>1, ConfigFrame DEF Configuring
<1>11. CASE Unlink \/ Rename \/ Post \/ Clean \/ Interrupt \/ InstallMissing \/ InstallFails
  <2>1. /\ UNCHANGED <<want, lock, envfile, out>> /\ pc \in {"unlink", "rename", "post", "clean", "status", "run", "finish"}
        /\ pc' \in {"rename", "next", "post", "unlink", "idle"} /\ p'.flags \in {p.flags, 0}
    BY <1>11, <1>p, <1>i DEF Unlink, Rename, Post, Clean, Interrupt, InstallMissing, InstallFails
  <2> QED  BY <2>1, ConfigFrame DEF Configuring
<1>12. CASE CanRetrieveCache \/ RemoveFolder
  BY <1>12 DEF CanRetrieveCache, RemoveFolder
<1>13. CASE Run \/ KillInRun
  <2>1. /\ UNCHANGED <<want, lock, envfile>> /\ pc = "run" /\ pc' \in {"finish", "idle"} /\ p'.flags \in {p.flags, 0}
        /\ out' = Over(Aged(out), Makes(p.todo)) /\ p.todo \in TaskIds
    BY <1>13, <1>i DEF Run, KillInRun, WafIInv, ProcessInv
  <2>2. out'[CfgFile] # None => out[CfgFile] # None /\ out'[CfgFile].text = out[CfgFile].text
    BY <2>1, <1>C, RunOutputs
  <2> QED  BY <2>1, <2>2, ConfigFrame DEF Configuring
<1>14. CASE CannotRun \/ RunFails
  <2>1. /\ UNCHANGED <<want, lock, envfile>> /\ pc = "run" /\ pc' = "finish" /\ p'.flags = p.flags
    BY <1>14, <1>p, <1>i DEF CannotRun, RunFails, Failing
  <2>2. Failing
    BY <1>14 DEF CannotRun, RunFails
  <2>3. out'[CfgFile] # None => out'[CfgFile] = out[CfgFile]
    BY <1>C, <2>2, FailedOutputs
  <2> QED  BY <2>1, <2>3, ConfigFrame DEF Configuring
<1>15. CASE (\E o \in Built : CleanRec(o)) \/ (\E o \in Built : RemoveOutput(o))
  <2>1. /\ UNCHANGED <<want, lock, envfile, p>> /\ pc \in {"clean", "idle"} /\ pc' = pc
        /\ \E o \in Built : out' = [out EXCEPT ![o] = None]
    BY <1>15 DEF CleanRec, RemoveOutput
  <2>2. out'[CfgFile] # None => out'[CfgFile] = out[CfgFile]
    BY <2>1, <1>C DEF FilesInv
  <2> QED  BY <2>1, <2>2, ConfigFrame DEF Configuring
<1>16. CASE Distclean
  <2>1. pc = "distclean" /\ pc' = "next" /\ UNCHANGED <<want, p>>
    BY <1>16 DEF Distclean
  <2>2. CASE lock = None
    <3>1. UNCHANGED <<lock, envfile, out>>
      BY <1>16, <2>2 DEF Distclean
    <3> QED  BY <2>1, <3>1, ConfigFrame DEF Configuring
  <2>3. CASE lock # None
    <3>1. lock' = None
      BY <1>16, <2>3 DEF Distclean
    <3> QED  BY <2>1, <3>1 DEF ConfigInv, Configuring
  <2> QED  BY <2>2, <2>3
<1>17. CASE Kill
  <2>1. UNCHANGED <<want, lock, envfile, out>> /\ pc' = "idle" /\ p'.flags = 0 /\ pc \notin Configuring
    BY <1>17, <1>i DEF Kill
  <2> QED  BY <2>1, ConfigFrame DEF Configuring
<1>18. CASE KillInDistclean
  <2>1. UNCHANGED <<want, lock>> /\ pc = "distclean" /\ pc' = "idle" /\ p'.flags = 0 /\ envfile' \in {envfile, None}
    BY <1>18, <1>i DEF KillInDistclean
  <2>2. out' = out \/ out' = [o \in Built |-> None]
    BY <1>18 DEF KillInDistclean
  <2>3. out'[CfgFile] # None => out'[CfgFile] = out[CfgFile]
    BY <2>2, <1>C
  <2> QED  BY <2>1, <2>3, ConfigFrame DEF Configuring
<1> QED
  BY <1>1, <1>2, <1>3, <1>4, <1>5, <1>6, <1>7, <1>8, <1>9, <1>10, <1>11, <1>12, <1>13, <1>14, <1>15, <1>16,
     <1>17, <1>18 DEF Next, User, Command, Fault

(* ----- what a run adds ----- *)

\* The environment that the lock file vouches for.
LEMMA LockEnvIs ==
  ASSUME ConfigInv, lock # None
  PROVE  /\ NotOlderThan(LockEnv, LockEnv)
         /\ EnvGet(LockEnv, "FLAGS") = lock.flags /\ lock.flags \in Nat \ {0}
         /\ pc \notin Configuring => HeaderOK(LockEnv)
<1>1. lock.flags \in Nat \ {0} /\ lock.hash \in Nat
  BY DEF ConfigInv
<1>2. NotOlderThan(LockEnv, LockEnv)
  BY <1>1, LockGrows DEF LockEnv
<1>3. EnvGet(LockEnv, "FLAGS") = lock.flags
  BY <1>1, LockValues DEF LockEnv
<1>4. pc \notin Configuring => HeaderOK(LockEnv)
  BY <1>1, <1>3 DEF ConfigInv, HeaderOK
<1> QED  BY <1>1, <1>2, <1>3, <1>4

LEMMA NotAfterSelf == \A x \in Versions : NotAfter(x, x)
  BY BuildContextAssumption DEF NotAfter, Versions

\* A file that is there is no older than any signature it has or had.
LEMMA KnownBefore ==
  ASSUME NEW K, PairsInv(K), src \in Versions, HeaderOK(LockEnv), NEW f \in Sources \cup Built, NEW sig,
         KnownSig(K, src, LockEnv, f, sig), There(f, src, out)
  PROVE  Before(K, f, sig, TextOf(f, src, out))
<1>m. MaxVersion \in Nat /\ Sources \cap Built = {} /\ CfgFile \in Built
  BY FilesApart
<1>1. CASE f \in Sources
  <2>1. PICK v \in 1..src[f] : sig = <<f, v>>
    BY <1>1 DEF KnownSig
  <2>2. src[f] \in Nat
    BY <1>1, <1>m DEF Versions
  <2>3. TextOf(f, src, out) = <<f, src[f]>>
    BY <1>1, <1>m DEF TextOf, FileText
  <2> QED  BY <1>1, <2>1, <2>2, <2>3 DEF Before
<1>2. CASE f = CfgFile
  <2>1. TextOf(f, src, out) = <<CfgFile, EnvGet(LockEnv, "FLAGS")>>
    BY <1>2, <1>m DEF TextOf, There, HeaderOK, None, Nothing
  <2>2. EnvGet(LockEnv, "FLAGS") \in Nat
    BY DEF HeaderOK
  <2>3. f \notin Sources
    BY <1>2, <1>m
  <2>4. sig = SIG_NIL \/ \E k \in 0..EnvGet(LockEnv, "FLAGS") : sig = <<CfgFile, k>>
    BY <1>2, <2>3 DEF KnownSig
  <2>5. sig[2] <= EnvGet(LockEnv, "FLAGS")
    <3>1. CASE sig = SIG_NIL
      BY <2>2, <3>1 DEF SIG_NIL
    <3>2. CASE \E k \in 0..EnvGet(LockEnv, "FLAGS") : sig = <<CfgFile, k>>
      BY <2>2, <3>2
    <3> QED  BY <2>4, <3>1, <3>2
  <2> QED  BY <1>2, <2>1, <2>5 DEF Before
<1>3. CASE f \in Built /\ f # CfgFile
  <2>1. f \notin Sources
    BY <1>3, <1>m
  <2>2. PICK r \in K : r[1] = f /\ r[2] = sig
    BY <1>3, <2>1 DEF KnownSig
  <2>3. out[f] # None /\ TextOf(f, src, out) = out[f].text
    BY <1>3 DEF There, TextOf, None, Nothing
  <2> QED  BY <1>3, <2>1, <2>2, <2>3 DEF PairsInv, Before
<1> QED  BY <1>1, <1>2, <1>3

\* What a task makes now goes with each of its signatures.
LEMMA NowMade ==
  ASSUME NEW K, PairsInv(K), src \in Versions, HeaderOK(LockEnv), NotOlderThan(LockEnv, LockEnv),
         NEW t \in TaskIds, Compiles(t, src, out),
         NEW s, NilPart(src, t, s), NEW x \in Versions, NotAfter(x, src), SigPart(K, src, LockEnv, t, s, x)
  PROVE  PairOK(K, src, LockEnv, t, s, Compile(t, src, out, LockEnv))
<1>T. PICK T : T = Compile(t, src, out, LockEnv)
  OBVIOUS
<1>m. MaxVersion \in Nat /\ Sources \cap Built = {} /\ CfgFile \in Built
      /\ Elements(Tasks[t].inputs) \subseteq Sources \cup Built
  BY FilesApart, FilesAssumption
<1>1. /\ T = [task |-> t, from |-> T.from, flags |-> T.flags]
      /\ T.from = [f \in ReadBy(t, src) |-> TextOf(f, src, out)]
      /\ T.flags = [v \in Tasks[t].vars |-> EnvGet(LockEnv, v)]
  BY <1>T DEF Compile, HashEnvVars
<1>2. \A f \in ReadBy(t, src) : There(f, src, out)
  BY DEF Compiles
<1>3. TextPart(LockEnv, t, T, src)
  <2>1. T.from = [f \in ReadBy(t, src) |-> T.from[f]] /\ T.flags = [v \in Tasks[t].vars |-> T.flags[v]]
    BY <1>1
  <2>2. ASSUME NEW f \in ReadBy(t, src) \cap Sources PROVE T.from[f] = <<f, src[f]>> /\ src[f] <= MaxVersion
    BY <1>m, <1>1, <1>2 DEF TextOf, There, FileText, Exists
  <2>3. ASSUME CfgFile \in ReadBy(t, src)
        PROVE  \E k \in 0..EnvGet(LockEnv, "FLAGS") : T.from[CfgFile] = <<CfgFile, k>>
    <3>1. out[CfgFile] # None /\ T.from[CfgFile] = out[CfgFile].text
      BY <1>m, <1>1, <1>2, <2>3 DEF TextOf, There, None, Nothing
    <3>2. EnvGet(LockEnv, "FLAGS") \in 0..EnvGet(LockEnv, "FLAGS")
      BY DEF HeaderOK
    <3> QED  BY <3>1, <3>2 DEF HeaderOK
  <2>4. ASSUME NEW v \in Tasks[t].vars PROVE T.flags[v] \in 0..EnvGet(LockEnv, v)
    <3>1. EnvGet(LockEnv, v) \in Nat
      BY DEF NotOlderThan
    <3> QED  BY <1>1, <3>1
  <2> QED  BY <1>1, <2>1, <2>2, <2>3, <2>4 DEF TextPart
<1>4. ASSUME NEW f \in ReadBy(t, src), f \in Sources \cup Built, NEW sig, KnownSig(K, src, LockEnv, f, sig)
      PROVE  Before(K, f, sig, T.from[f])
  <2>1. T.from[f] = TextOf(f, src, out) /\ There(f, src, out)
    BY <1>1, <1>2
  <2> QED  BY <1>4, <2>1, KnownBefore
<1>5. InOrder(K, t, s, T)
  <2>1. ASSUME NEW i \in DOMAIN Tasks[t].inputs
        PROVE  Before(K, Tasks[t].inputs[i], s[1][i], T.from[Tasks[t].inputs[i]])
    <3>1. Tasks[t].inputs[i] \in Elements(Tasks[t].inputs)
      BY DEF Elements
    <3>2. Tasks[t].inputs[i] \in ReadBy(t, src) /\ Tasks[t].inputs[i] \in Sources \cup Built
      BY <1>m, <3>1 DEF ReadBy
    <3> QED  BY <1>4, <3>2 DEF SigPart
  <2>2. ASSUME Tasks[t].scan, NEW e \in s[2], e[1] \in Built, e[1] \in DOMAIN T.from
        PROVE  Before(K, e[1], e[2], T.from[e[1]])
    <3>1. e[1] \in ReadBy(t, src)
      BY <1>1, <2>2
    <3> QED  BY <1>4, <2>2, <3>1 DEF SigPart
  <2>3. ASSUME NEW v \in Tasks[t].vars PROVE s[3][v] <= T.flags[v]
    <3>1. EnvGet(LockEnv, v) \in Nat /\ s[3][v] \in 0..EnvGet(LockEnv, v)
      BY DEF NotOlderThan, SigPart
    <3> QED  BY <1>1, <3>1
  <2> QED  BY <2>1, <2>2, <2>3 DEF InOrder
<1>6. NotAfter(src, src)
  BY NotAfterSelf
<1> QED  BY <1>T, <1>3, <1>5, <1>6 DEF PairOK

\* The pairs that a run of t, signed with sig, adds.
RunPairs(K, t, sig, text) ==
  {<<r[1], r[2], text>> : r \in {q \in K : q[1] \in Outputs(t)}} \cup {<<o, sig, text>> : o \in Outputs(t)}

LEMMA RunKeepsPairs ==
  ASSUME NEW K, PairsInv(K), FilesInv, src \in Versions, src' = src, lock' = lock,
         HeaderOK(LockEnv), NotOlderThan(LockEnv, LockEnv),
         NEW t \in TaskIds, Compiles(t, src, out), p.env = LockEnv, out' = Over(Aged(out), Makes(t)),
         NEW sig, sig # SIG_NIL, NilPart(src, t, sig),
         NEW x \in Versions, NotAfter(x, src), SigPart(K, src, LockEnv, t, sig, x),
         NEW L, L = K \cup RunPairs(K, t, sig, Compile(t, src, out, LockEnv))
  PROVE  PairsInv(L)'
<1>T. PICK T : T = Compile(t, src, out, LockEnv)
  OBVIOUS
<1>L. L = K \cup RunPairs(K, t, sig, T)
  BY <1>T
<1>0. LockEnv' = LockEnv /\ K \subseteq L /\ NotAfter(src, src)
  BY <1>L, NotAfterSelf DEF LockEnv
<1>1. \A o \in Built :
        /\ o \in Outputs(t) => out'[o] # None /\ out'[o].text = T
        /\ o \notin Outputs(t) => /\ out'[o] = None <=> out[o] = None
                                  /\ out[o] # None => out'[o].text = out[o].text
  BY <1>T, RunOutputs
<1>2. \A u \in TaskIds : Outputs(u) \subseteq Built
  BY DEF Built, Outputs
<1>3. ASSUME NEW r \in K
      PROVE  /\ r[2] # SIG_NIL
             /\ \E u \in TaskIds : r[1] \in Outputs(u) /\ PairOK(L, src, LockEnv, u, r[2], r[3])
             /\ r[1] \in Outputs(t) => PairOK(L, src, LockEnv, t, r[2], T)
             /\ out'[r[1]] # None => <<r[1], r[2], out'[r[1]].text>> \in L
  <2>1. PICK u \in TaskIds : r[1] \in Outputs(u) /\ PairOK(K, src, LockEnv, u, r[2], r[3])
    BY DEF PairsInv
  <2>2. PairOK(L, src, LockEnv, u, r[2], r[3])
    BY <1>0, <2>1, StaysPair
  <2>3. ASSUME r[1] \in Outputs(t) PROVE PairOK(L, src, LockEnv, t, r[2], T)
    <3>1. u = t
      BY <2>1, <2>3, OutputsAssumption
    <3>2. NilPart(src, t, r[2])
      BY <2>1, <3>1 DEF PairOK
    <3>3. PICK y \in Versions, w \in Versions :
            NotAfter(y, w) /\ NotAfter(w, src) /\ SigPart(K, src, LockEnv, t, r[2], y)
      BY <2>1, <3>1 DEF PairOK
    <3>4. NotAfter(y, src)
      BY <3>3, NotAfterTransitive
    <3>5. PairOK(K, src, LockEnv, t, r[2], T)
      BY <1>T, <3>2, <3>3, <3>4, NowMade
    <3> QED  BY <1>0, <3>5, StaysPair
  <2>4. ASSUME out'[r[1]] # None PROVE <<r[1], r[2], out'[r[1]].text>> \in L
    <3>1. CASE r[1] \in Outputs(t)
      <4>1. out'[r[1]].text = T
        BY <1>1, <1>2, <3>1
      <4> QED  BY <1>L, <3>1, <4>1 DEF RunPairs
    <3>2. CASE r[1] \notin Outputs(t)
      <4>1. out[r[1]] # None /\ out'[r[1]].text = out[r[1]].text
        BY <1>1, <1>2, <2>1, <2>4, <3>2
      <4> QED  BY <1>0, <4>1 DEF PairsInv
    <3> QED  BY <3>1, <3>2
  <2> QED  BY <2>1, <2>2, <2>3, <2>4 DEF PairsInv
<1>4. PairOK(L, src, LockEnv, t, sig, T)
  <2>1. PairOK(K, src, LockEnv, t, sig, T)
    BY <1>T, NowMade
  <2> QED  BY <1>0, <2>1, StaysPair
<1>5. ASSUME NEW r \in L
      PROVE  /\ r[2] # SIG_NIL
             /\ \E u \in TaskIds : r[1] \in Outputs(u) /\ PairOK(L, src, LockEnv, u, r[2], r[3])
             /\ out'[r[1]] # None => <<r[1], r[2], out'[r[1]].text>> \in L
  <2>1. CASE r \in K
    BY <1>3, <2>1
  <2>2. CASE \E q \in K : q[1] \in Outputs(t) /\ r = <<q[1], q[2], T>>
    <3>1. PICK q \in K : q[1] \in Outputs(t) /\ r = <<q[1], q[2], T>>
      BY <2>2
    <3>2. r[1] = q[1] /\ r[2] = q[2] /\ r[3] = T
      BY <3>1
    <3>3. PairOK(L, src, LockEnv, t, r[2], r[3]) /\ r[2] # SIG_NIL
      BY <1>3, <3>1, <3>2
    <3>4. out'[r[1]] # None => <<r[1], r[2], out'[r[1]].text>> \in L
      BY <1>3, <3>2
    <3> QED  BY <3>1, <3>2, <3>3, <3>4
  <2>3. CASE \E o \in Outputs(t) : r = <<o, sig, T>>
    <3>1. PICK o \in Outputs(t) : r = <<o, sig, T>>
      BY <2>3
    <3>2. r[1] = o /\ r[2] = sig /\ r[3] = T
      BY <3>1
    <3>3. out'[o].text = T
      BY <1>1, <1>2
    <3> QED  BY <1>4, <3>1, <3>2, <3>3
  <2> QED  BY <1>L, <2>1, <2>2, <2>3 DEF RunPairs
<1> QED  BY <1>0, <1>5 DEF PairsInv

(* ----- the signature of the task at hand ----- *)

\* The nodes of a context have the names that their files have.
LEMMA NodeNames ==
  ASSUME NEW K, NEW sv, NEW env, NEW c, NodesOK(K, sv, env, c), NEW f \in Sources \cup Built,
         NodeOf(c, f) \in DOMAIN c.node_sigs
  PROVE  KnownSig(K, sv, env, f, c.node_sigs[NodeOf(c, f)])
<1>1. NodeOf(c, f)[1] = f
  BY DEF NodeOf, BuildNode, FileNode
<1> QED  BY <1>1 DEF NodesOK

\* What a signature is put together from.
LEMMA SignatureIs ==
  ASSUME NEW c, NEW t \in TaskIds, NEW env, Signature(c, t, env) # NoSig
  PROVE  /\ HasExplicit(c, t) /\ (Tasks[t].scan => HasImplicit(c, t))
         /\ Signature(c, t, env).sig[1] = SigExplicitDeps(c, t)
         /\ Tasks[t].scan => Signature(c, t, env).sig[2] = ComputeSigImplicitDeps(c, t)
         /\ Signature(c, t, env).sig[3] = HashEnvVars(env, Tasks[t].vars)
         /\ Signature(c, t, env).imp = Signature(c, t, env).sig[2]
         /\ Signature(c, t, env).sig # SIG_NIL
<1>1. HasExplicit(c, t) /\ (Tasks[t].scan => HasImplicit(c, t))
  BY DEF Signature
<1>2. PICK a : a = SigExplicitDeps(c, t)
  OBVIOUS
<1>3. PICK b : b = IF Tasks[t].scan THEN ComputeSigImplicitDeps(c, t) ELSE SIG_NIL
  OBVIOUS
<1>4. PICK v : v = SigVars(t, env)
  OBVIOUS
<1>5. Signature(c, t, env) = [sig |-> <<a, b, v>>, exp |-> a, imp |-> b, var |-> v]
  BY <1>1, <1>2, <1>3, <1>4 DEF Signature
<1>6. <<a, b, v>> # SIG_NIL
  BY DEF SIG_NIL
<1> QED  BY <1>1, <1>2, <1>3, <1>4, <1>5, <1>6 DEF SigVars

SignatureFacts(K, sv, env, c, t, s) ==
  /\ \A i \in DOMAIN Tasks[t].inputs : /\ NodeOf(c, Tasks[t].inputs[i]) \in DOMAIN c.node_sigs
                                        /\ s[1][i] = c.node_sigs[NodeOf(c, Tasks[t].inputs[i])]
                                        /\ KnownSig(K, sv, env, Tasks[t].inputs[i], s[1][i])
  /\ Tasks[t].scan => /\ \A e \in s[2] : e[1] \in Sources \cup Built /\ KnownSig(K, sv, env, e[1], e[2])
                      /\ \A e \in s[2] : e[1] \in Built => e[2] = c.node_sigs[BuildNode(e[1])]
                      /\ Names(s[2]) = Names(NodeDeps(c, t))
                      /\ UpTo(s[2], sv)
  /\ \A v \in Tasks[t].vars : s[3][v] \in 0..EnvGet(env, v)

\* The parts of the present signature are known; no implicit dependency is
\* signed with a version that is yet to come.
LEMMA SignatureKnown ==
  ASSUME NEW K, NEW sv \in Versions, NEW env, NotOlderThan(env, env), NEW c, NodesOK(K, sv, env, c), NEW t \in TaskIds,
         Signature(c, t, env) # NoSig,
         NEW s, s = Signature(c, t, env).sig
  PROVE  SignatureFacts(K, sv, env, c, t, s)
<1>0. /\ HasExplicit(c, t) /\ (Tasks[t].scan => HasImplicit(c, t))
      /\ s[1] = SigExplicitDeps(c, t)
      /\ Tasks[t].scan => s[2] = ComputeSigImplicitDeps(c, t)
      /\ s[3] = HashEnvVars(env, Tasks[t].vars)
  BY SignatureIs
<1>1. ASSUME NEW i \in DOMAIN Tasks[t].inputs
      PROVE  /\ NodeOf(c, Tasks[t].inputs[i]) \in DOMAIN c.node_sigs
             /\ s[1][i] = c.node_sigs[NodeOf(c, Tasks[t].inputs[i])]
             /\ KnownSig(K, sv, env, Tasks[t].inputs[i], s[1][i])
  <2>1. ExplicitNodes(c, t)[i] = NodeOf(c, Tasks[t].inputs[i])
    BY DEF ExplicitNodes
  <2>2. NodeOf(c, Tasks[t].inputs[i]) \in DOMAIN c.node_sigs
    BY <1>0, <2>1 DEF HasExplicit
  <2>3. s[1][i] = c.node_sigs[NodeOf(c, Tasks[t].inputs[i])]
    BY <1>0, <2>1 DEF SigExplicitDeps
  <2>4. Tasks[t].inputs[i] \in Sources \cup Built
    BY FilesAssumption DEF Elements
  <2> QED  BY <2>2, <2>3, <2>4, NodeNames
<1>2. ASSUME Tasks[t].scan
      PROVE  /\ \A e \in s[2] : e[1] \in Sources \cup Built /\ KnownSig(K, sv, env, e[1], e[2])
             /\ \A e \in s[2] : e[1] \in Built => e[2] = c.node_sigs[BuildNode(e[1])]
             /\ Names(s[2]) = Names(NodeDeps(c, t))
  <2>0. s[2] = {<<n[1], c.node_sigs[n]>> : n \in NodeDeps(c, t)}
    BY <1>0, <1>2 DEF ComputeSigImplicitDeps
  <2>1. ASSUME NEW e \in s[2]
        PROVE  /\ e[1] \in Sources \cup Built /\ KnownSig(K, sv, env, e[1], e[2])
               /\ e[1] \in Built => e[2] = c.node_sigs[BuildNode(e[1])]
    <3>1. PICK n \in NodeDeps(c, t) : e = <<n[1], c.node_sigs[n]>>
      BY <2>0
    <3>2. n \in DOMAIN c.node_sigs
      BY <1>0, <1>2 DEF HasImplicit
    <3>3. e[1] = n[1] /\ e[2] = c.node_sigs[n]
      BY <3>1
    <3>4. n[1] \in Sources \cup Built /\ KnownSig(K, sv, env, n[1], c.node_sigs[n]) /\ n = NodeOf(c, n[1])
      BY <3>2 DEF NodesOK
    <3> QED  BY <3>3, <3>4 DEF NodeOf
  <2>2. Names(s[2]) = Names(NodeDeps(c, t))
    <3>1. ASSUME NEW e \in s[2] PROVE \E n \in NodeDeps(c, t) : e[1] = n[1]
      BY <2>0
    <3>2. ASSUME NEW n \in NodeDeps(c, t) PROVE \E e \in s[2] : e[1] = n[1]
      <4>1. <<n[1], c.node_sigs[n]>> \in s[2]
        BY <2>0
      <4> QED  BY <4>1
    <3> QED  BY <3>1, <3>2 DEF Names
  <2> QED  BY <2>1, <2>2
<1>3. ASSUME Tasks[t].scan PROVE UpTo(s[2], sv)
  <2> SUFFICES ASSUME NEW e \in s[2], e[1] \in Sources PROVE e[2][2] \in 0..sv[e[1]]
    BY DEF UpTo
  <2>1. PICK v \in 1..sv[e[1]] : e[2] = <<e[1], v>>
    BY <1>2, <1>3 DEF KnownSig
  <2>2. sv[e[1]] \in Nat
    BY FilesApart DEF Versions
  <2> QED  BY <2>1, <2>2
<1>4. ASSUME NEW v \in Tasks[t].vars PROVE s[3][v] \in 0..EnvGet(env, v)
  <2>1. EnvGet(env, v) \in Nat
    BY DEF NotOlderThan
  <2> QED  BY <1>0, <2>1 DEF HashEnvVars
<1> QED  BY <1>1, <1>2, <1>3, <1>4 DEF SignatureFacts

\* What a task that compiles is signed with: a signature of the kind that the
\* pairs have.
LEMMA RunSigned ==
  ASSUME KeepsIncludes, NEW K, PairsInv(K), src \in Versions, HeaderOK(LockEnv), EnvGet(LockEnv, "FLAGS") # 0,
         NotOlderThan(LockEnv, LockEnv), NEW c, NodesOK(K, src, LockEnv, c),
         BuildNode(CfgFile) \in DOMAIN c.node_sigs, c.node_sigs[BuildNode(CfgFile)] = CfgSig,
         NEW t \in TaskIds, Compiles(t, src, out), Signature(c, t, LockEnv) # NoSig,
         NEW s, s = Signature(c, t, LockEnv).sig,
         Tasks[t].scan => \E x \in Versions :
           NotAfter(x, src) /\ Explains(t, x, Names(NodeDeps(c, t))) /\ UpTo(s[2], x)
  PROVE  /\ NilPart(src, t, s)
         /\ \E x \in Versions : NotAfter(x, src) /\ SigPart(K, src, LockEnv, t, s, x)
<1>m. MaxVersion \in Nat /\ Sources \cap Built = {} /\ CfgFile \in Built
      /\ Elements(Tasks[t].inputs) \subseteq Sources \cup Built
  BY FilesApart, FilesAssumption
<1>k. /\ \A i \in DOMAIN Tasks[t].inputs : /\ NodeOf(c, Tasks[t].inputs[i]) \in DOMAIN c.node_sigs
                                           /\ s[1][i] = c.node_sigs[NodeOf(c, Tasks[t].inputs[i])]
                                           /\ KnownSig(K, src, LockEnv, Tasks[t].inputs[i], s[1][i])
      /\ Tasks[t].scan => /\ \A e \in s[2] : e[1] \in Sources \cup Built /\ KnownSig(K, src, LockEnv, e[1], e[2])
                          /\ \A e \in s[2] : e[1] \in Built => e[2] = c.node_sigs[BuildNode(e[1])]
                          /\ Names(s[2]) = Names(NodeDeps(c, t))
      /\ \A v \in Tasks[t].vars : s[3][v] \in 0..EnvGet(LockEnv, v)
  <2>1. SignatureFacts(K, src, LockEnv, c, t, s)
    BY SignatureKnown
  <2> QED  BY <2>1 DEF SignatureFacts
<1>h. ASSUME CfgFile \in ReadBy(t, src) PROVE c.node_sigs[BuildNode(CfgFile)] # SIG_NIL
  <2>1. out[CfgFile] # None
    BY <1>h, <1>m DEF Compiles, There, None, Nothing
  <2>2. CfgSig = <<CfgFile, EnvGet(LockEnv, "FLAGS")>>
    BY <2>1 DEF CfgSig, HeaderOK
  <2> QED  BY <2>2 DEF SIG_NIL
<1>1. ASSUME NEW i \in DOMAIN Tasks[t].inputs PROVE s[1][i] # SIG_NIL
  <2> DEFINE f == Tasks[t].inputs[i]
  <2>1. f \in Elements(Tasks[t].inputs) /\ f \in ReadBy(t, src)
    BY DEF Elements, ReadBy
  <2>2. CASE f \in Sources
    <3>1. PICK v \in 1..src[f] : s[1][i] = <<f, v>>
      BY <1>k, <2>2 DEF KnownSig
    <3>2. v # 0
      OBVIOUS
    <3> QED  BY <3>1, <3>2 DEF SIG_NIL
  <2>3. CASE f = CfgFile
    BY <1>h, <1>k, <1>m, <2>1, <2>3 DEF NodeOf
  <2>4. CASE f \in Built /\ f # CfgFile
    <3>1. PICK r \in K : r[1] = f /\ r[2] = s[1][i]
      BY <1>k, <1>m, <2>4 DEF KnownSig
    <3> QED  BY <3>1 DEF PairsInv
  <2> QED  BY <1>m, <2>1, <2>2, <2>3, <2>4
<1>2. ASSUME Tasks[t].scan, <<CfgFile, SIG_NIL>> \in s[2],
             \A e \in s[2] : ~(e[1] \in Sources /\ e[2][2] < src[e[1]])
      PROVE  FALSE
  <2>1. PICK x \in Versions : NotAfter(x, src) /\ Explains(t, x, Names(NodeDeps(c, t))) /\ UpTo(s[2], x)
    BY <1>2
  <2>2. Explains(t, x, Names(s[2]))
    BY <1>2, <1>k, <2>1
  <2>3. ASSUME NEW e \in s[2], e[1] \in Sources PROVE e[2] = <<e[1], src[e[1]]>>
    <3>1. PICK v \in 1..src[e[1]] : e[2] = <<e[1], v>>
      BY <1>2, <1>k, <2>3 DEF KnownSig
    <3>2. src[e[1]] \in Nat
      BY <1>m, <2>3 DEF Versions
    <3>3. ~(v < src[e[1]])
      BY <1>2, <2>3, <3>1
    <3>4. v = src[e[1]]
      BY <3>2, <3>3
    <3> QED  BY <3>1, <3>4
  <2>4. \A f \in Included(t, x) \ Built : x[f] = src[f]
    BY <2>1, <2>2, <2>3, OnlyVersions
  <2>5. ASSUME NEW f \in Elements(Tasks[t].inputs) \ Built PROVE Exists(x, f) /\ Exists(src, f)
    <3>1. f \in Sources /\ src[f] <= MaxVersion
      BY <1>m, <2>5 DEF Compiles, ReadBy, There, Exists
    <3>2. x[f] <= src[f] /\ x[f] \in Nat /\ src[f] \in Nat
      BY <1>m, <2>1, <3>1 DEF NotAfter, Versions
    <3> QED  BY <1>m, <3>1, <3>2 DEF Exists
  <2>6. Included(t, x) = Included(t, src)
    BY <2>4, <2>5, SameIncludes
  <2>7. CfgFile \in Names(s[2])
    BY <1>2 DEF Names
  <2>8. CfgFile \in ReadBy(t, src)
    BY <2>2, <2>6, <2>7 DEF Explains, ReadBy
  <2>9. c.node_sigs[BuildNode(CfgFile)] = SIG_NIL
    BY <1>2, <1>k, <1>m
  <2> QED  BY <1>h, <2>8, <2>9
<1>3. NilPart(src, t, s)
  BY <1>1, <1>2 DEF NilPart
<1>4. PICK x \in Versions :
        NotAfter(x, src) /\ (Tasks[t].scan => Explains(t, x, Names(NodeDeps(c, t))) /\ UpTo(s[2], x))
  BY NotAfterSelf
<1>5. SigPart(K, src, LockEnv, t, s, x)
  BY <1>k, <1>4 DEF SigPart
<1> QED  BY <1>3, <1>4, <1>5

(* ----- a task: its status, and what it does to the context ----- *)

\* What is known of the context once the implicit dependencies are settled.
StatusOK(K, c, d, t) ==
  /\ OpenShape(d) /\ ContextOK(K, src, LockEnv, d) /\ BuildContextOK(d)
  /\ \A f \in Sources : Found(c, f) => Found(d, f)
  /\ SourcesCurrent(src, c) => SourcesCurrent(src, d)
  /\ \A o \in Built : BuildNode(o) \in DOMAIN d.node_sigs <=> BuildNode(o) \in DOMAIN c.node_sigs
  /\ \A o \in Built : BuildNode(o) \in DOMAIN c.node_sigs => d.node_sigs[BuildNode(o)] = c.node_sigs[BuildNode(o)]
  /\ d.task_sigs = c.task_sigs
  /\ Tasks[t].scan /\ Signature(d, t, LockEnv) # NoSig =>
       /\ t \in DOMAIN d.node_deps
       /\ \E x \in Versions :
            /\ NotAfter(x, src)
            /\ Explains(t, x, Names(NodeDeps(d, t)))
            /\ UpTo(Signature(d, t, LockEnv).imp, x)

LEMMA StatusContext ==
  ASSUME NEW K, src \in Versions, NotOlderThan(LockEnv, LockEnv),
         NEW c, OpenShape(c), ContextOK(K, src, LockEnv, c), BuildContextOK(c), NEW t \in TaskIds,
         NEW d, d = SigImplicitDeps(c, t, src)
  PROVE  StatusOK(K, c, d, t)
<1>1. CASE ~Tasks[t].scan
  <2>1. d = c
    BY <1>1 DEF SigImplicitDeps
  <2> QED  BY <1>1, <2>1 DEF StatusOK
<1>2. CASE Tasks[t].scan /\ SameDeps(c, t)
  <2>1. d = c
    BY <1>2 DEF SigImplicitDeps
  <2>2. t \in DOMAIN c.task_sigs /\ c.task_sigs[t].imp = ComputeSigImplicitDeps(c, t)
    BY <1>2 DEF SameDeps
  <2>3. t \in DOMAIN c.node_deps
    BY <1>2, <2>2 DEF ContextOK, SigsOK
  <2>4. PICK x \in Versions : NotAfter(x, src) /\ Explains(t, x, Names(c.node_deps[t])) /\ UpTo(c.task_sigs[t].imp, x)
    BY <2>2, <2>3 DEF ContextOK, DepsOK
  <2>5. NodeDeps(c, t) = c.node_deps[t]
    BY <2>3 DEF NodeDeps
  <2>6. Signature(c, t, LockEnv) # NoSig => Signature(c, t, LockEnv).imp = ComputeSigImplicitDeps(c, t)
    BY <1>2, SignatureIs
  <2> QED  BY <2>1, <2>2, <2>3, <2>4, <2>5, <2>6 DEF StatusOK
<1>3. CASE Tasks[t].scan /\ ~SameDeps(c, t)
  <2>0. d = Scan(c, t, src)
    BY <1>3 DEF SigImplicitDeps
  <2>1. /\ OpenShape(d) /\ ContextOK(K, src, LockEnv, d)
        /\ d.declared = c.declared /\ d.task_sigs = c.task_sigs /\ d.listing = c.listing
        /\ SourcesCurrent(src, c) => SourcesCurrent(src, d)
        /\ t \in DOMAIN d.node_deps
        /\ Explains(t, src, Names(d.node_deps[t]))
        /\ \A f \in Sources : Found(c, f) => Found(d, f)
        /\ \A o \in Built : BuildNode(o) \in DOMAIN d.node_sigs <=> BuildNode(o) \in DOMAIN c.node_sigs
        /\ \A o \in Built : BuildNode(o) \in DOMAIN c.node_sigs => d.node_sigs[BuildNode(o)] = c.node_sigs[BuildNode(o)]
    BY <1>3, <2>0, Scanned DEF BuildContextOK
  <2>2. BuildContextOK(d)
    BY <2>1, FilesApart DEF BuildContextOK
  <2>3. NodeDeps(d, t) = d.node_deps[t] /\ NotAfter(src, src)
    BY <2>1, NotAfterSelf DEF NodeDeps
  <2>4. ASSUME Signature(d, t, LockEnv) # NoSig PROVE UpTo(Signature(d, t, LockEnv).imp, src)
    <3>1. PICK s : s = Signature(d, t, LockEnv).sig
      OBVIOUS
    <3>2. SignatureFacts(K, src, LockEnv, d, t, s)
      BY <2>1, <2>4, <3>1, SignatureKnown DEF ContextOK
    <3>3. Signature(d, t, LockEnv).imp = s[2]
      BY <2>4, <3>1, SignatureIs
    <3> QED  BY <1>3, <3>2, <3>3 DEF SignatureFacts
  <2> QED  BY <2>1, <2>2, <2>3, <2>4 DEF StatusOK
<1> QED  BY <1>1, <1>2, <1>3

\* What is known of the context d once t has run in c.
RunContextOK(L, c, d, t, sig) ==
  /\ OpenShape(d) /\ ContextOK(L, src, LockEnv, d) /\ BuildContextOK(d)
  /\ d.childs = c.childs /\ d.listing = c.listing
  /\ \A n \in DOMAIN d.node_sigs : n[1] \notin Outputs(t) => n \in DOMAIN c.node_sigs /\ d.node_sigs[n] = c.node_sigs[n]
  /\ DOMAIN c.node_sigs \subseteq DOMAIN d.node_sigs
  /\ \A o \in Outputs(t) : BuildNode(o) \in DOMAIN d.node_sigs /\ d.node_sigs[BuildNode(o)] = sig

\* After a run: its outputs and the task are signed with the new signature.
LEMMA PostRunContext ==
  ASSUME NEW K, NEW L, K \subseteq L, src \in Versions, NotOlderThan(LockEnv, LockEnv),
         NEW c, OpenShape(c), ContextOK(K, src, LockEnv, c), BuildContextOK(c), NEW t \in TaskIds,
         NEW s, s.imp = s.sig[2], NEW text, \A o \in Outputs(t) : <<o, s.sig, text>> \in L,
         Tasks[t].scan =>
           /\ t \in DOMAIN c.node_deps
           /\ \E x \in Versions : NotAfter(x, src) /\ Explains(t, x, Names(NodeDeps(c, t))) /\ UpTo(s.imp, x),
         NEW d, d = PostRun(c, t, s)
  PROVE  RunContextOK(L, c, d, t, s.sig)
<1>m. Sources \cap Built = {} /\ CfgFile \in Built /\ Outputs(t) \subseteq Built /\ CfgFile \notin Outputs(t)
  BY FilesApart, OutputsAssumption DEF Built, Outputs
<1>N. PICK N : N = OutputNodes(t)
  OBVIOUS
<1>n. N = {BuildNode(o) : o \in Outputs(t)}
  BY <1>N DEF OutputNodes, Outputs
<1>0. DOMAIN c = StoredFields \cup {"scanned", "listing"}
  BY DEF OpenShape
<1>1. /\ d.node_sigs = Update(c.node_sigs, [n \in N |-> s.sig])
      /\ d.task_sigs = Update(c.task_sigs, [u \in {t} |-> s])
      /\ d.childs = c.childs /\ d.id_nodes = c.id_nodes /\ d.declared = c.declared /\ d.node_deps = c.node_deps
      /\ d.scanned = c.scanned /\ d.listing = c.listing /\ DOMAIN d = DOMAIN c
  BY <1>0, <1>N DEF PostRun, StoredFields
<1>2. /\ DOMAIN d.node_sigs = N \cup DOMAIN c.node_sigs
      /\ \A n \in N : d.node_sigs[n] = s.sig
      /\ \A n \in DOMAIN c.node_sigs \ N : d.node_sigs[n] = c.node_sigs[n]
  BY <1>1 DEF Update
<1>3. /\ DOMAIN d.task_sigs = {t} \cup DOMAIN c.task_sigs /\ d.task_sigs[t] = s
      /\ \A u \in DOMAIN c.task_sigs \ {t} : d.task_sigs[u] = c.task_sigs[u]
  BY <1>1 DEF Update
<1>4. OpenShape(d)
  BY <1>1 DEF OpenShape, Numbered
<1>5. ASSUME NEW n \in DOMAIN d.node_sigs, n[1] \notin Outputs(t)
      PROVE  n \in DOMAIN c.node_sigs /\ d.node_sigs[n] = c.node_sigs[n]
  <2>1. n \notin N
    BY <1>5, <1>n DEF BuildNode
  <2> QED  BY <1>2, <2>1
<1>6. ASSUME NEW o \in Outputs(t)
      PROVE  BuildNode(o) \in DOMAIN d.node_sigs /\ d.node_sigs[BuildNode(o)] = s.sig
  BY <1>2, <1>n
<1>7. NotAfter(src, src)
  BY NotAfterSelf
<1>8. ContextOK(L, src, LockEnv, c)
  BY <1>7, StaysContext
<1>9. NodesOK(L, src, LockEnv, d)
  <2> SUFFICES ASSUME NEW n \in DOMAIN d.node_sigs
               PROVE  /\ n[1] \in Sources \cup Built /\ n = NodeOf(d, n[1]) /\ Known(d, n[1])
                      /\ KnownSig(L, src, LockEnv, n[1], d.node_sigs[n])
    BY DEF NodesOK
  <2>1. CASE n \in N
    <3>1. PICK o \in Outputs(t) : n = BuildNode(o)
      BY <1>n, <2>1
    <3>2. n[1] = o /\ o \in Built /\ o \notin Sources /\ o # CfgFile
      BY <1>m, <3>1 DEF BuildNode
    <3>3. n = NodeOf(d, n[1])
      BY <3>1, <3>2 DEF NodeOf
    <3>4. Known(d, n[1])
      BY <1>1, <3>2 DEF Known, BuildContextOK
    <3>5. KnownSig(L, src, LockEnv, o, s.sig)
      <4>1. PICK r \in L : r = <<o, s.sig, text>>
        OBVIOUS
      <4>2. r[1] = o /\ r[2] = s.sig
        BY <4>1
      <4> QED  BY <3>2, <4>2 DEF KnownSig
    <3> QED  BY <1>2, <2>1, <3>2, <3>3, <3>4, <3>5
  <2>2. CASE n \notin N
    <3>1. n \in DOMAIN c.node_sigs /\ d.node_sigs[n] = c.node_sigs[n]
      BY <1>2, <2>2
    <3>2. /\ n[1] \in Sources \cup Built /\ n = NodeOf(c, n[1]) /\ Known(c, n[1])
          /\ KnownSig(L, src, LockEnv, n[1], c.node_sigs[n])
      BY <1>8, <3>1 DEF ContextOK, NodesOK
    <3>3. NodeOf(d, n[1]) = NodeOf(c, n[1]) /\ (Known(c, n[1]) => Known(d, n[1]))
      BY <1>1 DEF NodeOf, FileNode, Known, Found
    <3> QED  BY <3>1, <3>2, <3>3
  <2> QED  BY <2>1, <2>2
<1>10. SigsOK(L, src, LockEnv, d)
  <2> SUFFICES ASSUME NEW u \in DOMAIN d.task_sigs
               PROVE  /\ u \in TaskIds
                      /\ d.task_sigs[u].imp = d.task_sigs[u].sig[2]
                      /\ \A o \in Outputs(u) : KnownSig(L, src, LockEnv, o, d.task_sigs[u].sig)
                      /\ Tasks[u].scan => u \in DOMAIN d.node_deps
    BY DEF SigsOK
  <2>1. CASE u = t
    <3>1. ASSUME NEW o \in Outputs(t) PROVE KnownSig(L, src, LockEnv, o, s.sig)
      <4>1. PICK r \in L : r = <<o, s.sig, text>>
        OBVIOUS
      <4>2. r[1] = o /\ r[2] = s.sig /\ o \notin Sources /\ o # CfgFile
        BY <1>m, <4>1
      <4> QED  BY <4>2 DEF KnownSig
    <3> QED  BY <1>1, <1>3, <2>1, <3>1
  <2>2. CASE u # t
    <3>1. u \in DOMAIN c.task_sigs /\ d.task_sigs[u] = c.task_sigs[u]
      BY <1>3, <2>2
    <3> QED  BY <1>1, <1>8, <3>1 DEF ContextOK, SigsOK
  <2> QED  BY <2>1, <2>2
<1>11. DepsOK(src, d)
  <2> SUFFICES ASSUME NEW u \in DOMAIN d.node_deps
               PROVE  /\ u \in TaskIds /\ Tasks[u].scan
                      /\ \E x \in Versions :
                           /\ NotAfter(x, src)
                           /\ Explains(u, x, Names(d.node_deps[u]))
                           /\ u \in DOMAIN d.task_sigs => UpTo(d.task_sigs[u].imp, x)
    BY DEF DepsOK
  <2>1. u \in DOMAIN c.node_deps /\ d.node_deps[u] = c.node_deps[u] /\ u \in TaskIds /\ Tasks[u].scan
    BY <1>1, <1>8 DEF ContextOK, DepsOK
  <2>2. CASE u = t
    <3>1. NodeDeps(c, t) = d.node_deps[u]
      BY <2>1, <2>2 DEF NodeDeps
    <3> QED  BY <1>3, <2>1, <2>2, <3>1
  <2>3. CASE u # t
    <3>1. u \in DOMAIN d.task_sigs => u \in DOMAIN c.task_sigs /\ d.task_sigs[u] = c.task_sigs[u]
      BY <1>3, <2>3
    <3> QED  BY <1>8, <2>1, <3>1 DEF ContextOK, DepsOK
  <2> QED  BY <2>2, <2>3
<1>12. BuildContextOK(d)
  <2>1. BuildNode(CfgFile) \notin N
    BY <1>m, <1>n DEF BuildNode
  <2> QED  BY <1>1, <1>2, <2>1 DEF BuildContextOK
<1> QED  BY <1>1, <1>2, <1>4, <1>5, <1>6, <1>9, <1>10, <1>11, <1>12 DEF ContextOK, RunContextOK

\* A task whose signature some output has was made from what there is now.
LEMMA NowText ==
  ASSUME KeepsIncludes, NEW K, src \in Versions, HeaderOK(LockEnv), NotOlderThan(LockEnv, LockEnv),
         NEW c, NodesOK(K, src, LockEnv, c), BuildContextOK(c), SourcesCurrent(src, c),
         \A f \in AllInputs \ Built : Found(c, f),
         NEW t \in TaskIds, \A u \in 1..(t - 1) : Settled(K, c, u),
         Signature(c, t, LockEnv) # NoSig,
         NEW T, PairOK(K, src, LockEnv, t, Signature(c, t, LockEnv).sig, T)
  PROVE  T = Compile(t, src, out, LockEnv) /\ Compiles(t, src, out)
<1>m. Sources \cap Built = {} /\ Elements(Tasks[t].inputs) \subseteq Sources \cup Built
  BY FilesApart, FilesAssumption
<1>1. CurrentNodes(src, LockEnv, out, c)
  <2>1. ASSUME NEW n \in DOMAIN c.node_sigs, n[1] \in Sources PROVE c.node_sigs[n] = FileText(src, n[1])
    <3>1. n = NodeOf(c, n[1]) /\ Known(c, n[1]) /\ n[1] \notin Built
      BY <1>m, <2>1 DEF NodesOK
    <3>2. n = FileNode(c, n[1]) /\ Found(c, n[1])
      BY <3>1 DEF NodeOf, Known
    <3> QED  BY <2>1, <3>2 DEF SourcesCurrent
  <2> QED  BY <2>1 DEF CurrentNodes, BuildContextOK, CfgSig, HeaderOK
<1>2. CurrentOutputs(K, out, c, t)
  BY DEF CurrentOutputs, Settled
<1>3. ASSUME NEW f \in Elements(Tasks[t].inputs) \ Built PROVE Exists(src, f)
  <2>1. f \in Sources /\ f \in AllInputs
    BY <1>m, <1>3 DEF AllInputs
  <2> QED  BY <2>1 DEF SourcesCurrent
<1> QED  BY <1>1, <1>2, <1>3, OnlyText

(* ----- what a step does to the database and the pairs ----- *)

GhostInv(K) == StoreInv(K) /\ BuildInv /\ RunInv /\ SettledInv(K)

LEMMA StoreFrame ==
  ASSUME NEW K, StoreInv(K), src' = src, lock' = lock, db' \in {db, None}, folder' \in {folder, TRUE},
         \A o \in Built \ {CfgFile} : out'[o] \in {out[o], None},
         pc' \in Holding => lock # None /\ ContextSound(K)'
  PROVE  StoreInv(K)'
<1>0. LockEnv' = LockEnv /\ \A t \in TaskIds : Outputs(t) \subseteq Built \ {CfgFile}
  BY OutputsAssumption DEF LockEnv, Built, Outputs
<1>s. PICK sv : sv = src'
  OBVIOUS
<1>e. PICK env : env = LockEnv'
  OBVIOUS
<1>1. PairsInv(K)'
  <2>0. ASSUME NEW r \in K
        PROVE  /\ r[2] # SIG_NIL
               /\ \E t \in TaskIds : r[1] \in Outputs(t) /\ PairOK(K, sv, env, t, r[2], r[3])
               /\ out'[r[1]] # None => <<r[1], r[2], out'[r[1]].text>> \in K
    <3>1. PICK t \in TaskIds : r[1] \in Outputs(t) /\ PairOK(K, src, LockEnv, t, r[2], r[3])
      BY DEF StoreInv, PairsInv
    <3>2. out'[r[1]] # None => out'[r[1]] = out[r[1]]
      BY <1>0, <3>1
    <3>3. PairOK(K, sv, env, t, r[2], r[3])
      BY <1>0, <1>s, <1>e, <3>1
    <3> QED  BY <3>1, <3>2, <3>3 DEF StoreInv, PairsInv
  <2> QED  BY <1>s, <1>e, <2>0 DEF PairsInv
<1>2. DbOK(K, src, LockEnv)'
  BY <1>0 DEF StoreInv, DbOK
<1>3. lock' = None => K = {} /\ db' = None /\ pc' \notin Holding /\ \A o \in Built \ {CfgFile} : out'[o] = None
  BY DEF StoreInv
<1>4. folder' \in BOOLEAN
  BY DEF StoreInv
<1> QED  BY <1>1, <1>2, <1>3, <1>4 DEF StoreInv

LEMMA ContextFrame ==
  ASSUME NEW K, StoreInv(K), pc \in Holding, UNCHANGED <<src, lock, ctx, folder>>
  PROVE  lock # None /\ ContextSound(K)'
<1>1. LockEnv' = LockEnv
  BY DEF LockEnv
<1> QED  BY <1>1 DEF StoreInv, ContextSound

\* Without a context at hand there is nothing more to say.
LEMMA NotHolding ==
  ASSUME NEW K, StoreInv(K)', pc' \notin Holding
  PROVE  GhostInv(K)'
  BY DEF GhostInv, BuildInv, RunInv, SettledInv, Building, Holding

\* The steps that end a command, or come before its context is loaded.
LEMMA QuietStep ==
  ASSUME FilesInv, NEW K, StoreInv(K), ~setting.removes,
         \/ (\E line \in CommandLines : Type(line)) \/ NextCommand \/ Shutdown
         \/ Configure \/ Store \/ Stored \/ CheckConfigured \/ NotLoaded
         \/ InstallMissing \/ InstallFails \/ Post \/ Kill \/ KillInDistclean
         \/ (\E o \in Built : RemoveOutput(o)) \/ RemoveFolder
  PROVE  GhostInv(K)'
<1> USE DEF user, history, configured, Ends, Goto, Fails, NotInstalled, Faulty
<1>1. CASE (\E line \in CommandLines : Type(line)) \/ NextCommand \/ Shutdown \/ Store \/ Stored \/ CheckConfigured
           \/ NotLoaded \/ InstallMissing \/ InstallFails \/ Post \/ Kill
  <2>1. ASSUME \E line \in CommandLines : Type(line) PROVE UNCHANGED <<src, lock, db, folder, out>> /\ pc' \notin Holding
    BY <2>1 DEF Type, Holding
  <2>2. NextCommand => UNCHANGED <<src, lock, db, folder, out>> /\ pc' \notin Holding
    BY DEF NextCommand, FirstStep, Holding
  <2>3. Shutdown => UNCHANGED <<src, lock, db, folder, out>> /\ pc' \notin Holding
    BY DEF Shutdown, Holding
  <2>4. Store => UNCHANGED <<src, lock, db, folder, out>> /\ pc' \notin Holding
    BY DEF Store, Holding
  <2>5. Stored => UNCHANGED <<src, lock, db, folder, out>> /\ pc' \notin Holding
    BY DEF Stored, Holding
  <2>6. CheckConfigured => UNCHANGED <<src, lock, db, folder, out>> /\ pc' \notin Holding
    BY DEF CheckConfigured, Holding
  <2>7. NotLoaded => UNCHANGED <<src, lock, db, folder, out>> /\ pc' \notin Holding
    BY DEF NotLoaded, Holding
  <2>8. InstallMissing => UNCHANGED <<src, lock, db, folder, out>> /\ pc' \notin Holding
    BY DEF InstallMissing, Holding
  <2>9. InstallFails => UNCHANGED <<src, lock, db, folder, out>> /\ pc' \notin Holding
    BY DEF InstallFails, Holding
  <2>10. Post => UNCHANGED <<src, lock, db, folder, out>> /\ pc' \notin Holding
    BY DEF Post, Holding
  <2>11. Kill => UNCHANGED <<src, lock, db, folder, out>> /\ pc' \notin Holding
    BY DEF Kill, Holding
  <2>12. UNCHANGED <<src, lock, db, folder, out>> /\ pc' \notin Holding
    BY <1>1, <2>1, <2>2, <2>3, <2>4, <2>5, <2>6, <2>7, <2>8, <2>9, <2>10, <2>11
  <2> QED  BY <2>12, StoreFrame, NotHolding
<1>2. CASE Configure
  <2>1. UNCHANGED <<src, lock, db, folder>> /\ pc' = "store"
    BY <1>2 DEF Configure
  <2>2. \A o \in Built \ {CfgFile} : out'[o] \in {out[o], None}
    BY <1>2 DEF Configure, FilesInv
  <2>3. pc' \notin Holding
    BY <2>1 DEF Holding
  <2> QED  BY <2>1, <2>2, <2>3, StoreFrame, NotHolding
<1>3. CASE KillInDistclean
  <2>1. UNCHANGED <<src, lock, folder>> /\ pc' = "idle" /\ db' \in {db, None}
    BY <1>3 DEF KillInDistclean
  <2>2. out' = out \/ out' = [o \in Built |-> None]
    BY <1>3 DEF KillInDistclean
  <2>3. \A o \in Built \ {CfgFile} : out'[o] \in {out[o], None}
    BY <2>2
  <2>4. pc' \notin Holding
    BY <2>1 DEF Holding
  <2> QED  BY <2>1, <2>3, <2>4, StoreFrame, NotHolding
<1>4. CASE \E o \in Built : RemoveOutput(o)
  <2>1. UNCHANGED <<src, lock, db, folder>> /\ pc' = "idle"
    BY <1>4 DEF RemoveOutput
  <2>2. \E o \in Built : out' = [out EXCEPT ![o] = None]
    BY <1>4 DEF RemoveOutput
  <2>3. \A o \in Built \ {CfgFile} : out'[o] \in {out[o], None}
    BY <2>2 DEF FilesInv
  <2>4. pc' \notin Holding
    BY <2>1 DEF Holding
  <2> QED  BY <2>1, <2>3, <2>4, StoreFrame, NotHolding
<1>5. CASE RemoveFolder
  BY <1>5 DEF RemoveFolder
<1> QED  BY <1>1, <1>2, <1>3, <1>4, <1>5

\* Sources and configuration get newer: an edit, a new lock file.
LEMMA NewerStore ==
  ASSUME NEW K, StoreInv(K), src \in Versions, src' \in Versions, NotAfter(src, src'),
         UNCHANGED <<db, folder, out>>, lock' # None,
         K # {} \/ db # None \/ pc \in Holding => NotOlderThan(LockEnv', LockEnv),
         pc' \in Holding => pc \in Holding /\ ctx' = ctx
  PROVE  StoreInv(K)'
<1>s. PICK sv \in Versions : sv = src'
  OBVIOUS
<1>e. PICK env : env = LockEnv'
  OBVIOUS
<1>1. PairsInv(K)'
  <2> SUFFICES ASSUME NEW r \in K
               PROVE  /\ r[2] # SIG_NIL
                      /\ \E t \in TaskIds : r[1] \in Outputs(t) /\ PairOK(K, sv, env, t, r[2], r[3])
                      /\ out[r[1]] # None => <<r[1], r[2], out[r[1]].text>> \in K
    BY <1>s, <1>e DEF PairsInv
  <2>1. PICK t \in TaskIds : r[1] \in Outputs(t) /\ PairOK(K, src, LockEnv, t, r[2], r[3])
    BY DEF StoreInv, PairsInv
  <2>2. NotOlderThan(env, LockEnv) /\ NotAfter(src, sv)
    BY <1>e, <1>s
  <2>3. PairOK(K, sv, env, t, r[2], r[3])
    BY <2>1, <2>2, StaysPair
  <2> QED  BY <2>1, <2>3 DEF StoreInv, PairsInv
<1>2. ASSUME NEW c, ContextOK(K, src, LockEnv, c), db # None \/ pc \in Holding
      PROVE  ContextOK(K, sv, env, c)
  <2>2. NotOlderThan(env, LockEnv) /\ NotAfter(src, sv)
    BY <1>e, <1>s, <1>2
  <2> QED  BY <1>2, <2>2, StaysContext
<1>3. DbOK(K, src, LockEnv)'
  <2>1. DbOK(K, sv, env)
    BY <1>2 DEF StoreInv, DbOK
  <2> QED  BY <1>s, <1>e, <2>1 DEF DbOK
<1>4. ASSUME pc' \in Holding PROVE ContextSound(K)'
  <2>1. OpenShape(ctx) /\ ContextOK(K, sv, env, ctx) /\ (~folder => Childless(ctx))
    BY <1>2, <1>4 DEF StoreInv, ContextSound
  <2> QED  BY <1>s, <1>e, <1>4, <2>1 DEF ContextSound
<1> QED  BY <1>1, <1>3, <1>4 DEF StoreInv

(* ----- what a step does to the context ----- *)

LEMMA LoadStep ==
  ASSUME NEW K, GhostInv(K), WafIInv, ConfigInv, src \in Versions, LoadForClean \/ LoadForBuild
  PROVE  GhostInv(K)'
<1> USE DEF user, history, configured, Ends
<1>0. /\ pc = "load" /\ lock # None /\ envfile # None
      /\ UNCHANGED <<src, out, lock, db>> /\ folder' \in {folder, TRUE}
  BY DEF LoadForClean, LoadForBuild, CannotLoad
<1>1. HeaderOK(LockEnv) /\ LockEnv' = LockEnv /\ envfile.table = LockEnv
  BY <1>0, LockEnvIs DEF Configuring, ConfigInv, LockEnv
<1>2. DbOK(K, src, LockEnv) /\ StoreInv(K) /\ folder \in BOOLEAN
  BY DEF GhostInv, StoreInv
<1>sv. PICK sv \in Versions : sv = src
  OBVIOUS
<1>env. PICK env : env = LockEnv
  OBVIOUS
<1>3. CASE LoadForClean
  <2>0. PICK c : c = LoadEnvs(Load)
    OBVIOUS
  <2>1. ctx' = c /\ pc' = "clean" /\ p' = p /\ folder' = folder /\ p.command = "clean"
    BY <1>3, <2>0 DEF LoadForClean
  <2>2. OpenShape(c) /\ ContextOK(K, sv, env, c) /\ (~folder => Childless(c))
    BY <1>1, <1>2, <1>sv, <1>env, <2>0, LoadedContext
  <2>3. ContextSound(K)'
    BY <1>0, <1>1, <1>sv, <1>env, <2>1, <2>2 DEF ContextSound
  <2>4. StoreInv(K)'
    BY <1>0, <1>2, <2>3, StoreFrame
  <2> QED  BY <2>1, <2>4 DEF GhostInv, BuildInv, RunInv, SettledInv, Building
<1>4. CASE LoadForBuild
  <2>0. PICK c : c = Posted(LoadEnvs(Load))
    OBVIOUS
  <2>1. CASE ~Complete(c)
    <3>1. pc' = "idle"
      BY <1>4, <2>0, <2>1 DEF LoadForBuild
    <3>2. pc' \notin Holding
      BY <3>1 DEF Holding
    <3>3. StoreInv(K)'
      BY <1>0, <1>2, <3>2, StoreFrame
    <3> QED  BY <3>2, <3>3, NotHolding
  <2>2. CASE Complete(c)
    <3>1. /\ ctx' = c /\ pc' = "status" /\ folder' = TRUE
          /\ p' = [p EXCEPT !.env = envfile.table, !.todo = 1]
      BY <1>4, <2>0, <2>2 DEF LoadForBuild
    <3>2. /\ OpenShape(c) /\ ContextOK(K, sv, env, c) /\ BuildContextOK(c) /\ SourcesCurrent(sv, c)
          /\ \A o \in Built \ {CfgFile} : BuildNode(o) \in DOMAIN c.node_sigs => out[o] # None
      BY <1>1, <1>2, <1>sv, <1>env, <2>0, PostedContext
    <3>3. ContextSound(K)'
      BY <1>0, <1>1, <1>sv, <1>env, <3>1, <3>2 DEF ContextSound
    <3>4. StoreInv(K)'
      BY <1>0, <1>2, <3>3, StoreFrame
    <3>5. BuildContextOK(ctx)'
      BY <1>0, <3>1, <3>2 DEF BuildContextOK, CfgSig
    <3>6. \A f \in AllInputs \ Built : Found(c, f)
      BY <2>2 DEF Complete
    <3>7. BuildInv'
      <4>0. {"env", "edited", "error"} \subseteq DOMAIN p
        BY DEF WafIInv, ProcessInv, Idle
      <4>1. p'.env = LockEnv' /\ p'.edited = p.edited /\ p'.error = p.error
        BY <1>1, <3>1, <4>0
      <4> QED  BY <1>0, <1>1, <1>sv, <3>1, <3>2, <3>5, <3>6, <4>1 DEF BuildInv
    <3>8. RunInv'
      BY <3>1 DEF RunInv
    <3>9. SettledInv(K)'
      <4>1. p'.todo = 1
        BY <3>1 DEF WafIInv, ProcessInv, Idle
      <4> QED  BY <3>1, <4>1 DEF SettledInv, DoneTasks, TaskIds
    <3> QED  BY <3>4, <3>7, <3>8, <3>9 DEF GhostInv
  <2> QED  BY <2>1, <2>2
<1> QED  BY <1>3, <1>4

\* The steps of the loop that leave the context alone.
LEMMA LoopFrame ==
  ASSUME NEW K, GhostInv(K), StoreInv(K)', UNCHANGED <<src, lock, out, ctx>>,
         p'.env = p.env, p'.edited = p.edited, p'.is_install = p.is_install, p.error => p'.error,
         Building' => Building, pc' \notin {"run", "clean"},
         Building' /\ ~p'.error /\ p.is_install # UNINSTALL => DoneTasks' \subseteq DoneTasks
  PROVE  GhostInv(K)'
<1>1. BuildInv'
  <2>1. LockEnv' = LockEnv /\ CfgSig' = CfgSig
    BY DEF LockEnv, CfgSig
  <2>2. BuildContextOK(ctx) => BuildContextOK(ctx)'
    BY <2>1 DEF BuildContextOK
  <2>3. SourcesCurrent(src, ctx) => SourcesCurrent(src, ctx)'
    BY DEF SourcesCurrent
  <2> QED  BY <2>1, <2>2, <2>3 DEF GhostInv, BuildInv
<1>2. RunInv'
  BY DEF RunInv
<1>3. SettledInv(K)'
  <2> SUFFICES ASSUME Building', ~p'.edited, ~p'.error, p'.is_install # UNINSTALL, NEW u \in DoneTasks'
               PROVE  Settled(K, ctx, u)'
    BY DEF SettledInv
  <2>1. Settled(K, ctx, u)
    BY DEF GhostInv, SettledInv
  <2> QED  BY <2>1 DEF Settled
<1> QED  BY <1>1, <1>2, <1>3 DEF GhostInv

\* What the steps of the loop that leave the context alone do.
LEMMA LoopProgress ==
  ASSUME WafIInv, Finish \/ Install \/ Uninstall \/ StatusUninstall \/ TasksDone \/ Unlink \/ Interrupt
  PROVE  /\ UNCHANGED <<src, lock, out, folder, ctx>> /\ db' \in {db, None}
         /\ pc \in {"status", "run", "finish", "unlink"} /\ pc' \in {"status", "finish", "unlink", "rename", "post"}
         /\ p'.env = p.env /\ p'.edited = p.edited /\ p'.is_install = p.is_install /\ p'.command = p.command
         /\ p.error => p'.error
         /\ Building' => Building
         /\ ~p'.error /\ p.is_install # UNINSTALL => DoneTasks' \subseteq DoneTasks
<1> USE DEF user, history, configured, Goto, Faulty
<1>p. /\ DOMAIN p = DOMAIN Idle /\ {"env", "edited", "error", "is_install", "command", "todo"} \subseteq DOMAIN Idle
      /\ p.todo \in 0..(Len(Tasks) + 1) /\ (pc = "status" => p.todo # 0) /\ Len(Tasks) \in Nat
  BY BuildContextAssumption DEF WafIInv, ProcessInv, Idle
<1>0. /\ UNCHANGED <<src, lock, out, folder, ctx>> /\ db' \in {db, None}
      /\ pc \in {"status", "run", "finish", "unlink"} /\ pc' \in {"status", "finish", "unlink", "rename", "post"}
  BY DEF Finish, Install, Uninstall, StatusUninstall, TasksDone, Unlink, Interrupt, AfterFinish, NextTask
<1>1. /\ p'.env = p.env /\ p'.edited = p.edited /\ p'.is_install = p.is_install /\ p'.command = p.command
      /\ p.error => p'.error
  BY <1>p DEF Finish, Install, Uninstall, StatusUninstall, TasksDone, Unlink, Interrupt, NextTask
<1>2. Building' => Building
  <2>1. CASE pc = "unlink"
    <3>1. Unlink /\ pc' = "rename"
      BY <2>1 DEF Finish, Install, Uninstall, StatusUninstall, TasksDone, Unlink, Interrupt
    <3> QED  BY <1>1, <2>1, <3>1 DEF Building
  <2>2. CASE pc # "unlink"
    BY <1>0, <2>2 DEF Building
  <2> QED  BY <2>1, <2>2
<1>3. ASSUME ~p'.error, p.is_install # UNINSTALL PROVE DoneTasks' \subseteq DoneTasks
  <2> SUFFICES ASSUME NEW u \in TaskIds, pc' \in {"status", "run"} => u < p'.todo, pc' = "finish" => u <= p'.todo
               PROVE  (pc \in {"status", "run"} => u < p.todo) /\ (pc = "finish" => u <= p.todo)
    BY DEF DoneTasks
  <2>u. u \in Nat /\ u <= Len(Tasks)
    BY <1>p DEF TaskIds
  <2>1. CASE Finish \/ Install \/ Uninstall
    <3>1. pc = "finish" /\ p' = [p EXCEPT !.todo = @ + 1, !.sig = NoSig] /\ (~p.error => pc' = "status")
      BY <2>1 DEF Finish, Install, Uninstall, NextTask, AfterFinish
    <3>2. p'.todo = p.todo + 1 /\ ~p.error
      BY <1>1, <1>3, <1>p, <3>1
    <3> QED  BY <1>p, <2>u, <3>1, <3>2
  <2>2. CASE StatusUninstall
    BY <1>3, <2>2 DEF StatusUninstall
  <2>3. CASE TasksDone
    <3>1. pc = "status" /\ p.todo = Len(Tasks) + 1
      BY <1>p, <2>3 DEF TasksDone, TaskIds
    <3> QED  BY <2>u, <1>p, <3>1
  <2>4. CASE Unlink
    BY <2>4 DEF Unlink
  <2>5. CASE Interrupt
    BY <1>3, <1>p, <2>5 DEF Interrupt
  <2> QED  BY <2>1, <2>2, <2>3, <2>4, <2>5
<1> QED  BY <1>0, <1>1, <1>2, <1>3

LEMMA LoopStep ==
  ASSUME NEW K, GhostInv(K), WafIInv,
         Finish \/ Install \/ Uninstall \/ StatusUninstall \/ TasksDone \/ Unlink \/ Interrupt
  PROVE  GhostInv(K)'
<1>1. pc \in Holding /\ StoreInv(K)
  BY LoopProgress DEF Holding, GhostInv
<1>2. lock # None /\ ContextSound(K)'
  BY <1>1, LoopProgress, ContextFrame
<1>3. StoreInv(K)'
  BY <1>1, <1>2, LoopProgress, StoreFrame
<1> QED  BY <1>3, LoopProgress, LoopFrame

LEMMA RenameStep ==
  ASSUME NEW K, GhostInv(K), Rename
  PROVE  GhostInv(K)'
<1> USE DEF user, history, configured, Ends
<1>0. /\ UNCHANGED <<src, lock, out, folder>> /\ pc = "rename" /\ db' = Saved(ctx)
      /\ \/ pc' = "idle"
         \/ pc' = "next" /\ UNCHANGED <<p, ctx>>
         \/ pc' = "post" /\ p.command # "clean" /\ UNCHANGED <<p, ctx>>
  BY DEF Rename
<1>1. StoreInv(K) /\ pc \in Holding /\ lock # None /\ ContextSound(K) /\ LockEnv' = LockEnv
  BY <1>0 DEF GhostInv, StoreInv, Holding, LockEnv
<1>2. PICK d : d = Saved(ctx)
  OBVIOUS
<1>3. /\ DOMAIN d = StoredFields /\ d.childs = ctx.childs /\ d.id_nodes = ctx.id_nodes /\ d.declared = ctx.declared
      /\ d.node_sigs = ctx.node_sigs /\ d.node_deps = ctx.node_deps /\ d.task_sigs = ctx.task_sigs
  BY <1>2 DEF Saved, EmptyContext, StoredFields
<1>sv. PICK sv : sv = src
  OBVIOUS
<1>env. PICK env : env = LockEnv
  OBVIOUS
<1>4. StoredShape(d) /\ ContextOK(K, sv, env, d) /\ (~folder => Childless(d))
  <2>1. StoredShape(d)
    BY <1>1, <1>3 DEF ContextSound, OpenShape, StoredShape, Numbered
  <2>2. \A f : NodeOf(d, f) = NodeOf(ctx, f) /\ (Known(d, f) <=> Known(ctx, f))
    BY <1>3 DEF NodeOf, FileNode, Known, Found
  <2>3. NodesOK(K, sv, env, d)
    BY <1>1, <1>3, <1>sv, <1>env, <2>2 DEF ContextSound, ContextOK, NodesOK
  <2>4. SigsOK(K, sv, env, d) /\ DepsOK(sv, d)
    BY <1>1, <1>3, <1>sv, <1>env DEF ContextSound, ContextOK, SigsOK, DepsOK
  <2>5. ~folder => Childless(d)
    BY <1>1, <1>3 DEF ContextSound, Childless
  <2> QED  BY <2>1, <2>3, <2>4, <2>5 DEF ContextOK
<1>5. DbOK(K, src, LockEnv)'
  BY <1>0, <1>1, <1>2, <1>sv, <1>env, <1>4 DEF DbOK
<1>6. pc' \in Holding => ContextSound(K)'
  <2> SUFFICES ASSUME pc' \in Holding PROVE ContextSound(K)'
    OBVIOUS
  <2>1. UNCHANGED ctx
    BY <1>0 DEF Holding
  <2> QED  BY <1>0, <1>1, <2>1, ContextFrame
<1>7. StoreInv(K)'
  <2>1. PairsInv(K)'
    <3>1. \A r \in K : \A t \in TaskIds : PairOK(K, src, LockEnv, t, r[2], r[3]) => PairOK(K, src', LockEnv', t, r[2], r[3])
      BY <1>0, <1>1
    <3> QED  BY <1>0, <1>1, <3>1 DEF StoreInv, PairsInv
  <2> QED  BY <1>0, <1>1, <1>5, <1>6, <2>1 DEF StoreInv
<1>8. CASE pc' \notin Holding
  BY <1>7, <1>8, NotHolding
<1>9. CASE pc' \in Holding
  <2>1. pc' = "post" /\ p.command # "clean" /\ UNCHANGED <<p, ctx>>
    BY <1>0, <1>9 DEF Holding
  <2>2. (Building' => Building) /\ DoneTasks' \subseteq DoneTasks
    BY <1>0, <2>1 DEF Building, DoneTasks
  <2> QED  BY <1>0, <1>7, <2>1, <2>2, LoopFrame
<1> QED  BY <1>8, <1>9

\* A task is looked at: it is to run, or its outputs are what it would make.
LEMMA StatusStep ==
  ASSUME KeepsIncludes, NEW K, GhostInv(K), WafIInv, FilesInv, ErrorInv, ConfigInv, src \in Versions, Status
  PROVE  GhostInv(K)'
<1> USE DEF user, history, configured
<1>t. PICK t : t = p.todo
  OBVIOUS
<1>c. PICK c : c = SigImplicitDeps(ctx, t, src)
  OBVIOUS
<1>s. PICK s : s = Signature(c, t, p.env)
  OBVIOUS
<1>0. /\ pc = "status" /\ t \in TaskIds /\ UNCHANGED <<src, lock, out, folder, db>>
      /\ ctx' = c
      /\ \/ MustRun(c, t, s) /\ pc' = "run" /\ p' = [p EXCEPT !.sig = s, !.consumers = TRUE]
         \/ ~MustRun(c, t, s) /\ pc' = "finish" /\ p' = p
  BY <1>t, <1>c, <1>s DEF Status
<1>p. /\ p'.env = p.env /\ p'.edited = p.edited /\ p'.error = p.error /\ p'.command = p.command
      /\ p'.is_install = p.is_install /\ p'.todo = t /\ (pc' = "run" => p'.sig = s)
  <2>1. DOMAIN p = DOMAIN Idle
    BY DEF WafIInv, ProcessInv
  <2> QED  BY <1>0, <1>t, <2>1 DEF Idle
<1>1. /\ StoreInv(K) /\ lock # None /\ ContextSound(K) /\ Building /\ BuildInv /\ SettledInv(K)
      /\ LockEnv' = LockEnv /\ ~p.error /\ pc' \in {"run", "finish"}
  BY <1>0 DEF GhostInv, StoreInv, Holding, Building, LockEnv, ErrorInv, Steady
<1>2. HeaderOK(LockEnv) /\ NotOlderThan(LockEnv, LockEnv) /\ p.env = LockEnv
  BY <1>0, <1>1, LockEnvIs DEF Configuring, BuildInv
<1>3. StatusOK(K, ctx, c, t)
  BY <1>0, <1>1, <1>2, <1>c, StatusContext DEF ContextSound, BuildInv
<1>sv. PICK sv : sv = src
  OBVIOUS
<1>env. PICK env : env = LockEnv
  OBVIOUS
<1>4. StoreInv(K)'
  <2>1. folder
    BY <1>0 DEF WafIInv, ContextInv
  <2>2. OpenShape(c) /\ ContextOK(K, sv, env, c)
    BY <1>3, <1>sv, <1>env DEF StatusOK
  <2>3. ContextSound(K)'
    BY <1>0, <1>1, <1>sv, <1>env, <2>1, <2>2 DEF ContextSound
  <2> QED  BY <1>0, <1>1, <2>3, StoreFrame
<1>5. BuildInv'
  <2>1. BuildContextOK(c)
    BY <1>3 DEF StatusOK
  <2>2. BuildContextOK(ctx)'
    BY <1>0, <2>1 DEF BuildContextOK, CfgSig
  <2>3. \A o \in Built \ {CfgFile} : BuildNode(o) \in DOMAIN c.node_sigs => out[o] # None
    BY <1>1, <1>3 DEF StatusOK, BuildInv
  <2>4. \A f \in AllInputs \ Built : Found(c, f)
    <3>1. AllInputs \subseteq Sources \cup Built
      BY FilesAssumption DEF AllInputs
    <3> QED  BY <1>1, <1>3, <3>1 DEF StatusOK, BuildInv
  <2>5. ~p.edited => SourcesCurrent(sv, c)
    BY <1>1, <1>3, <1>sv DEF StatusOK, BuildInv
  <2> QED  BY <1>0, <1>p, <1>1, <1>2, <1>sv, <2>2, <2>3, <2>4, <2>5 DEF BuildInv
<1>6. RunInv'
  <2> SUFFICES ASSUME pc' = "run", p'.sig # NoSig PROVE RunInv'
    BY DEF RunInv
  <2>1. s # NoSig /\ s = Signature(c, t, env)
    BY <1>p, <1>s, <1>2, <1>env
  <2>2. Tasks[t].scan =>
          /\ t \in DOMAIN c.node_deps
          /\ \E x \in Versions : NotAfter(x, sv) /\ Explains(t, x, Names(NodeDeps(c, t))) /\ UpTo(s.imp, x)
    BY <1>3, <1>sv, <1>env, <2>1 DEF StatusOK
  <2> QED  BY <1>0, <1>p, <1>2, <1>sv, <1>env, <2>1, <2>2 DEF RunInv
<1>7. SettledInv(K)'
  <2> SUFFICES ASSUME ~p.edited, p.is_install # UNINSTALL, NEW u \in DoneTasks' PROVE Settled(K, ctx, u)'
    BY <1>p DEF SettledInv
  <2>e. PICK e : e = p.env
    OBVIOUS
  <2>1. ASSUME NEW v \in TaskIds, v < t PROVE Settled(K, c, v)
    <3>1. v \in DoneTasks
      BY <1>0, <1>t, <2>1 DEF DoneTasks
    <3>2. Settled(K, ctx, v)
      BY <1>1, <3>1 DEF SettledInv
    <3>3. Outputs(v) \subseteq Built
      BY DEF Built, Outputs
    <3> QED  BY <1>3, <3>2, <3>3 DEF StatusOK, Settled
  <2>2. ASSUME pc' = "finish" PROVE Settled(K, c, t)
    <3>1. ~MustRun(c, t, s)
      BY <1>0, <2>2
    <3>2. s # NoSig /\ \A n \in OutputNodes(t) : n \in DOMAIN c.node_sigs /\ c.node_sigs[n] = s.sig
      BY <3>1 DEF MustRun
    <3>3. \A v \in 1..(t - 1) : Settled(K, c, v)
      <4>1. \A v \in 1..(t - 1) : v \in TaskIds /\ v < t
        BY <1>0, BuildContextAssumption DEF TaskIds
      <4> QED  BY <2>1, <4>1
    <3>4. \A f \in AllInputs \ Built : Found(c, f)
      <4>1. AllInputs \subseteq Sources \cup Built
        BY FilesAssumption DEF AllInputs
      <4> QED  BY <1>1, <1>3, <4>1 DEF StatusOK, BuildInv
    <3>5. SourcesCurrent(src, c) /\ BuildContextOK(c) /\ NodesOK(K, src, LockEnv, c)
      BY <1>1, <1>3 DEF StatusOK, BuildInv, ContextOK
    <3>6. s = Signature(c, t, LockEnv)
      BY <1>s, <1>2
    <3>7. ASSUME NEW T, PairOK(K, src, LockEnv, t, s.sig, T) PROVE T = Compile(t, src, out, p.env)
      <4>1. T = Compile(t, src, out, LockEnv)
        BY <1>0, <1>2, <3>2, <3>3, <3>4, <3>5, <3>6, <3>7, NowText
      <4> QED  BY <1>2, <4>1
    <3>8. ASSUME NEW o \in Outputs(t)
          PROVE  /\ out[o] # None /\ out[o].text = Compile(t, src, out, p.env)
                 /\ BuildNode(o) \in DOMAIN c.node_sigs
                 /\ \A r \in K : r[1] = o /\ r[2] = c.node_sigs[BuildNode(o)] => r[3] = out[o].text
      <4>0. o \in Built /\ o # CfgFile /\ o \notin Sources
        BY <1>0, FilesApart, OutputsAssumption DEF Built, Outputs
      <4>1. BuildNode(o) \in DOMAIN c.node_sigs /\ c.node_sigs[BuildNode(o)] = s.sig
        BY <3>2 DEF OutputNodes, Outputs
      <4>2. out[o] # None
        <5>1. BuildNode(o) \in DOMAIN ctx.node_sigs
          BY <1>3, <4>0, <4>1 DEF StatusOK
        <5> QED  BY <1>1, <4>0, <5>1 DEF BuildInv
      <4>3. ASSUME NEW r \in K, r[1] = o, r[2] = s.sig PROVE r[3] = Compile(t, src, out, p.env)
        <5>1. PICK u1 \in TaskIds : r[1] \in Outputs(u1) /\ PairOK(K, src, LockEnv, u1, r[2], r[3])
          BY <1>1 DEF StoreInv, PairsInv
        <5>2. u1 = t
          BY <1>0, <4>3, <5>1, OutputsAssumption
        <5> QED  BY <3>7, <4>3, <5>1, <5>2
      <4>4. PICK r \in K : r[1] = o /\ r[2] = s.sig
        <5>1. KnownSig(K, src, LockEnv, BuildNode(o)[1], c.node_sigs[BuildNode(o)]) /\ BuildNode(o)[1] = o
          BY <3>5, <4>1 DEF NodesOK, BuildNode
        <5> QED  BY <4>0, <4>1, <5>1 DEF KnownSig
      <4>5. <<o, s.sig, out[o].text>> \in K
        BY <1>1, <4>2, <4>4 DEF StoreInv, PairsInv
      <4>6. out[o].text = Compile(t, src, out, p.env)
        <5>1. PICK q \in K : q = <<o, s.sig, out[o].text>>
          BY <4>5
        <5>2. q[1] = o /\ q[2] = s.sig /\ q[3] = out[o].text
          BY <5>1
        <5> QED  BY <4>3, <5>2
      <4> QED  BY <4>1, <4>2, <4>3, <4>6
    <3> QED  BY <3>8 DEF Settled
  <2>3. Settled(K, c, u)
    <3>1. u \in TaskIds /\ (pc' = "run" => u < t) /\ (pc' = "finish" => u <= t)
      BY <1>p DEF DoneTasks
    <3>2. u \in Nat /\ t \in Nat
      BY <1>0, <3>1, BuildContextAssumption DEF TaskIds
    <3>3. CASE u < t
      BY <2>1, <3>1, <3>3
    <3>4. CASE ~(u < t)
      <4>1. pc' = "finish" /\ u = t
        BY <1>1, <3>1, <3>2, <3>4
      <4> QED  BY <2>2, <4>1
    <3> QED  BY <3>3, <3>4
  <2> QED  BY <1>0, <1>p, <2>3 DEF Settled
<1> QED  BY <1>4, <1>5, <1>6, <1>7 DEF GhostInv

\* What a task makes does not depend on its own outputs, nor on those of a
\* later task.
LEMMA CompileFrame ==
  ASSUME src \in Versions, src' = src, NEW env, NEW t \in TaskIds, NEW u \in TaskIds, u <= t,
         \A o \in Built \ Outputs(t) : (out'[o] = None <=> out[o] = None) /\ (out[o] # None => out'[o].text = out[o].text)
  PROVE  Compile(u, src, out', env) = Compile(u, src, out, env)
<1>n. u \in Nat /\ t \in Nat
  BY BuildContextAssumption DEF TaskIds
<1>1. ASSUME NEW f \in ReadBy(u, src) \cap Built PROVE f \notin Outputs(t)
  <2>1. f \in {CfgFile} \cup UNION {Elements(Tasks[v].outputs) : v \in 1..(u - 1)}
    BY OrderAssumption DEF Versions
  <2>2. CASE f = CfgFile
    BY <2>2, OutputsAssumption
  <2>3. CASE f # CfgFile
    <3>1. PICK v \in 1..(u - 1) : f \in Outputs(v)
      BY <2>1, <2>3 DEF Outputs
    <3>2. v \in TaskIds /\ v # t
      BY <1>n, BuildContextAssumption DEF TaskIds
    <3> QED  BY <3>1, <3>2, OutputsAssumption
  <2> QED  BY <2>2, <2>3
<1>2. ASSUME NEW f \in ReadBy(u, src) PROVE TextOf(f, src, out') = TextOf(f, src, out)
  <2>1. CASE f \in Built
    <3>1. (out'[f] = None <=> out[f] = None) /\ (out[f] # None => out'[f].text = out[f].text)
      BY <1>1, <2>1
    <3>2. out'[f].text = out[f].text
      BY <3>1
    <3> QED  BY <2>1, <3>2 DEF TextOf
  <2>2. CASE f \notin Built
    BY <2>2 DEF TextOf
  <2> QED  BY <2>1, <2>2
<1> QED  BY <1>2 DEF Compile

\* The signature that a task is run with goes with what it makes.
LEMMA AtRun ==
  ASSUME KeepsIncludes, NEW K, GhostInv(K), ConfigInv, src \in Versions,
         pc = "run", p.sig # NoSig, p.todo \in TaskIds, Compiles(p.todo, src, out),
         NEW s, s = p.sig.sig
  PROVE  /\ lock # None /\ p.env = LockEnv /\ HeaderOK(LockEnv) /\ NotOlderThan(LockEnv, LockEnv)
         /\ s # SIG_NIL /\ NilPart(src, p.todo, s)
         /\ p.sig = Signature(ctx, p.todo, LockEnv) /\ p.sig.imp = s[2]
         /\ \E x \in Versions : NotAfter(x, src) /\ SigPart(K, src, LockEnv, p.todo, s, x)
<1>t. PICK t : t = p.todo
  OBVIOUS
<1>1. StoreInv(K) /\ lock # None /\ ContextSound(K) /\ Building /\ BuildInv /\ RunInv
  BY DEF GhostInv, StoreInv, Holding, Building
<1>2. HeaderOK(LockEnv) /\ NotOlderThan(LockEnv, LockEnv) /\ p.env = LockEnv /\ EnvGet(LockEnv, "FLAGS") # 0
  BY <1>1, LockEnvIs DEF Configuring, BuildInv
<1>3. p.sig = Signature(ctx, t, LockEnv) /\ Signature(ctx, t, LockEnv) # NoSig /\ s = Signature(ctx, t, LockEnv).sig
  BY <1>t, <1>1, <1>2 DEF RunInv
<1>4. s # SIG_NIL /\ p.sig.imp = s[2]
  BY <1>t, <1>3, SignatureIs
<1>5. Tasks[t].scan => \E x \in Versions : NotAfter(x, src) /\ Explains(t, x, Names(NodeDeps(ctx, t))) /\ UpTo(s[2], x)
  BY <1>t, <1>1, <1>4 DEF RunInv
<1>6. /\ NodesOK(K, src, LockEnv, ctx) /\ PairsInv(K)
      /\ BuildNode(CfgFile) \in DOMAIN ctx.node_sigs /\ ctx.node_sigs[BuildNode(CfgFile)] = CfgSig
  BY <1>1 DEF ContextSound, ContextOK, BuildInv, BuildContextOK, StoreInv
<1>7. NilPart(src, t, s) /\ \E x \in Versions : NotAfter(x, src) /\ SigPart(K, src, LockEnv, t, s, x)
  BY <1>t, <1>2, <1>3, <1>5, <1>6, RunSigned
<1> QED  BY <1>t, <1>1, <1>2, <1>3, <1>4, <1>7

\* A task runs: the pairs, and the files.
LEMMA RunStore ==
  ASSUME KeepsIncludes, NEW K, GhostInv(K), ConfigInv, WafIInv, FilesInv, src \in Versions, ~setting.wafcache,
         Run \/ KillInRun,
         NEW L, L = K \cup RunPairs(K, p.todo, p.sig.sig, Compile(p.todo, src, out, p.env))
  PROVE  PairsInv(L)' /\ DbOK(L, src, LockEnv)' /\ K \subseteq L /\ lock' # None /\ folder' \in BOOLEAN
<1>t. PICK t : t = p.todo
  OBVIOUS
<1>s. PICK s : s = p.sig.sig
  OBVIOUS
<1>0. /\ pc = "run" /\ t \in TaskIds /\ UNCHANGED <<src, lock, folder, db>> /\ p.sig # NoSig /\ Compiles(t, src, out)
      /\ out' = Over(Aged(out), Makes(t))
  BY <1>t DEF Run, KillInRun, user, configured, WafIInv, ProcessInv
<1>1. /\ lock # None /\ p.env = LockEnv /\ HeaderOK(LockEnv) /\ NotOlderThan(LockEnv, LockEnv)
      /\ s # SIG_NIL /\ NilPart(src, t, s)
  BY <1>0, <1>t, <1>s, AtRun
<1>2. PICK x \in Versions : NotAfter(x, src) /\ SigPart(K, src, LockEnv, t, s, x)
  BY <1>0, <1>t, <1>s, AtRun
<1>3. L = K \cup RunPairs(K, t, s, Compile(t, src, out, LockEnv)) /\ K \subseteq L
  BY <1>t, <1>s, <1>1
<1>4. PairsInv(K) /\ DbOK(K, src, LockEnv) /\ folder \in BOOLEAN
  BY DEF GhostInv, StoreInv
<1>5. PairsInv(L)'
  BY <1>0, <1>1, <1>2, <1>3, <1>4, RunKeepsPairs
<1>sv. PICK sv : sv = src
  OBVIOUS
<1>env. PICK env : env = LockEnv
  OBVIOUS
<1>6. DbOK(L, sv, env)
  <2>1. NotAfter(sv, sv) /\ NotOlderThan(env, env) /\ sv \in Versions
    BY <1>1, <1>sv, <1>env, NotAfterSelf
  <2>2. ASSUME db # None PROVE ContextOK(L, sv, env, db)
    <3>1. ContextOK(K, sv, env, db)
      BY <1>4, <1>sv, <1>env, <2>2 DEF DbOK
    <3> QED  BY <1>3, <2>1, <3>1, StaysContext
  <2> QED  BY <1>4, <1>sv, <1>env, <2>2 DEF DbOK
<1>7. DbOK(L, src, LockEnv)'
  <2>1. LockEnv' = env /\ src' = sv
    BY <1>0, <1>sv, <1>env DEF LockEnv
  <2> QED  BY <1>0, <1>6, <2>1 DEF DbOK
<1> QED  BY <1>0, <1>1, <1>3, <1>4, <1>5, <1>7

LEMMA KillInRunStep ==
  ASSUME KeepsIncludes, NEW K, GhostInv(K), ConfigInv, WafIInv, FilesInv, src \in Versions, ~setting.wafcache, KillInRun
  PROVE  \E L : GhostInv(L)'
<1>1. PICK L : L = K \cup RunPairs(K, p.todo, p.sig.sig, Compile(p.todo, src, out, p.env))
  OBVIOUS
<1>2. PairsInv(L)' /\ DbOK(L, src, LockEnv)' /\ lock' # None /\ folder' \in BOOLEAN
  BY <1>1, RunStore
<1>3. pc' \notin Holding
  BY DEF KillInRun, Ends, Holding
<1>4. StoreInv(L)'
  BY <1>2, <1>3 DEF StoreInv
<1> QED  BY <1>3, <1>4, NotHolding

LEMMA RunStep ==
  ASSUME KeepsIncludes, NEW K, GhostInv(K), ConfigInv, WafIInv, FilesInv, src \in Versions, ~setting.wafcache, Run
  PROVE  \E L : GhostInv(L)'
<1>t. PICK t : t = p.todo
  OBVIOUS
<1>T. PICK T : T = Compile(t, src, out, p.env)
  OBVIOUS
<1>sig. PICK sig : sig = p.sig
  OBVIOUS
<1>s. PICK s : s = p.sig.sig
  OBVIOUS
<1>L. PICK L : L = K \cup RunPairs(K, t, s, T)
  OBVIOUS
<1>c. PICK c : c = ctx
  OBVIOUS
<1>d. PICK d : d = PostRun(c, t, sig)
  OBVIOUS
<1>0. /\ pc = "run" /\ pc' = "finish" /\ t \in TaskIds /\ UNCHANGED <<src, lock, folder, db, p>>
      /\ sig # NoSig /\ Compiles(t, src, out)
      /\ out' = Over(Aged(out), Makes(t)) /\ ctx' = d
  BY <1>t, <1>sig, <1>c, <1>d DEF Run, user, configured, WafIInv, ProcessInv
<1>1. /\ p.env = LockEnv /\ HeaderOK(LockEnv) /\ NotOlderThan(LockEnv, LockEnv)
      /\ sig = Signature(c, t, LockEnv) /\ sig.imp = s[2] /\ sig.sig = s
  BY <1>0, <1>t, <1>c, <1>s, <1>sig, AtRun
<1>2. PairsInv(L)' /\ DbOK(L, src, LockEnv)' /\ K \subseteq L /\ lock' # None /\ folder' \in BOOLEAN
  BY <1>L, <1>T, <1>t, <1>s, RunStore
<1>3. ContextSound(K) /\ Building /\ BuildInv /\ RunInv /\ SettledInv(K) /\ PairsInv(K)
  BY <1>0 DEF GhostInv, StoreInv, Holding, Building
<1>sv. PICK sv : sv = src
  OBVIOUS
<1>env. PICK env : env = LockEnv
  OBVIOUS
<1>m. Sources \cap Built = {} /\ CfgFile \in Built /\ CfgFile \notin Outputs(t)
      /\ \A u \in TaskIds : Outputs(u) \subseteq Built \ {CfgFile}
  BY <1>0, FilesApart, OutputsAssumption DEF Built, Outputs
<1>4. \A o \in Built :
        /\ o \in Outputs(t) => out'[o] # None /\ out'[o].text = T
        /\ o \notin Outputs(t) => /\ out'[o] = None <=> out[o] = None
                                  /\ out[o] # None => out'[o].text = out[o].text
  BY <1>0, <1>T, RunOutputs
<1>5. /\ OpenShape(d) /\ ContextOK(L, src, LockEnv, d) /\ BuildContextOK(d)
      /\ d.childs = c.childs /\ d.listing = c.listing
      /\ \A n \in DOMAIN d.node_sigs : n[1] \notin Outputs(t) => n \in DOMAIN c.node_sigs /\ d.node_sigs[n] = c.node_sigs[n]
      /\ DOMAIN c.node_sigs \subseteq DOMAIN d.node_sigs
      /\ \A o \in Outputs(t) : BuildNode(o) \in DOMAIN d.node_sigs /\ d.node_sigs[BuildNode(o)] = sig.sig
  <2>1. sig.imp = sig.sig[2] /\ \A o \in Outputs(t) : <<o, sig.sig, T>> \in L
    BY <1>1, <1>L DEF RunPairs
  <2>2. Tasks[t].scan =>
          /\ t \in DOMAIN c.node_deps
          /\ \E x \in Versions : NotAfter(x, src) /\ Explains(t, x, Names(NodeDeps(c, t))) /\ UpTo(sig.imp, x)
    BY <1>0, <1>3, <1>t, <1>c, <1>sig DEF RunInv
  <2>3. OpenShape(c) /\ ContextOK(K, src, LockEnv, c) /\ BuildContextOK(c)
    BY <1>3, <1>c DEF ContextSound, BuildInv
  <2>4. RunContextOK(L, c, d, t, sig.sig)
    BY <1>0, <1>1, <1>2, <1>d, <2>1, <2>2, <2>3, PostRunContext
  <2> QED  BY <2>4 DEF RunContextOK
<1>6. StoreInv(L)'
  <2>1. folder' /\ lock' = lock
    BY <1>0 DEF WafIInv, ContextInv
  <2>2. OpenShape(d) /\ ContextOK(L, sv, env, d)
    BY <1>5, <1>sv, <1>env
  <2>3. LockEnv' = env /\ src' = sv
    BY <1>0, <1>sv, <1>env DEF LockEnv
  <2>4. ContextSound(L)'
    BY <1>0, <2>1, <2>2, <2>3 DEF ContextSound
  <2> QED  BY <1>2, <2>4 DEF StoreInv
<1>7. BuildInv'
  <2>1. LockEnv' = LockEnv /\ CfgSig' = CfgSig
    BY <1>0, <1>4, <1>m DEF LockEnv, CfgSig
  <2>2. BuildContextOK(ctx)'
    BY <1>0, <1>5, <2>1 DEF BuildContextOK
  <2>3. ASSUME ~p.error, NEW o \in Built \ {CfgFile}, BuildNode(o) \in DOMAIN d.node_sigs PROVE out'[o] # None
    <3>1. CASE o \in Outputs(t)
      BY <1>4, <3>1
    <3>2. CASE o \notin Outputs(t)
      <4>1. BuildNode(o) \in DOMAIN c.node_sigs
        BY <1>5, <2>3, <3>2 DEF BuildNode
      <4> QED  BY <1>3, <1>4, <1>c, <2>3, <3>2, <4>1 DEF BuildInv
    <3> QED  BY <3>1, <3>2
  <2>4. \A f \in AllInputs \ Built : Found(d, f)
    BY <1>3, <1>5, <1>c DEF Found, BuildInv
  <2>5. ASSUME ~p.edited PROVE SourcesCurrent(sv, d)
    <3> SUFFICES ASSUME NEW f \in Sources, Found(d, f)
                 PROVE  /\ FileNode(d, f) \in DOMAIN d.node_sigs
                        /\ d.node_sigs[FileNode(d, f)] = FileText(sv, f)
                        /\ Exists(sv, f)
      BY DEF SourcesCurrent
    <3>1. FileNode(d, f) = FileNode(c, f) /\ Found(c, f) /\ FileNode(c, f)[1] = f /\ f \notin Outputs(t)
      BY <1>0, <1>5, <1>m DEF FileNode, Found
    <3>2. SourcesCurrent(sv, c)
      BY <1>3, <1>c, <1>sv, <2>5 DEF BuildInv
    <3> QED  BY <1>5, <3>1, <3>2 DEF SourcesCurrent
  <2> QED  BY <1>0, <1>3, <1>sv, <2>1, <2>2, <2>3, <2>4, <2>5 DEF BuildInv, Building
<1>8. RunInv'
  BY <1>0 DEF RunInv
<1>9. SettledInv(L)'
  <2> SUFFICES ASSUME ~p.edited, ~p.error, p.is_install # UNINSTALL, NEW u \in DoneTasks' PROVE Settled(L, ctx, u)'
    BY <1>0 DEF SettledInv
  <2>n. u \in TaskIds /\ u \in Nat /\ t \in Nat /\ u <= t
    BY <1>0, <1>t, BuildContextAssumption DEF DoneTasks, TaskIds
  <2>before. ASSUME NEW v \in TaskIds, v < t PROVE Settled(K, c, v)
    <3>1. v \in DoneTasks
      BY <1>0, <1>t, <2>before DEF DoneTasks
    <3> QED  BY <1>3, <1>c, <3>1 DEF SettledInv
  <2>now. ASSUME NEW T1, PairOK(K, src, LockEnv, t, s, T1) PROVE T1 = T
    <3>1. \A v \in 1..(t - 1) : Settled(K, c, v)
      <4>1. \A v \in 1..(t - 1) : v \in TaskIds /\ v < t
        BY <1>0, BuildContextAssumption DEF TaskIds
      <4> QED  BY <2>before, <4>1
    <3>2. /\ \A f \in AllInputs \ Built : Found(c, f)
          /\ SourcesCurrent(src, c) /\ BuildContextOK(c) /\ NodesOK(K, src, LockEnv, c)
      BY <1>3, <1>c DEF BuildInv, ContextSound, ContextOK
    <3>3. Signature(c, t, LockEnv) # NoSig /\ Signature(c, t, LockEnv).sig = s
      BY <1>0, <1>1
    <3>4. T1 = Compile(t, src, out, LockEnv)
      BY <1>0, <1>1, <2>now, <3>1, <3>2, <3>3, NowText
    <3> QED  BY <1>1, <1>T, <3>4
  <2>text. ASSUME NEW v \in TaskIds, v <= t
           PROVE  Compile(v, src, out', p.env) = Compile(v, src, out, p.env)
    BY <1>0, <1>4, <2>text, CompileFrame
  <2>1. CASE u = t
    <3>1. Compile(t, src, out', p.env) = T
      BY <1>0, <1>T, <2>n, <2>1, <2>text
    <3>2. ASSUME NEW o \in Outputs(t)
          PROVE  /\ out'[o] # None /\ out'[o].text = Compile(t, src, out', p.env)
                 /\ BuildNode(o) \in DOMAIN d.node_sigs
                 /\ \A r \in L : r[1] = o /\ r[2] = d.node_sigs[BuildNode(o)] => r[3] = out'[o].text
      <4>0. o \in Built /\ out'[o] # None /\ out'[o].text = T
        BY <1>0, <1>4, <1>m
      <4>1. BuildNode(o) \in DOMAIN d.node_sigs /\ d.node_sigs[BuildNode(o)] = s
        BY <1>1, <1>5
      <4>2. ASSUME NEW r \in L, r[1] = o, r[2] = s PROVE r[3] = T
        <5>1. CASE r \in K
          <6>1. PICK v \in TaskIds : r[1] \in Outputs(v) /\ PairOK(K, src, LockEnv, v, r[2], r[3])
            BY <1>3, <5>1 DEF PairsInv
          <6>2. v = t
            BY <1>0, <4>2, <6>1, OutputsAssumption
          <6> QED  BY <2>now, <4>2, <6>1, <6>2
        <5>2. CASE r \in RunPairs(K, t, s, T)
          BY <5>2 DEF RunPairs
        <5> QED  BY <1>L, <5>1, <5>2
      <4> QED  BY <3>1, <4>0, <4>1, <4>2
    <3> QED  BY <1>0, <2>1, <3>2 DEF Settled
  <2>2. CASE u # t
    <3>0. u < t /\ Settled(K, c, u)
      BY <2>n, <2>2, <2>before
    <3>1. ASSUME NEW o \in Outputs(u)
          PROVE  /\ out'[o] # None /\ out'[o].text = Compile(u, src, out', p.env)
                 /\ BuildNode(o) \in DOMAIN d.node_sigs
                 /\ \A r \in L : r[1] = o /\ r[2] = d.node_sigs[BuildNode(o)] => r[3] = out'[o].text
      <4>0. o \in Built /\ o \notin Outputs(t)
        BY <1>0, <1>m, <2>n, <2>2, OutputsAssumption
      <4>1. /\ out[o] # None /\ out[o].text = Compile(u, src, out, p.env)
            /\ BuildNode(o) \in DOMAIN c.node_sigs
            /\ \A r \in K : r[1] = o /\ r[2] = c.node_sigs[BuildNode(o)] => r[3] = out[o].text
        BY <1>c, <3>0 DEF Settled
      <4>2. out'[o] # None /\ out'[o].text = out[o].text
        BY <1>4, <4>0, <4>1
      <4>3. BuildNode(o) \in DOMAIN d.node_sigs /\ d.node_sigs[BuildNode(o)] = c.node_sigs[BuildNode(o)]
        BY <1>5, <4>0, <4>1 DEF BuildNode
      <4>4. ASSUME NEW r \in L, r[1] = o PROVE r \in K
        BY <1>L, <4>0, <4>4 DEF RunPairs
      <4>5. Compile(u, src, out', p.env) = Compile(u, src, out, p.env)
        BY <2>n, <2>text
      <4> QED  BY <4>1, <4>2, <4>3, <4>4, <4>5
    <3> QED  BY <1>0, <3>1 DEF Settled
  <2> QED  BY <2>1, <2>2
<1> QED  BY <1>6, <1>7, <1>8, <1>9 DEF GhostInv

\* A task that fails, or is stopped: nothing is said of what it leaves.
LEMMA FailStep ==
  ASSUME NEW K, GhostInv(K), WafIInv, FilesInv, CannotRun \/ RunFails
  PROVE  GhostInv(K)'
<1> USE DEF user, history, configured
<1>0. /\ pc = "run" /\ pc' = "finish" /\ UNCHANGED <<src, lock, folder, db, ctx>> /\ Failing
      /\ p' = [p EXCEPT !.error = TRUE]
  BY DEF CannotRun, RunFails, Failing
<1>p. p'.env = p.env /\ p'.edited = p.edited /\ p'.error
  <2>1. DOMAIN p = DOMAIN Idle
    BY DEF WafIInv, ProcessInv
  <2> QED  BY <1>0, <2>1 DEF Idle
<1>1. /\ \A o \in Built : out'[o] \in {out[o], None}
      /\ out'[CfgFile] = out[CfgFile]
  <2>1. CfgFile \in Built /\ CfgFile \notin Outputs(p.todo)
    BY <1>0, FilesApart, OutputsAssumption DEF WafIInv, ProcessInv
  <2> QED  BY <1>0, <2>1, FailedOutputs
<1>2. StoreInv(K) /\ BuildInv /\ Building /\ pc \in Holding
  BY <1>0 DEF GhostInv, Holding, Building
<1>3. StoreInv(K)'
  <2>1. lock # None /\ ContextSound(K)'
    BY <1>0, <1>2, ContextFrame
  <2> QED  BY <1>0, <1>1, <1>2, <2>1, StoreFrame
<1>4. BuildInv'
  <2>1. LockEnv' = LockEnv /\ CfgSig' = CfgSig
    BY <1>0, <1>1 DEF LockEnv, CfgSig
  <2>2. BuildContextOK(ctx)'
    BY <1>0, <1>2, <2>1 DEF BuildContextOK, BuildInv
  <2>3. ~p.edited => SourcesCurrent(src, ctx)'
    BY <1>0, <1>2 DEF SourcesCurrent, BuildInv
  <2> QED  BY <1>0, <1>p, <1>2, <2>1, <2>2, <2>3 DEF BuildInv
<1> QED  BY <1>0, <1>p, <1>3, <1>4 DEF GhostInv, RunInv, SettledInv

LEMMA CleanStep ==
  ASSUME NEW K, GhostInv(K), FilesInv, (\E o \in Built : CleanRec(o)) \/ Clean
  PROVE  GhostInv(K)'
<1> USE DEF user, history, configured
<1>0. /\ pc = "clean" /\ UNCHANGED <<src, lock, folder, db, p>> /\ pc' \in {"clean", "unlink"}
      /\ \A o \in Built \ {CfgFile} : out'[o] \in {out[o], None}
  <2>1. CASE \E o \in Built : CleanRec(o)
    <3>1. \E o \in Built : out' = [out EXCEPT ![o] = None]
      BY <2>1 DEF CleanRec
    <3>2. \A o \in Built \ {CfgFile} : out'[o] \in {out[o], None}
      BY <3>1 DEF FilesInv
    <3>3. pc = "clean" /\ UNCHANGED <<src, lock, folder, db, p>> /\ pc' \in {"clean", "unlink"}
      BY <2>1 DEF CleanRec
    <3> QED  BY <3>2, <3>3
  <2>2. CASE Clean
    BY <2>2 DEF Clean
  <2> QED  BY <2>1, <2>2
<1>1. StoreInv(K) /\ pc \in Holding /\ lock # None /\ p.command = "clean" /\ ContextSound(K)
  BY <1>0 DEF GhostInv, StoreInv, BuildInv, Holding
<1>sv. PICK sv : sv = src
  OBVIOUS
<1>env. PICK env : env = LockEnv
  OBVIOUS
<1>2. ContextSound(K)'
  <2>1. CASE \E o \in Built : CleanRec(o)
    <3>1. UNCHANGED ctx
      BY <2>1 DEF CleanRec
    <3> QED  BY <1>0, <1>1, <3>1, ContextFrame
  <2>2. CASE Clean
    <3>1. ctx' = [ctx EXCEPT !.declared = @ \cap {CfgFile}, !.node_sigs = <<>>, !.node_deps = <<>>, !.task_sigs = <<>>]
      BY <2>2 DEF Clean
    <3>2. DOMAIN ctx = StoredFields \cup {"scanned", "listing"}
      BY <1>1 DEF ContextSound, OpenShape
    <3>3. PICK d : d = ctx'
      OBVIOUS
    <3>4. /\ DOMAIN d = DOMAIN ctx /\ d.childs = ctx.childs /\ d.id_nodes = ctx.id_nodes
          /\ DOMAIN d.node_sigs = {} /\ DOMAIN d.node_deps = {} /\ DOMAIN d.task_sigs = {}
      BY <3>1, <3>2, <3>3 DEF StoredFields
    <3>5. OpenShape(d) /\ (~folder => Childless(d))
      BY <1>1, <3>4 DEF ContextSound, OpenShape, Numbered, Childless
    <3>6. ContextOK(K, sv, env, d)
      BY <3>4 DEF ContextOK, NodesOK, SigsOK, DepsOK
    <3>7. LockEnv' = env /\ src' = sv
      BY <1>0, <1>sv, <1>env DEF LockEnv
    <3> QED  BY <1>0, <3>3, <3>5, <3>6, <3>7 DEF ContextSound
  <2> QED  BY <2>1, <2>2
<1>3. StoreInv(K)'
  BY <1>0, <1>1, <1>2, StoreFrame
<1>4. ~Building' /\ pc' # "run"
  BY <1>0, <1>1 DEF Building
<1> QED  BY <1>0, <1>1, <1>3, <1>4 DEF GhostInv, BuildInv, RunInv, SettledInv

LEMMA EditStep ==
  ASSUME NEW K, GhostInv(K), WafIInv, WafIInv', ConfigInv, Edit
  PROVE  GhostInv(K)'
<1> USE DEF user, history, configured
<1>0. UNCHANGED <<lock, folder, db, out, ctx, pc>> /\ pc \in {"idle", "status", "run"}
  BY DEF Edit
<1>p. /\ p' = [p EXCEPT !.edited = (pc # "idle")]
      /\ p'.env = p.env /\ p'.error = p.error /\ p'.command = p.command /\ p'.todo = p.todo /\ p'.sig = p.sig
      /\ p'.edited = (pc # "idle")
  <2>1. DOMAIN p = DOMAIN Idle
    BY DEF WafIInv, ProcessInv
  <2>2. p' = [p EXCEPT !.edited = (pc # "idle")]
    BY DEF Edit, EditSource, ChangeFlags, EditScript, Edited
  <2> QED  BY <2>1, <2>2 DEF Idle
<1>1. src \in Versions /\ src' \in Versions
  BY DEF WafIInv, UserTypes, Versions
<1>2. NotAfter(src, src')
  <2>1. src' = src \/ \E f \in Sources : src' = [src EXCEPT ![f] = @ + 1]
    BY DEF Edit, EditSource, ChangeFlags, EditScript
  <2>2. \A f \in Sources : src[f] \in Nat
    BY <1>1, FilesApart DEF Versions
  <2>3. \A f \in Sources : src[f] <= src'[f]
    BY <1>1, <2>1, <2>2 DEF Versions
  <2> QED  BY <2>3 DEF NotAfter
<1>3. LockEnv' = LockEnv /\ CfgSig' = CfgSig
  BY <1>0 DEF LockEnv, CfgSig
<1>4. StoreInv(K)'
  <2>1. StoreInv(K)
    BY DEF GhostInv
  <2>2. CASE lock # None
    <3>1. NotOlderThan(LockEnv', LockEnv)
      BY <1>3, <2>2, LockEnvIs
    <3>2. pc' \in Holding => pc \in Holding /\ ctx' = ctx
      BY <1>0
    <3> QED  BY <1>0, <1>1, <1>2, <2>1, <2>2, <3>1, <3>2, NewerStore
  <2>3. CASE lock = None
    <3>1. K = {} /\ db' = None /\ pc' \notin Holding /\ folder' \in BOOLEAN
          /\ \A o \in Built \ {CfgFile} : out'[o] = None
      BY <1>0, <2>1, <2>3 DEF StoreInv
    <3> QED  BY <3>1 DEF StoreInv, PairsInv, DbOK
  <2> QED  BY <2>2, <2>3
<1>5. CASE pc = "idle"
  <2>1. pc' \notin Holding
    BY <1>0, <1>5 DEF Holding
  <2> QED  BY <1>4, <2>1, NotHolding
<1>6. CASE pc # "idle"
  <2>1. BuildInv /\ Building /\ Building'
    BY <1>0, <1>6 DEF GhostInv, Building
  <2>2. BuildContextOK(ctx)'
    <3>1. ASSUME NEW g \in Sources \ ctx.listing PROVE src'[g] = MaxVersion + 1
      <4>1. src[g] = MaxVersion + 1
        BY <2>1 DEF BuildInv, BuildContextOK
      <4>2. src'[g] \in 1..(MaxVersion + 1) /\ src[g] <= src'[g]
        BY <1>1, <1>2 DEF Versions, NotAfter
      <4> QED  BY <4>1, <4>2, FilesApart
    <3> QED  BY <1>0, <1>3, <2>1, <3>1 DEF BuildInv, BuildContextOK
  <2>3. BuildInv'
    BY <1>0, <1>p, <1>3, <1>6, <2>1, <2>2 DEF BuildInv
  <2>4. RunInv'
    <3> SUFFICES ASSUME pc = "run", p.sig # NoSig PROVE RunInv'
      BY <1>0, <1>p DEF RunInv
    <3>1. p.sig = Signature(ctx, p.todo, p.env)
      BY DEF GhostInv, RunInv
    <3>2. ASSUME Tasks[p.todo].scan
          PROVE  /\ p.todo \in DOMAIN ctx.node_deps
                 /\ \E x \in Versions :
                      NotAfter(x, src') /\ Explains(p.todo, x, Names(NodeDeps(ctx, p.todo))) /\ UpTo(p.sig.imp, x)
      <4>1. PICK x \in Versions :
              NotAfter(x, src) /\ Explains(p.todo, x, Names(NodeDeps(ctx, p.todo))) /\ UpTo(p.sig.imp, x)
        BY <3>2 DEF GhostInv, RunInv
      <4>2. NotAfter(x, src')
        BY <1>1, <1>2, <4>1, NotAfterTransitive
      <4> QED  BY <3>2, <4>1, <4>2 DEF GhostInv, RunInv
    <3> QED  BY <1>0, <1>p, <3>1, <3>2 DEF RunInv
  <2>5. SettledInv(K)'
    BY <1>p, <1>6 DEF SettledInv
  <2> QED  BY <1>4, <2>3, <2>4, <2>5 DEF GhostInv
<1> QED  BY <1>5, <1>6

LEMMA LockStep ==
  ASSUME NEW K, GhostInv(K), WafIInv, ConfigInv, src \in Versions, Lock
  PROVE  GhostInv(K)'
<1>0. /\ UNCHANGED <<src, folder, db, out>> /\ pc = "lock" /\ pc' \in {"next", "load"}
      /\ lock' = [flags |-> p.flags, hash |-> p.script]
  BY DEF Lock, user, Goto
<1>1. lock'.flags = p.flags /\ lock'.hash = p.script /\ lock' # None /\ p.flags \in Nat /\ p.script \in Nat
  <2>1. lock'.flags = p.flags /\ lock'.hash = p.script /\ DOMAIN lock' = {"flags", "hash"}
    BY <1>0
  <2>2. "flags" \notin DOMAIN None
    BY DEF None
  <2> QED  BY <2>1, <2>2 DEF WafIInv, ProcessInv, ConfigInv
<1>2. StoreInv(K) /\ pc \notin Holding /\ pc' \notin Holding
  BY <1>0 DEF GhostInv, Holding
<1>3. ASSUME lock # None PROVE NotOlderThan(LockEnv', LockEnv)
  <2>1. lock.flags \in Nat /\ lock.hash \in Nat /\ lock.flags <= p.flags /\ lock.hash <= p.script
    BY <1>0, <1>3 DEF ConfigInv, Configuring, WafIInv, LockInv
  <2>2. NotOlderThan(Env(p.flags, p.script).table, Env(lock.flags, lock.hash).table)
    BY <1>1, <2>1, LockGrows
  <2> QED  BY <1>1, <2>2 DEF LockEnv
<1>4. K # {} \/ db # None \/ pc \in Holding => NotOlderThan(LockEnv', LockEnv)
  BY <1>2, <1>3 DEF StoreInv
<1>5. NotAfter(src, src') /\ src' \in Versions
  BY <1>0, NotAfterSelf
<1>6. StoreInv(K)'
  BY <1>0, <1>1, <1>2, <1>4, <1>5, NewerStore
<1> QED  BY <1>2, <1>6, NotHolding

LEMMA DistcleanStep ==
  ASSUME NEW K, GhostInv(K), Distclean
  PROVE  \E L : GhostInv(L)'
<1>0. pc' = "next" /\ src' = src /\ StoreInv(K) /\ pc' \notin Holding
  BY DEF Distclean, Goto, user, GhostInv, Holding
<1>1. CASE lock = None
  <2>1. UNCHANGED <<out, folder, db, lock>>
    BY <1>1 DEF Distclean, configured
  <2>2. StoreInv(K)'
    BY <1>0, <2>1, StoreFrame
  <2> QED  BY <1>0, <2>2, NotHolding
<1>2. CASE lock # None
  <2>1. out' = [o \in Built |-> None] /\ folder' = FALSE /\ db' = None /\ lock' = None
    BY <1>2 DEF Distclean
  <2>2. PICK L : L = {}
    OBVIOUS
  <2>3. StoreInv(L)'
    BY <1>0, <2>1, <2>2 DEF StoreInv, PairsInv, DbOK
  <2> QED  BY <1>0, <2>3, NotHolding
<1> QED  BY <1>1, <1>2

LEMMA StutterStep ==
  ASSUME NEW K, GhostInv(K), UNCHANGED vars
  PROVE  GhostInv(K)'
<1>0. UNCHANGED <<src, lock, folder, db, out, ctx, pc, p>>
  BY DEF vars, user, configured
<1>1. StoreInv(K)'
  <2>1. StoreInv(K)
    BY DEF GhostInv
  <2>2. ASSUME pc \in Holding PROVE lock # None /\ ContextSound(K)'
    BY <1>0, <2>1, <2>2, ContextFrame
  <2> QED  BY <1>0, <2>1, <2>2, StoreFrame
<1>2. LockEnv' = LockEnv /\ CfgSig' = CfgSig
  BY <1>0 DEF LockEnv, CfgSig
<1>3. BuildInv'
  <2>1. (BuildContextOK(ctx) => BuildContextOK(ctx)') /\ (SourcesCurrent(src, ctx) => SourcesCurrent(src, ctx)')
    BY <1>0, <1>2 DEF BuildContextOK, SourcesCurrent
  <2>2. Building' = Building
    BY <1>0 DEF Building
  <2> QED  BY <1>0, <1>2, <2>1, <2>2 DEF GhostInv, BuildInv
<1>4. RunInv'
  BY <1>0 DEF GhostInv, RunInv
<1>5. SettledInv(K)'
  <2>1. Building' = Building /\ DoneTasks' = DoneTasks
    BY <1>0 DEF Building, DoneTasks
  <2>2. ASSUME NEW u, Settled(K, ctx, u) PROVE Settled(K, ctx, u)'
    BY <1>0, <2>2 DEF Settled
  <2> QED  BY <1>0, <2>1, <2>2 DEF GhostInv, SettledInv
<1> QED  BY <1>1, <1>3, <1>4, <1>5 DEF GhostInv

(* ----- what a build makes: the theorem ----- *)

\* Every step keeps the pairs, the contexts and the tasks that are done.
LEMMA GhostStep ==
  ASSUME KeepsIncludes, NEW K, GhostInv(K), ConfigInv, WafIInv, WafIInv', FilesInv, ErrorInv,
         ~setting.wafcache, ~setting.removes, [Next]_vars
  PROVE  \E L : GhostInv(L)'
<1>0. src \in Versions /\ StoreInv(K)
  BY DEF WafIInv, UserTypes, Versions, GhostInv
<1>1. CASE UNCHANGED vars
  BY <1>1, StutterStep
<1>2. CASE Edit
  BY <1>2, EditStep
<1>3. CASE \/ (\E line \in CommandLines : Type(line)) \/ NextCommand \/ Shutdown
           \/ Configure \/ Store \/ Stored \/ CheckConfigured \/ NotLoaded
           \/ InstallMissing \/ InstallFails \/ Post \/ Kill \/ KillInDistclean
           \/ (\E o \in Built : RemoveOutput(o)) \/ RemoveFolder
  <2>1. GhostInv(K)'
    BY <1>0, <1>3, QuietStep
  <2> QED  BY <2>1
<1>4. CASE Lock
  BY <1>0, <1>4, LockStep
<1>5. CASE LoadForClean \/ LoadForBuild
  BY <1>0, <1>5, LoadStep
<1>6. CASE Status
  BY <1>0, <1>6, StatusStep
<1>7. CASE Finish \/ Install \/ Uninstall \/ StatusUninstall \/ TasksDone \/ Unlink \/ Interrupt
  BY <1>7, LoopStep
<1>8. CASE CanRetrieveCache
  BY <1>8 DEF CanRetrieveCache
<1>9. CASE Run
  BY <1>0, <1>9, RunStep
<1>10. CASE CannotRun \/ RunFails
  BY <1>10, FailStep
<1>11. CASE Rename
  BY <1>11, RenameStep
<1>12. CASE (\E o \in Built : CleanRec(o)) \/ Clean
  BY <1>12, CleanStep
<1>13. CASE Distclean
  BY <1>13, DistcleanStep
<1>14. CASE KillInRun
  BY <1>0, <1>14, KillInRunStep
<1> QED
  BY <1>1, <1>2, <1>3, <1>4, <1>5, <1>6, <1>7, <1>8, <1>9, <1>10, <1>11, <1>12, <1>13, <1>14
  DEF Next, User, Command, Fault

BuildIInv == ~setting.wafcache /\ ~setting.removes => ConfigInv /\ \E K : GhostInv(K)

LEMMA BuildInit == Init => BuildIInv
<1> SUFFICES ASSUME Init PROVE ConfigInv /\ \E K : GhostInv(K)
  BY DEF BuildIInv
<1>1. ConfigInv
  BY DEF Init, ConfigInv, Configuring, Idle
<1>2. PICK K : K = {}
  OBVIOUS
<1>3. StoreInv(K)
  BY <1>2 DEF Init, StoreInv, PairsInv, DbOK, Holding
<1>4. GhostInv(K)
  BY <1>3 DEF Init, GhostInv, BuildInv, RunInv, SettledInv, Building
<1> QED  BY <1>1, <1>4

LEMMA BuildAlways ==
  ASSUME KeepsIncludes
  PROVE  Spec /\ [][~(Kill /\ pc \in Configuring)]_vars => []BuildIInv
<1>1. ASSUME WafIInv, WafIInv', InstIInv, BuildIInv, [Next]_vars, [~(Kill /\ pc \in Configuring)]_vars
      PROVE  BuildIInv'
  <2> SUFFICES ASSUME ~setting'.wafcache, ~setting'.removes PROVE ConfigInv' /\ \E L : GhostInv(L)'
    BY DEF BuildIInv
  <2>1. setting' = setting
    BY <1>1, SettingKept
  <2>2. ~setting.wafcache /\ ~setting.removes /\ ConfigInv /\ FilesInv /\ ErrorInv
    BY <1>1, <2>1 DEF BuildIInv, InstIInv
  <2>3. PICK K : GhostInv(K)
    BY <1>1, <2>2 DEF BuildIInv
  <2>4. ConfigInv'
    <3>1. CASE UNCHANGED vars
      <4>1. ~Kill
        BY <3>1 DEF Kill, Ends, vars
      <4> QED  BY <1>1, <2>2, <4>1, ConfigStep
    <3>2. CASE ~(Kill /\ pc \in Configuring)
      BY <1>1, <2>2, <3>2, ConfigStep
    <3> QED  BY <1>1, <3>1, <3>2
  <2>5. \E L : GhostInv(L)'
    BY <1>1, <2>2, <2>3, GhostStep
  <2> QED  BY <2>4, <2>5
<1> QED  BY <1>1, BuildInit, WafAlways, InstallAlways, PTL DEF Spec

\* BuildCorrect: a build that succeeds, and in which nothing was edited, leaves
\* every output as a build from nothing would make it, for any tasks, sources
\* and commands, any number of edits, and any kills, interrupts, failures and
\* removals of outputs before.  An edit must not change what a task's input
\* includes (KeepsIncludes), the build folder must not be removed: where that
\* is not so, the runs BuildNewInclude and BuildFolderRemoved show the contrary.
\* And no configuration is killed between its header and its lock file.
THEOREM BuildTheorem ==
  ASSUME KeepsIncludes
  PROVE  Spec /\ [][~(Kill /\ pc \in Configuring)]_vars
           => [](~setting.wafcache /\ ~setting.removes => BuildCorrect)
<1>1. ASSUME InstIInv, BuildIInv, ~setting.wafcache, ~setting.removes PROVE BuildCorrect
  <2> SUFFICES ASSUME Succeeded, p.is_install # UNINSTALL, NEW t \in TaskIds, NEW o \in Outputs(t)
               PROVE  out[o] # None /\ out[o].text = FromScratch[o].text
    BY DEF BuildCorrect
  <2>1. pc = "post" /\ ~p.edited /\ ~p.error
    BY <1>1 DEF Succeeded, InstIInv, ErrorInv, Steady
  <2>2. PICK K : GhostInv(K)
    BY <1>1 DEF BuildIInv
  <2>3. Building /\ DoneTasks = TaskIds
    BY <2>1 DEF Building, DoneTasks
  <2>4. \A u \in TaskIds : Settled(K, ctx, u)
    BY <2>1, <2>2, <2>3 DEF GhostInv, SettledInv
  <2>5. \A u \in TaskIds : \A x \in Outputs(u) : out[x].text = Compile(u, src, out, p.env)
    BY <2>4 DEF Settled
  <2>6. FromScratch[o].text = out[o].text
    <3>1. o \in Built
      BY DEF Built, Outputs
    <3> QED  BY <2>5, <3>1, ScratchIsSame
  <2> QED  BY <2>4, <2>6 DEF Settled
<1>2. InstIInv /\ BuildIInv => (~setting.wafcache /\ ~setting.removes => BuildCorrect)
  BY <1>1
<1> QED  BY <1>2, BuildAlways, InstallAlways, PTL

(* ----- the signature that a text has ----- *)

\* Q holds outputs, each with a signature and the text that was made when the
\* output got it.
SignedAs(Q, f, sig, text) == IF f \in Sources \cup {CfgFile} THEN sig = text ELSE <<f, sig, text>> \in Q

\* s is what t is signed with when it makes T: it is put together from the
\* signatures of just those texts that T is put together from.
Signs(Q, t, s, T) ==
  /\ s[1] = [i \in DOMAIN Tasks[t].inputs |-> s[1][i]]
  /\ s = <<s[1], s[2], T.flags>>
  /\ \A i \in DOMAIN Tasks[t].inputs : SignedAs(Q, Tasks[t].inputs[i], s[1][i], T.from[Tasks[t].inputs[i]])
  /\ \E x \in Versions :
       /\ DOMAIN T.from = ReadBy(t, x)
       /\ \A f \in ReadBy(t, x) \cap Sources : T.from[f] = FileText(x, f) /\ Exists(x, f)
       /\ IF Tasks[t].scan
          THEN /\ Names(s[2]) = Included(t, x)
               /\ \A e \in s[2] : e = <<e[1], e[2]>> /\ SignedAs(Q, e[1], e[2], T.from[e[1]])
          ELSE s[2] = SIG_NIL

\* No text has two signatures.
SignaturesInv(Q) ==
  /\ \A r \in Q : \E t \in TaskIds : r[1] \in Outputs(t) /\ Signs(Q, t, r[2], r[3])
  /\ \A r, q \in Q : r[1] = q[1] /\ r[3] = q[3] => r[2] = q[2]

LEMMA SignsMore ==
  ASSUME NEW Q, NEW R, Q \subseteq R, NEW t, NEW s, NEW T, Signs(Q, t, s, T)
  PROVE  Signs(R, t, s, T)
<1>1. \A f, sig, text : SignedAs(Q, f, sig, text) => SignedAs(R, f, sig, text)
  BY DEF SignedAs
<1> QED  BY <1>1 DEF Signs

LEMMA OneSignature ==
  ASSUME KeepsIncludes, NEW Q, SignaturesInv(Q), NEW t \in TaskIds, NEW T, NEW s, NEW z, Signs(Q, t, s, T), Signs(Q, t, z, T)
  PROVE  s = z
<1>1. \A f, sig, other, text : SignedAs(Q, f, sig, text) /\ SignedAs(Q, f, other, text) => sig = other
  BY DEF SignedAs, SignaturesInv
<1>2. s[1] = z[1]
  <2>1. \A i \in DOMAIN Tasks[t].inputs : s[1][i] = z[1][i]
    BY <1>1 DEF Signs
  <2>2. s[1] = [i \in DOMAIN Tasks[t].inputs |-> s[1][i]] /\ z[1] = [i \in DOMAIN Tasks[t].inputs |-> z[1][i]]
    BY DEF Signs
  <2> QED  BY <2>1, <2>2
<1>3. s[2] = z[2]
  <2>x. PICK x \in Versions :
          /\ DOMAIN T.from = ReadBy(t, x)
          /\ \A f \in ReadBy(t, x) \cap Sources : T.from[f] = FileText(x, f) /\ Exists(x, f)
          /\ IF Tasks[t].scan
             THEN /\ Names(s[2]) = Included(t, x)
                  /\ \A e \in s[2] : e = <<e[1], e[2]>> /\ SignedAs(Q, e[1], e[2], T.from[e[1]])
             ELSE s[2] = SIG_NIL
    BY DEF Signs
  <2>y. PICK y \in Versions :
          /\ DOMAIN T.from = ReadBy(t, y)
          /\ \A f \in ReadBy(t, y) \cap Sources : T.from[f] = FileText(y, f) /\ Exists(y, f)
          /\ IF Tasks[t].scan
             THEN /\ Names(z[2]) = Included(t, y)
                  /\ \A e \in z[2] : e = <<e[1], e[2]>> /\ SignedAs(Q, e[1], e[2], T.from[e[1]])
             ELSE z[2] = SIG_NIL
    BY DEF Signs
  <2>1. CASE ~Tasks[t].scan
    BY <2>x, <2>y, <2>1
  <2>2. CASE Tasks[t].scan
    <3>1. ASSUME NEW f \in ReadBy(t, x) \cap Sources PROVE x[f] = y[f] /\ Exists(x, f) /\ Exists(y, f)
      <4>1. T.from[f] = <<f, x[f]>> /\ T.from[f] = <<f, y[f]>> /\ Exists(x, f) /\ Exists(y, f)
        BY <2>x, <2>y, <3>1 DEF FileText
      <4>2. <<f, x[f]>>[2] = <<f, y[f]>>[2]
        BY <4>1
      <4> QED  BY <4>1, <4>2
    <3>2. Included(t, x) \subseteq Sources \cup Built /\ Elements(Tasks[t].inputs) \subseteq Sources \cup Built
      BY IncludedFiles, FilesAssumption
    <3>3. \A f \in Included(t, x) \ Built : x[f] = y[f]
      BY <3>1, <3>2 DEF ReadBy
    <3>4. \A f \in Elements(Tasks[t].inputs) \ Built : Exists(x, f) /\ Exists(y, f)
      BY <3>1, <3>2 DEF ReadBy
    <3>5. Included(t, x) = Included(t, y)
      BY <3>3, <3>4, SameIncludes
    <3>6. Names(s[2]) = Names(z[2])
      BY <2>x, <2>y, <2>2, <3>5
    <3>7. ASSUME NEW e \in s[2] PROVE e \in z[2]
      <4>1. PICK d \in z[2] : d[1] = e[1]
        BY <3>6, <3>7 DEF Names
      <4>2. d[2] = e[2]
        BY <1>1, <2>x, <2>y, <2>2, <3>7, <4>1
      <4>3. e = <<e[1], e[2]>> /\ d = <<d[1], d[2]>>
        BY <2>x, <2>y, <2>2, <3>7
      <4> QED  BY <4>1, <4>2, <4>3
    <3>8. ASSUME NEW e \in z[2] PROVE e \in s[2]
      <4>1. PICK d \in s[2] : d[1] = e[1]
        BY <3>6, <3>8 DEF Names
      <4>2. d[2] = e[2]
        BY <1>1, <2>x, <2>y, <2>2, <3>8, <4>1
      <4>3. e = <<e[1], e[2]>> /\ d = <<d[1], d[2]>>
        BY <2>x, <2>y, <2>2, <3>8
      <4> QED  BY <4>1, <4>2, <4>3
    <3> QED  BY <3>7, <3>8
  <2> QED  BY <2>1, <2>2
<1>4. s = <<s[1], s[2], T.flags>> /\ z = <<z[1], z[2], T.flags>>
  BY DEF Signs
<1> QED  BY <1>2, <1>3, <1>4

\* The outputs of a task with the signature that its text has.
Signed(t, s, T) == {<<o, s, T>> : o \in Outputs(t)}

LEMMA MoreSignatures ==
  ASSUME KeepsIncludes, NEW Q, SignaturesInv(Q), NEW t \in TaskIds, NEW s, NEW T, Signs(Q, t, s, T)
  PROVE  SignaturesInv(Q \cup Signed(t, s, T))
<1> DEFINE R == Q \cup Signed(t, s, T)
<1>1. ASSUME NEW r \in R PROVE \E u \in TaskIds : r[1] \in Outputs(u) /\ Signs(R, u, r[2], r[3])
  <2>1. CASE r \in Q
    <3>1. PICK u \in TaskIds : r[1] \in Outputs(u) /\ Signs(Q, u, r[2], r[3])
      BY <2>1 DEF SignaturesInv
    <3> QED  BY <3>1, SignsMore
  <2>2. CASE r \in Signed(t, s, T)
    <3>1. r[1] \in Outputs(t) /\ r[2] = s /\ r[3] = T
      BY <2>2 DEF Signed
    <3>2. Signs(R, t, s, T)
      BY SignsMore
    <3> QED  BY <3>1, <3>2
  <2> QED  BY <2>1, <2>2
<1>2. ASSUME NEW r \in Signed(t, s, T), NEW q \in R, r[1] = q[1], r[3] = q[3] PROVE r[2] = q[2]
  <2>0. r[1] \in Outputs(t) /\ r[2] = s /\ r[3] = T
    BY DEF Signed
  <2>1. CASE q \in Q
    <3>1. PICK u \in TaskIds : q[1] \in Outputs(u) /\ Signs(Q, u, q[2], q[3])
      BY <2>1 DEF SignaturesInv
    <3>2. u = t
      BY <1>2, <2>0, <3>1, OutputsAssumption
    <3> QED  BY <1>2, <2>0, <3>1, <3>2, OneSignature
  <2>2. CASE q \in Signed(t, s, T)
    BY <2>0, <2>2 DEF Signed
  <2> QED  BY <2>1, <2>2
<1>3. \A r, q \in R : r[1] = q[1] /\ r[3] = q[3] => r[2] = q[2]
  BY <1>2 DEF SignaturesInv
<1> QED  BY <1>1, <1>3 DEF SignaturesInv

\* A build at task t, before which nothing was edited: the tasks before it are
\* settled, and what they have made has its signature in Q.
Ready(K, Q, c, t) ==
  /\ SourcesCurrent(src, c) /\ BuildContextOK(c) /\ NodesOK(K, src, LockEnv, c)
  /\ \A f \in AllInputs \ Built : Found(c, f)
  /\ \A u \in 1..(t - 1) : Settled(K, c, u)
  /\ \A u \in 1..(t - 1) : \A o \in Outputs(u) : <<o, c.node_sigs[BuildNode(o)], out[o].text>> \in Q

\* The file of each node is signed as what it has in it.
LEMMA SignedFile ==
  ASSUME NEW K, NEW Q, NEW c, NEW t \in TaskIds, Ready(K, Q, c, t), src \in Versions,
         Compiles(t, src, out), NEW f \in ReadBy(t, src),
         NEW n, n = NodeOf(c, f), n \in DOMAIN c.node_sigs
  PROVE  SignedAs(Q, f, c.node_sigs[n], TextOf(f, src, out))
<1>0. Sources \cap Built = {} /\ CfgFile \in Built /\ There(f, src, out) /\ t \in Nat
  BY FilesApart, BuildContextAssumption DEF Compiles, TaskIds
<1>1. CASE f \in Built
  <2>0. n = BuildNode(f)
    BY <1>1 DEF NodeOf
  <2>1. CASE f = CfgFile
    <3>1. c.node_sigs[BuildNode(f)] = CfgSig
      BY <2>1 DEF Ready, BuildContextOK
    <3>2. CfgSig = out[CfgFile].text
      BY <1>0, <1>1, <2>1 DEF CfgSig, There, None, Nothing
    <3> QED  BY <1>1, <2>0, <2>1, <3>1, <3>2 DEF SignedAs, TextOf
  <2>2. CASE f # CfgFile
    <3>1. PICK u \in 1..(t - 1) : f \in Outputs(u)
      BY <1>1, <2>2, OrderAssumption DEF Versions, Outputs
    <3>2. <<f, c.node_sigs[BuildNode(f)], out[f].text>> \in Q
      BY <3>1 DEF Ready
    <3> QED  BY <1>0, <1>1, <2>0, <2>2, <3>2 DEF SignedAs, TextOf
  <2> QED  BY <2>1, <2>2
<1>2. CASE f \notin Built
  <2>1. f \in Sources
    BY <1>2, IncludedFiles, FilesAssumption DEF ReadBy
  <2>2. n[1] = f
    BY <1>2 DEF NodeOf, FileNode
  <2>3. Known(c, f)
    BY <2>2 DEF Ready, NodesOK
  <2>4. Found(c, f) /\ n = FileNode(c, f)
    BY <1>2, <2>3 DEF Known, NodeOf
  <2>5. c.node_sigs[n] = FileText(src, f)
    BY <2>1, <2>4 DEF Ready, SourcesCurrent
  <2> QED  BY <1>2, <2>1, <2>5 DEF SignedAs, TextOf
<1> QED  BY <1>1, <1>2

\* What t is signed with now is the signature of what it would make now.
LEMMA SignedNow ==
  ASSUME KeepsIncludes, NEW K, NEW Q, NEW c, NEW t \in TaskIds, Ready(K, Q, c, t), src \in Versions,
         NotOlderThan(LockEnv, LockEnv), Compiles(t, src, out),
         NEW s, s = Signature(c, t, LockEnv), s # NoSig,
         Tasks[t].scan => \E x \in Versions :
           NotAfter(x, src) /\ Explains(t, x, Names(NodeDeps(c, t))) /\ UpTo(s.imp, x)
  PROVE  Signs(Q, t, s.sig, Compile(t, src, out, LockEnv))
<1>T. PICK T : T = Compile(t, src, out, LockEnv)
  OBVIOUS
<1>z. PICK z : z = s.sig
  OBVIOUS
<1>0. Sources \cap Built = {} /\ MaxVersion \in Nat /\ Elements(Tasks[t].inputs) \subseteq Sources \cup Built
  BY FilesApart, FilesAssumption
<1>1. /\ HasExplicit(c, t) /\ (Tasks[t].scan => HasImplicit(c, t))
      /\ z[1] = SigExplicitDeps(c, t)
      /\ Tasks[t].scan => z[2] = ComputeSigImplicitDeps(c, t)
      /\ s.imp = z[2]
  BY <1>z, SignatureIs
<1>2. z = <<z[1], z[2], HashEnvVars(LockEnv, Tasks[t].vars)>> /\ (~Tasks[t].scan => z[2] = SIG_NIL)
  <2>1. z = <<SigExplicitDeps(c, t), IF Tasks[t].scan THEN ComputeSigImplicitDeps(c, t) ELSE SIG_NIL, SigVars(t, LockEnv)>>
    BY <1>1, <1>z DEF Signature
  <2> QED  BY <2>1 DEF SigVars
<1>3. /\ T.flags = HashEnvVars(LockEnv, Tasks[t].vars)
      /\ T.from = [f \in ReadBy(t, src) |-> TextOf(f, src, out)]
  BY <1>T DEF Compile
<1>4. z[1] = [i \in DOMAIN Tasks[t].inputs |-> z[1][i]]
  BY <1>1 DEF SigExplicitDeps
<1>5. ASSUME NEW i \in DOMAIN Tasks[t].inputs
      PROVE  SignedAs(Q, Tasks[t].inputs[i], z[1][i], T.from[Tasks[t].inputs[i]])
  <2>f. PICK f : f = Tasks[t].inputs[i]
    OBVIOUS
  <2>n. PICK n : n = NodeOf(c, f)
    OBVIOUS
  <2>1. f \in ReadBy(t, src)
    BY <2>f DEF ReadBy, Elements
  <2>2. n \in DOMAIN c.node_sigs /\ z[1][i] = c.node_sigs[n]
    BY <1>1, <2>f, <2>n DEF HasExplicit, ExplicitNodes, SigExplicitDeps
  <2>3. SignedAs(Q, f, c.node_sigs[n], TextOf(f, src, out))
    BY <2>n, <2>1, <2>2, SignedFile
  <2> QED  BY <1>3, <2>f, <2>1, <2>2, <2>3
<1>6. \A f \in ReadBy(t, src) \cap Sources : T.from[f] = FileText(src, f) /\ Exists(src, f)
  BY <1>0, <1>3 DEF TextOf, Compiles, There
<1>7. ASSUME Tasks[t].scan
      PROVE  /\ Names(z[2]) = Included(t, src)
             /\ \A e \in z[2] : e = <<e[1], e[2]>> /\ SignedAs(Q, e[1], e[2], T.from[e[1]])
  <2>1. PICK x \in Versions : NotAfter(x, src) /\ Explains(t, x, Names(NodeDeps(c, t))) /\ UpTo(z[2], x)
    BY <1>1, <1>7
  <2>2. ASSUME NEW e \in z[2]
        PROVE  \E n \in NodeDeps(c, t) :
                 e = <<n[1], c.node_sigs[n]>> /\ n \in DOMAIN c.node_sigs /\ n = NodeOf(c, n[1]) /\ Known(c, n[1])
    <3>1. PICK n \in NodeDeps(c, t) : e = <<n[1], c.node_sigs[n]>>
      BY <1>1, <1>7, <2>2 DEF ComputeSigImplicitDeps
    <3>2. n \in DOMAIN c.node_sigs
      BY <1>1, <1>7 DEF HasImplicit
    <3> QED  BY <3>1, <3>2 DEF Ready, NodesOK
  <2>3. Names(z[2]) = Names(NodeDeps(c, t))
    <3>1. z[2] = {<<n[1], c.node_sigs[n]>> : n \in NodeDeps(c, t)}
      BY <1>1, <1>7 DEF ComputeSigImplicitDeps
    <3>2. ASSUME NEW e \in z[2] PROVE e[1] \in Names(NodeDeps(c, t))
      BY <3>1, <3>2 DEF Names
    <3>3. ASSUME NEW n \in NodeDeps(c, t) PROVE n[1] \in Names(z[2])
      <4>1. PICK e \in z[2] : e = <<n[1], c.node_sigs[n]>>
        BY <3>1, <3>3
      <4>2. e[1] = n[1]
        BY <4>1
      <4> QED  BY <4>2 DEF Names
    <3> QED  BY <3>2, <3>3 DEF Names
  <2>4. ASSUME NEW e \in z[2], e[1] \in Sources PROVE e[2] = <<e[1], src[e[1]]>>
    <3>1. PICK n \in NodeDeps(c, t) :
            e = <<n[1], c.node_sigs[n]>> /\ n \in DOMAIN c.node_sigs /\ n = NodeOf(c, n[1]) /\ Known(c, n[1])
      BY <2>2, <2>4
    <3>2. n[1] = e[1] /\ e[2] = c.node_sigs[n] /\ e[1] \notin Built
      BY <1>0, <2>4, <3>1
    <3>3. n = FileNode(c, e[1]) /\ Found(c, e[1])
      BY <3>1, <3>2 DEF NodeOf, Known
    <3> QED  BY <2>4, <3>2, <3>3 DEF Ready, SourcesCurrent, FileText
  <2>5. \A f \in Included(t, x) \ Built : x[f] = src[f]
    <3>1. Explains(t, x, Names(z[2])) /\ UpTo(z[2], x)
      BY <2>1, <2>3
    <3> QED  BY <2>1, <2>4, <3>1, OnlyVersions
  <2>6. ASSUME NEW f \in Elements(Tasks[t].inputs) \ Built PROVE Exists(x, f) /\ Exists(src, f)
    <3>1. f \in Sources /\ Exists(src, f)
      BY <1>0, <1>6, <2>6 DEF ReadBy
    <3>2. x[f] <= src[f] /\ x[f] \in Nat /\ src[f] \in Nat
      BY <1>0, <2>1, <3>1 DEF NotAfter, Versions
    <3> QED  BY <1>0, <3>1, <3>2 DEF Exists
  <2>7. Included(t, x) = Included(t, src)
    BY <2>5, <2>6, SameIncludes
  <2>8. Names(z[2]) = Included(t, src)
    <3>1. Names(z[2]) \subseteq Included(t, src)
      BY <2>1, <2>3, <2>7 DEF Explains
    <3>2. ASSUME NEW g \in Included(t, src) \ Names(z[2]) PROVE FALSE
      <4>1. g \in Sources /\ x[g] = MaxVersion + 1
        BY <2>1, <2>3, <2>7, <3>2 DEF Explains
      <4>2. src[g] = MaxVersion + 1
        BY <1>0, <2>5, <2>7, <3>2, <4>1
      <4>3. Exists(src, g)
        BY <1>6, <3>2, <4>1 DEF ReadBy
      <4> QED  BY <1>0, <4>2, <4>3 DEF Exists
    <3> QED  BY <3>1, <3>2
  <2>9. ASSUME NEW e \in z[2] PROVE e = <<e[1], e[2]>> /\ SignedAs(Q, e[1], e[2], T.from[e[1]])
    <3>1. PICK n \in NodeDeps(c, t) :
            e = <<n[1], c.node_sigs[n]>> /\ n \in DOMAIN c.node_sigs /\ n = NodeOf(c, n[1]) /\ Known(c, n[1])
      BY <2>2, <2>9
    <3>f. PICK f : f = e[1]
      OBVIOUS
    <3>2. f \in ReadBy(t, src) /\ n = NodeOf(c, f) /\ e[2] = c.node_sigs[n] /\ e = <<f, e[2]>>
      BY <2>8, <2>9, <3>1, <3>f DEF ReadBy, Names
    <3>3. SignedAs(Q, f, c.node_sigs[n], TextOf(f, src, out))
      BY <3>1, <3>2, SignedFile
    <3> QED  BY <1>3, <3>f, <3>2, <3>3
  <2> QED  BY <2>8, <2>9
<1>8. DOMAIN T.from = ReadBy(t, src)
  BY <1>3
<1>9. Signs(Q, t, z, T)
  BY <1>2, <1>3, <1>4, <1>5, <1>6, <1>7, <1>8 DEF Signs
<1> QED  BY <1>T, <1>z, <1>9

\* Where everything it reads is there, the task at hand has a signature.
LEMMA HasSignature ==
  ASSUME NEW K, NEW Q, NEW c, NEW t \in TaskIds, Ready(K, Q, c, t), src \in Versions,
         NEW d, d = SigImplicitDeps(c, t, src), Ready(K, Q, d, t), OpenShape(c)
  PROVE  Signature(d, t, LockEnv) # NoSig
<1>0. Sources \cap Built = {} /\ CfgFile \in Built /\ t \in Nat /\ Elements(Tasks[t].inputs) \subseteq Sources \cup Built
  BY FilesApart, FilesAssumption, BuildContextAssumption DEF TaskIds
<1>1. ASSUME NEW f \in ReadBy(t, src), Known(d, f) PROVE NodeOf(d, f) \in DOMAIN d.node_sigs
  <2>1. CASE f \in Built
    <3>1. CASE f = CfgFile
      BY <2>1, <3>1 DEF Ready, BuildContextOK, NodeOf
    <3>2. CASE f # CfgFile
      <4>1. PICK u \in 1..(t - 1) : f \in Outputs(u)
        BY <2>1, <3>2, OrderAssumption DEF Versions, Outputs
      <4> QED  BY <2>1, <4>1 DEF Ready, Settled, NodeOf
    <3> QED  BY <3>1, <3>2
  <2>2. CASE f \notin Built
    <3>1. f \in Sources
      BY <2>2, IncludedFiles, FilesAssumption DEF ReadBy
    <3> QED  BY <1>1, <2>2, <3>1 DEF Ready, SourcesCurrent, Known, NodeOf
  <2> QED  BY <2>1, <2>2
<1>2. HasExplicit(d, t)
  <2> SUFFICES ASSUME NEW i \in DOMAIN Tasks[t].inputs PROVE NodeOf(d, Tasks[t].inputs[i]) \in DOMAIN d.node_sigs
    BY DEF HasExplicit, ExplicitNodes
  <2>f. PICK f : f = Tasks[t].inputs[i]
    OBVIOUS
  <2>1. f \in Elements(Tasks[t].inputs) /\ f \in ReadBy(t, src)
    BY <2>f DEF Elements, ReadBy
  <2>2. Known(d, f)
    BY <2>1 DEF Known, Ready, BuildContextOK, AllInputs
  <2> QED  BY <1>1, <2>f, <2>1, <2>2
<1>3. ASSUME Tasks[t].scan PROVE HasImplicit(d, t)
  <2>1. CASE SameDeps(c, t)
    BY <1>3, <2>1 DEF SigImplicitDeps, SameDeps
  <2>2. CASE ~SameDeps(c, t)
    <3>1. d = Scan(c, t, src)
      BY <1>3, <2>2 DEF SigImplicitDeps
    <3>n. PICK names : names = Included(t, src)
      OBVIOUS
    <3>l. PICK looked : looked = FindResources(c, names \ Built, src)
      OBVIOUS
    <3>s. PICK found : found = {NodeOf(looked, f) : f \in {g \in names : Known(looked, g)}}
      OBVIOUS
    <3>2. d = [looked EXCEPT !.node_deps = Update(@, [u \in {t} |-> found])]
      BY <3>1, <3>n, <3>l, <3>s DEF Scan
    <3>3. OpenShape(looked)
      <4>1. names \ Built \subseteq Sources /\ NodesOK(K, src, LockEnv, c)
        BY <3>n, IncludedFiles DEF Ready
      <4> QED  BY <3>l, <4>1, FoundResources
    <3>4. /\ d.childs = looked.childs /\ d.declared = looked.declared
          /\ d.node_deps = Update(looked.node_deps, [u \in {t} |-> found])
      BY <3>2, <3>3 DEF OpenShape, StoredFields
    <3>5. NodeDeps(d, t) = found
      <4>1. t \in DOMAIN d.node_deps /\ d.node_deps[t] = found
        BY <3>4 DEF Update
      <4> QED  BY <4>1 DEF NodeDeps
    <3>6. ASSUME NEW n \in found PROVE n \in DOMAIN d.node_sigs
      <4>1. PICK f \in names : Known(looked, f) /\ n = NodeOf(looked, f)
        BY <3>s
      <4>2. Known(d, f) /\ n = NodeOf(d, f) /\ f \in ReadBy(t, src)
        BY <3>4, <3>n, <4>1 DEF Known, Found, NodeOf, FileNode, ReadBy
      <4> QED  BY <1>1, <4>2
    <3> QED  BY <3>5, <3>6 DEF HasImplicit
  <2> QED  BY <2>1, <2>2
<1> QED  BY <1>2, <1>3 DEF Signature, NoSig

(* ----- the invariant of what is not run again ----- *)

\* The last run of t, as the context c knows it: it made T, and its outputs
\* are there, signed as they were then.
LastRun(Q, F, c, t, T) ==
  /\ t \in DOMAIN c.task_sigs
  /\ Signs(Q, t, c.task_sigs[t].sig, T)
  /\ \A o \in Outputs(t) :
       /\ F[o] # None
       /\ BuildNode(o) \in DOMAIN c.node_sigs
       /\ c.node_sigs[BuildNode(o)] = c.task_sigs[t].sig

SavedInv(Q) ==
  /\ SignaturesInv(Q)
  /\ ~folder => \A o \in Built \ {CfgFile} : out[o] = None
  /\ \A t \in TaskIds : saved[t] # None => db # None /\ LastRun(Q, out, db, t, saved[t])
MadeInv(Q) ==
  pc \in Holding => \A t \in TaskIds : made[t] # None => LastRun(Q, out, ctx, t, made[t])

\* In a build, what the tasks that are done have made has its signature.
FreshInv(Q) ==
  Building /\ ~p.edited /\ ~p.error /\ p.is_install # UNINSTALL =>
    \A u \in DoneTasks : \A o \in Outputs(u) : <<o, ctx.node_sigs[BuildNode(o)], out[o].text>> \in Q

\* Nothing runs in an uninstall, or after a failure.
RunningInv == pc = "run" => ~p.error /\ p.is_install # UNINSTALL

NeedInv(Q) == SavedInv(Q) /\ MadeInv(Q) /\ FreshInv(Q) /\ RunningInv /\ NoNeedlessRun

LEMMA LastRunStays ==
  ASSUME NEW Q, NEW R, Q \subseteq R, NEW F, NEW G, NEW c, NEW d, NEW t, NEW T, LastRun(Q, F, c, t, T),
         \A o \in Outputs(t) : F[o] # None => G[o] # None,
         t \in DOMAIN d.task_sigs, d.task_sigs[t] = c.task_sigs[t],
         \A o \in Outputs(t) : BuildNode(o) \in DOMAIN c.node_sigs =>
           BuildNode(o) \in DOMAIN d.node_sigs /\ d.node_sigs[BuildNode(o)] = c.node_sigs[BuildNode(o)]
  PROVE  LastRun(R, G, d, t, T)
BY SignsMore DEF LastRun

\* What most steps do to the database and the files: nothing that counts.
LEMMA SavedFrame ==
  ASSUME NEW Q, SavedInv(Q), db' = db, folder' \in {folder, TRUE},
         \A t \in TaskIds : saved'[t] \in {saved[t], None},
         ~folder' => \A o \in Built \ {CfgFile} : out'[o] \in {out[o], None},
         \A t \in TaskIds : saved'[t] # None => \A o \in Outputs(t) : out[o] # None => out'[o] # None
  PROVE  SavedInv(Q)'
<1>1. ~folder' => \A o \in Built \ {CfgFile} : out'[o] = None
  BY DEF SavedInv
<1>2. ASSUME NEW t \in TaskIds, saved'[t] # None PROVE db' # None /\ LastRun(Q, out', db', t, saved'[t])
  <2>1. saved'[t] = saved[t] /\ db # None /\ LastRun(Q, out, db, t, saved[t])
    BY <1>2 DEF SavedInv
  <2> QED  BY <1>2, <2>1 DEF LastRun
<1> QED  BY <1>1, <1>2 DEF SavedInv

\* Without a context at hand there is nothing more to say.
LEMMA NotHeld ==
  ASSUME NEW Q, SavedInv(Q)', pc' \notin Holding
  PROVE  NeedInv(Q)'
BY DEF NeedInv, MadeInv, FreshInv, RunningInv, NoNeedlessRun, Building, Holding

LEMMA QuietSaved ==
  ASSUME NEW Q, SavedInv(Q), FilesInv, ContextInv, ~setting.removes,
         \/ (\E line \in CommandLines : Type(line)) \/ NextCommand \/ Shutdown
         \/ Configure \/ Store \/ Stored \/ Lock \/ CheckConfigured \/ NotLoaded
         \/ InstallMissing \/ InstallFails \/ Post \/ Kill \/ KillInDistclean \/ Distclean
         \/ (\E o \in Built : RemoveOutput(o)) \/ RemoveFolder
  PROVE  NeedInv(Q)'
<1> USE DEF user, history, configured
<1>n. \A t \in TaskIds : NothingMade[t] = None
  BY DEF NothingMade
<1>m. \A t \in TaskIds : CfgFile \notin Outputs(t)
  BY OutputsAssumption
<1>1. CASE \/ (\E line \in CommandLines : Type(line)) \/ NextCommand \/ Shutdown
           \/ Store \/ Stored \/ Lock \/ CheckConfigured \/ NotLoaded
           \/ InstallMissing \/ InstallFails \/ Post \/ Kill
  <2>1. UNCHANGED <<out, folder, db, saved>>
    BY <1>1 DEF Type, NextCommand, Shutdown, Store, Stored, Lock, CheckConfigured, NotLoaded, Fails,
                InstallMissing, InstallFails, NotInstalled, Post, Kill, Goto
  <2>2. pc' \notin Holding
    BY <1>1 DEF Type, NextCommand, FirstStep, Shutdown, Store, Stored, Lock, CheckConfigured, NotLoaded, Fails,
                InstallMissing, InstallFails, NotInstalled, Post, Kill, Goto, Ends, Holding
  <2>3. SavedInv(Q)'
    BY <2>1, SavedFrame
  <2> QED  BY <2>2, <2>3, NotHeld
<1>2. CASE Configure
  <2>1. /\ UNCHANGED <<folder, db, saved>> /\ pc' \notin Holding
        /\ \A o \in Built \ {CfgFile} : out'[o] = out[o]
    BY <1>2 DEF Configure, Goto, Holding, FilesInv
  <2>2. \A t \in TaskIds : \A o \in Outputs(t) : o \in Built \ {CfgFile}
    BY <1>m DEF Built, Outputs
  <2>3. SavedInv(Q)'
    BY <2>1, <2>2, SavedFrame
  <2> QED  BY <2>1, <2>3, NotHeld
<1>3. CASE KillInDistclean \/ Distclean
  <2>1. pc' \notin Holding
    BY <1>3 DEF KillInDistclean, Distclean, Ends, Goto, Holding
  <2>2. CASE UNCHANGED <<out, folder, db, saved>>
    <3>1. SavedInv(Q)'
      BY <2>2, SavedFrame
    <3> QED  BY <2>1, <3>1, NotHeld
  <2>3. CASE /\ saved' = NothingMade /\ (folder' = folder \/ out' = [o \in Built |-> None])
             /\ out' \in {out, [o \in Built |-> None]}
    <3>1. ~folder' => \A o \in Built \ {CfgFile} : out'[o] = None
      BY <2>3 DEF SavedInv
    <3>2. SavedInv(Q)'
      BY <1>n, <2>3, <3>1 DEF SavedInv
    <3> QED  BY <2>1, <3>2, NotHeld
  <2> QED  BY <1>3, <2>2, <2>3 DEF KillInDistclean, Distclean
<1>4. ASSUME NEW o \in Built, RemoveOutput(o) PROVE NeedInv(Q)'
  <2>1. /\ UNCHANGED <<folder, db>> /\ pc' = pc /\ pc = "idle"
        /\ out' = [out EXCEPT ![o] = None] /\ saved' = Forget(saved, o)
    BY <1>4 DEF RemoveOutput
  <2>2. \A t \in TaskIds : saved'[t] = IF o \in Outputs(t) THEN None ELSE saved[t]
    BY <2>1 DEF Forget, Maker
  <2>3. SavedInv(Q)'
    <3>1. \A x \in Built : out'[x] = IF x = o THEN None ELSE out[x]
      BY <2>1 DEF FilesInv
    <3>2. \A t \in TaskIds : Outputs(t) \subseteq Built
      BY DEF Outputs, Built
    <3> QED  BY <2>1, <2>2, <3>1, <3>2, SavedFrame
  <2> QED  BY <2>1, <2>3, NotHeld DEF Holding
<1>5. CASE RemoveFolder
  BY <1>5 DEF RemoveFolder
<1> QED  BY <1>1, <1>2, <1>3, <1>4, <1>5

\* A context, or the database, that is held on to.
LEMMA MadeFrame ==
  ASSUME NEW Q, MadeInv(Q), pc \in Holding, ctx' = ctx, \A t \in TaskIds : made'[t] \in {made[t], None},
         \A t \in TaskIds : made'[t] # None => \A o \in Outputs(t) : out[o] # None => out'[o] # None
  PROVE  MadeInv(Q)'
<1>1. ASSUME NEW t \in TaskIds, made'[t] # None PROVE LastRun(Q, out', ctx', t, made'[t])
  <2>1. made'[t] = made[t] /\ LastRun(Q, out, ctx, t, made[t])
    BY <1>1 DEF MadeInv
  <2> QED  BY <1>1, <2>1 DEF LastRun
<1> QED  BY <1>1 DEF MadeInv

\* The steps of the loop that leave the context alone, and the end of a save.
LEMMA LoopNeed ==
  ASSUME NEW Q, NeedInv(Q), WafIInv,
         Finish \/ Install \/ Uninstall \/ StatusUninstall \/ TasksDone \/ Unlink \/ Interrupt
  PROVE  NeedInv(Q)'
<1> USE DEF user, history, configured, Goto, Faulty
<1>0. /\ UNCHANGED <<out, folder, ctx, made>>
      /\ \/ UNCHANGED <<db, saved>>
         \/ saved' = NothingMade
  BY DEF Finish, Install, Uninstall, StatusUninstall, TasksDone, Unlink, Interrupt
<1>1. pc \in Holding /\ pc' # "run" /\ SavedInv(Q) /\ MadeInv(Q)
  BY LoopProgress DEF Holding, NeedInv
<1>2. SavedInv(Q)'
  <2>1. CASE UNCHANGED <<db, saved>>
    BY <1>0, <1>1, <2>1, SavedFrame
  <2>2. CASE saved' = NothingMade
    BY <1>0, <1>1, <2>2 DEF SavedInv, NothingMade
  <2> QED  BY <1>0, <2>1, <2>2
<1>3. MadeInv(Q)'
  BY <1>0, <1>1, MadeFrame
<1>4. FreshInv(Q)'
  BY <1>0, LoopProgress DEF NeedInv, FreshInv
<1> QED  BY <1>1, <1>2, <1>3, <1>4 DEF NeedInv, RunningInv, NoNeedlessRun

LEMMA RenameNeed ==
  ASSUME NEW Q, NeedInv(Q), Rename
  PROVE  NeedInv(Q)'
<1> USE DEF user, history, configured, Ends
<1>0. /\ UNCHANGED <<out, folder>> /\ pc = "rename" /\ db' = Saved(ctx) /\ saved' = made
      /\ \/ pc' \in {"idle", "next"}
         \/ pc' = "post" /\ p.command # "clean" /\ UNCHANGED <<p, ctx, made>>
  BY DEF Rename
<1>1. SavedInv(Q) /\ MadeInv(Q) /\ pc \in Holding
  BY <1>0 DEF NeedInv, Holding
<1>2. PICK d : d = Saved(ctx)
  OBVIOUS
<1>3. d.node_sigs = ctx.node_sigs /\ d.task_sigs = ctx.task_sigs /\ d # None
  BY <1>2 DEF Saved, EmptyContext, None
<1>4. SavedInv(Q)'
  <2>1. ASSUME NEW t \in TaskIds, made[t] # None PROVE LastRun(Q, out, d, t, made[t])
    <3>1. LastRun(Q, out, ctx, t, made[t])
      BY <1>1, <2>1 DEF MadeInv
    <3> QED  BY <1>3, <3>1 DEF LastRun
  <2> QED  BY <1>0, <1>1, <1>2, <1>3, <2>1 DEF SavedInv
<1>5. CASE pc' \in {"idle", "next"}
  <2>1. pc' \notin Holding
    BY <1>5 DEF Holding
  <2> QED  BY <1>4, <2>1, NotHeld
<1>6. CASE pc' = "post" /\ p.command # "clean" /\ UNCHANGED <<p, ctx, made>>
  <2>1. MadeInv(Q)'
    BY <1>0, <1>1, <1>6, MadeFrame
  <2>2. FreshInv(Q)'
    <3>1. Building /\ DoneTasks' = DoneTasks
      BY <1>0, <1>6 DEF Building, DoneTasks
    <3> QED  BY <1>0, <1>6, <3>1 DEF NeedInv, FreshInv
  <2> QED  BY <1>4, <1>6, <2>1, <2>2 DEF NeedInv, RunningInv, NoNeedlessRun
<1> QED  BY <1>0, <1>5, <1>6

\* A task that fails is forgotten, in the database too if its outputs are gone.
LEMMA FailNeed ==
  ASSUME NEW Q, NeedInv(Q), WafIInv, FilesInv, CannotRun \/ RunFails
  PROVE  NeedInv(Q)'
<1> USE DEF user, history, configured
<1>t. PICK t : t = p.todo
  OBVIOUS
<1>0. /\ pc = "run" /\ pc' = "finish" /\ UNCHANGED <<folder, db, ctx>> /\ Failing /\ t \in TaskIds
      /\ p' = [p EXCEPT !.error = TRUE] /\ made' = [made EXCEPT ![t] = None]
      /\ \/ out' = out /\ saved' = saved
         \/ saved' = [saved EXCEPT ![t] = None]
  BY <1>t DEF CannotRun, RunFails, Failing, WafIInv, ProcessInv
<1>p. p'.error
  <2>1. DOMAIN p = DOMAIN Idle
    BY DEF WafIInv, ProcessInv
  <2> QED  BY <1>0, <2>1 DEF Idle
<1>1. SavedInv(Q) /\ MadeInv(Q) /\ pc \in Holding /\ folder /\ DOMAIN made = TaskIds /\ DOMAIN saved = TaskIds
  BY <1>0 DEF NeedInv, Holding, WafIInv, ContextInv
<1>2. ASSUME NEW u \in TaskIds, u # t, NEW o \in Outputs(u) PROVE out'[o] = out[o]
  <2>1. o \in Built /\ o \notin Outputs(t)
    BY <1>0, <1>2, OutputsAssumption DEF Built, Outputs
  <2> QED  BY <1>0, <1>t, <2>1, FailedOutputs
<1>3. SavedInv(Q)'
  <2>1. \A u \in TaskIds : saved'[u] \in {saved[u], None}
    BY <1>0, <1>1
  <2>2. ASSUME NEW u \in TaskIds, saved'[u] # None, NEW o \in Outputs(u), out[o] # None PROVE out'[o] # None
    <3>1. CASE u = t
      BY <1>0, <1>1, <2>2, <3>1
    <3>2. CASE u # t
      BY <1>2, <2>2, <3>2
    <3> QED  BY <3>1, <3>2
  <2> QED  BY <1>0, <1>1, <2>1, <2>2, SavedFrame
<1>4. MadeInv(Q)'
  <2>1. \A u \in TaskIds : made'[u] = IF u = t THEN None ELSE made[u]
    BY <1>0, <1>1
  <2> QED  BY <1>0, <1>1, <1>2, <2>1, MadeFrame
<1> QED  BY <1>0, <1>p, <1>3, <1>4 DEF NeedInv, FreshInv, RunningInv, NoNeedlessRun

LEMMA CleanNeed ==
  ASSUME NEW K, GhostInv(K), NEW Q, NeedInv(Q), WafIInv, FilesInv, (\E o \in Built : CleanRec(o)) \/ Clean
  PROVE  NeedInv(Q)'
<1> USE DEF user, history, configured
<1>0. /\ pc = "clean" /\ UNCHANGED <<folder, db, p>> /\ pc' \in {"clean", "unlink"}
      /\ p.command = "clean"
  BY DEF CleanRec, Clean, GhostInv, BuildInv
<1>1. SavedInv(Q) /\ MadeInv(Q) /\ pc \in Holding
  BY <1>0 DEF NeedInv, Holding
<1>2. ~Building' /\ pc' # "run"
  BY <1>0 DEF Building
<1>3. ASSUME NEW o \in Built, CleanRec(o) PROVE SavedInv(Q)' /\ MadeInv(Q)'
  <2>1. /\ ctx' = ctx /\ out' = [out EXCEPT ![o] = None]
        /\ saved' = Forget(saved, o) /\ made' = Forget(made, o)
    BY <1>3 DEF CleanRec
  <2>2. \A t \in TaskIds : /\ saved'[t] = IF o \in Outputs(t) THEN None ELSE saved[t]
                           /\ made'[t] = IF o \in Outputs(t) THEN None ELSE made[t]
    BY <2>1 DEF Forget, Maker
  <2>3. \A x \in Built : out'[x] = IF x = o THEN None ELSE out[x]
    BY <2>1 DEF FilesInv
  <2>4. \A t \in TaskIds : Outputs(t) \subseteq Built
    BY DEF Outputs, Built
  <2>5. SavedInv(Q)'
    BY <1>0, <1>1, <2>2, <2>3, <2>4, SavedFrame
  <2>6. MadeInv(Q)'
    BY <1>1, <2>1, <2>2, <2>3, <2>4, MadeFrame
  <2> QED  BY <2>5, <2>6
<1>4. CASE Clean
  <2>1. made' = NothingMade /\ UNCHANGED <<out, saved>>
    BY <1>4 DEF Clean
  <2>2. SavedInv(Q)'
    BY <1>0, <1>1, <2>1, SavedFrame
  <2> QED  BY <1>2, <2>1, <2>2 DEF NeedInv, MadeInv, FreshInv, RunningInv, NoNeedlessRun, NothingMade
<1> QED  BY <1>2, <1>3, <1>4 DEF NeedInv, FreshInv, RunningInv, NoNeedlessRun

LEMMA EditNeed ==
  ASSUME NEW Q, NeedInv(Q), WafIInv, Edit
  PROVE  NeedInv(Q)'
<1> USE DEF user, history, configured
<1>0. UNCHANGED <<folder, db, out, ctx, pc, saved, made>> /\ pc \in {"idle", "status", "run"}
  BY DEF Edit
<1>p. p'.edited = (pc # "idle") /\ p'.error = p.error /\ p'.is_install = p.is_install
  <2>1. DOMAIN p = DOMAIN Idle
    BY DEF WafIInv, ProcessInv
  <2>2. p' = [p EXCEPT !.edited = (pc # "idle")]
    BY DEF Edit, EditSource, ChangeFlags, EditScript, Edited
  <2> QED  BY <2>1, <2>2 DEF Idle
<1>1. SavedInv(Q)'
  BY <1>0, SavedFrame DEF NeedInv
<1>2. CASE pc = "idle"
  <2>1. pc' \notin Holding
    BY <1>0, <1>2 DEF Holding
  <2> QED  BY <1>1, <2>1, NotHeld
<1>3. CASE pc # "idle"
  <2>1. MadeInv(Q)'
    BY <1>0, <1>3, MadeFrame DEF NeedInv, Holding
  <2> QED  BY <1>0, <1>p, <1>1, <1>3, <2>1 DEF NeedInv, FreshInv, RunningInv, NoNeedlessRun
<1> QED  BY <1>2, <1>3

LEMMA StutterNeed ==
  ASSUME NEW Q, NeedInv(Q), UNCHANGED vars
  PROVE  NeedInv(Q)'
<1>0. UNCHANGED <<src, folder, db, out, ctx, pc, p, saved, made>>
  BY DEF vars, user, history
<1>1. SavedInv(Q)' /\ MadeInv(Q)' /\ FreshInv(Q)'
  BY <1>0 DEF NeedInv, SavedInv, MadeInv, FreshInv, Building, DoneTasks
<1>2. RunningInv' /\ NoNeedlessRun'
  BY <1>0 DEF NeedInv, RunningInv, NoNeedlessRun
<1> QED  BY <1>1, <1>2 DEF NeedInv

LEMMA LoadNeed ==
  ASSUME NEW K, GhostInv(K), NEW Q, NeedInv(Q), WafIInv, ConfigInv, src \in Versions, LoadForClean \/ LoadForBuild
  PROVE  NeedInv(Q)'
<1> USE DEF user, history, configured, Ends
<1>0. /\ pc = "load" /\ lock # None
      /\ UNCHANGED <<src, out, db, saved>> /\ folder' \in {folder, TRUE}
  BY DEF LoadForClean, LoadForBuild, CannotLoad
<1>1. HeaderOK(LockEnv)
  BY <1>0, LockEnvIs DEF Configuring
<1>2. DbOK(K, src, LockEnv) /\ folder \in BOOLEAN
  BY DEF GhostInv, StoreInv
<1>m. \A t \in TaskIds : Outputs(t) \subseteq Built \ {CfgFile}
  BY OutputsAssumption DEF Built, Outputs
<1>3. SavedInv(Q)'
  BY <1>0, SavedFrame DEF NeedInv
<1>4. ASSUME NEW c, ctx' = c, made' = saved,
             db # None => /\ c.task_sigs = db.task_sigs
                          /\ \A t \in TaskIds : \A o \in Outputs(t) : BuildNode(o) \in DOMAIN db.node_sigs /\ out[o] # None =>
                               BuildNode(o) \in DOMAIN c.node_sigs /\ c.node_sigs[BuildNode(o)] = db.node_sigs[BuildNode(o)]
      PROVE  MadeInv(Q)'
  <2>1. ASSUME NEW t \in TaskIds, saved[t] # None PROVE LastRun(Q, out, c, t, saved[t])
    <3>1. db # None /\ LastRun(Q, out, db, t, saved[t])
      BY <2>1 DEF NeedInv, SavedInv
    <3> QED  BY <1>4, <3>1 DEF LastRun
  <2> QED  BY <1>0, <1>4, <2>1 DEF MadeInv
<1>5. CASE LoadForClean
  <2>0. PICK c : c = LoadEnvs(Load)
    OBVIOUS
  <2>1. ctx' = c /\ pc' = "clean" /\ made' = saved
    BY <1>5, <2>0 DEF LoadForClean
  <2>2. db # None =>
          /\ c.task_sigs = db.task_sigs
          /\ \A o \in Built \ {CfgFile} : BuildNode(o) \in DOMAIN db.node_sigs =>
               BuildNode(o) \in DOMAIN c.node_sigs /\ c.node_sigs[BuildNode(o)] = db.node_sigs[BuildNode(o)]
    BY <1>1, <1>2, <2>0, LoadedContext
  <2>3. MadeInv(Q)'
    BY <1>4, <1>m, <2>1, <2>2
  <2>4. ~Building'
    BY <1>5, <2>1 DEF Building
  <2> QED  BY <1>3, <2>1, <2>3, <2>4 DEF NeedInv, FreshInv, RunningInv, NoNeedlessRun
<1>6. CASE LoadForBuild
  <2>0. PICK c : c = Posted(LoadEnvs(Load))
    OBVIOUS
  <2>1. CASE ~Complete(c)
    <3>1. pc' \notin Holding
      BY <1>6, <2>0, <2>1 DEF LoadForBuild, Holding
    <3> QED  BY <1>3, <3>1, NotHeld
  <2>2. CASE Complete(c)
    <3>1. ctx' = c /\ pc' = "status" /\ made' = saved /\ p' = [p EXCEPT !.env = envfile.table, !.todo = 1]
      BY <1>6, <2>0, <2>2 DEF LoadForBuild
    <3>2. db # None =>
            /\ c.task_sigs = db.task_sigs
            /\ folder => \A o \in Built \ {CfgFile} : BuildNode(o) \in DOMAIN db.node_sigs /\ out[o] # None =>
                 BuildNode(o) \in DOMAIN c.node_sigs /\ c.node_sigs[BuildNode(o)] = db.node_sigs[BuildNode(o)]
      BY <1>1, <1>2, <2>0, PostedContext
    <3>3. ~folder => \A o \in Built \ {CfgFile} : out[o] = None
      BY DEF NeedInv, SavedInv
    <3>4. MadeInv(Q)'
      BY <1>2, <1>4, <1>m, <3>1, <3>2, <3>3
    <3>5. FreshInv(Q)'
      <4>1. p'.todo = 1
        BY <3>1 DEF WafIInv, ProcessInv, Idle
      <4> QED  BY <3>1, <4>1 DEF FreshInv, DoneTasks, TaskIds
    <3> QED  BY <1>3, <3>1, <3>4, <3>5 DEF NeedInv, RunningInv, NoNeedlessRun
  <2> QED  BY <2>1, <2>2
<1> QED  BY <1>5, <1>6

\* A build that is ready for task t: what GhostInv and NeedInv say of it.
LEMMA AtTask ==
  ASSUME NEW K, GhostInv(K), NEW Q, NeedInv(Q), ConfigInv, WafIInv, pc \in {"status", "run"}, p.todo \in TaskIds,
         ~p.edited, ~p.error, p.is_install # UNINSTALL
  PROVE  Ready(K, Q, ctx, p.todo)
<1>1. Building /\ ContextSound(K) /\ BuildInv /\ SettledInv(K) /\ FreshInv(Q)
  BY DEF GhostInv, StoreInv, NeedInv, Holding, Building
<1>2. ASSUME NEW u \in 1..(p.todo - 1) PROVE u \in DoneTasks
  BY <1>2, BuildContextAssumption DEF DoneTasks, TaskIds
<1>3. \A u \in 1..(p.todo - 1) : Settled(K, ctx, u)
  BY <1>1, <1>2 DEF SettledInv
<1>4. \A u \in 1..(p.todo - 1) : \A o \in Outputs(u) : <<o, ctx.node_sigs[BuildNode(o)], out[o].text>> \in Q
  BY <1>1, <1>2 DEF FreshInv
<1> QED  BY <1>1, <1>3, <1>4 DEF Ready, BuildInv, ContextSound, ContextOK

\* What the settling of the implicit dependencies leaves.
LEMMA StillReady ==
  ASSUME NEW K, NEW Q, NEW c, NEW t \in TaskIds, Ready(K, Q, c, t), NEW d, StatusOK(K, c, d, t)
  PROVE  Ready(K, Q, d, t)
<1>1. ASSUME NEW u \in 1..(t - 1), NEW o \in Outputs(u)
      PROVE  BuildNode(o) \in DOMAIN d.node_sigs /\ d.node_sigs[BuildNode(o)] = c.node_sigs[BuildNode(o)]
  <2>1. BuildNode(o) \in DOMAIN c.node_sigs
    BY <1>1 DEF Ready, Settled
  <2>2. o \in Built
    BY <1>1, BuildContextAssumption DEF Built, Outputs, TaskIds
  <2> QED  BY <2>1, <2>2 DEF StatusOK
<1>2. \A u \in 1..(t - 1) : Settled(K, d, u)
  BY <1>1 DEF Ready, Settled
<1>3. \A u \in 1..(t - 1) : \A o \in Outputs(u) : <<o, d.node_sigs[BuildNode(o)], out[o].text>> \in Q
  BY <1>1 DEF Ready
<1>4. \A f \in AllInputs \ Built : Found(d, f)
  <2>1. AllInputs \subseteq Sources \cup Built
    BY FilesAssumption DEF AllInputs
  <2> QED  BY <2>1 DEF Ready, StatusOK
<1> QED  BY <1>2, <1>3, <1>4 DEF Ready, StatusOK, ContextOK

\* A task that is skipped compiles: its sources are those it was made from.
LEMMA SkippedCompiles ==
  ASSUME KeepsIncludes, NEW K, PairsInv(K), NEW Q, NEW c, NEW t \in TaskIds, Ready(K, Q, c, t), src \in Versions,
         HeaderOK(LockEnv), NotOlderThan(LockEnv, LockEnv),
         Signature(c, t, LockEnv) # NoSig,
         NEW o \in Outputs(t), BuildNode(o) \in DOMAIN c.node_sigs, c.node_sigs[BuildNode(o)] = Signature(c, t, LockEnv).sig
  PROVE  Compiles(t, src, out)
<1>s. PICK s : s = Signature(c, t, LockEnv).sig
  OBVIOUS
<1>0. o \in Built /\ o # CfgFile /\ o \notin Sources
  BY FilesApart, OutputsAssumption DEF Built, Outputs
<1>1. KnownSig(K, src, LockEnv, o, s)
  BY <1>s DEF Ready, NodesOK, BuildNode
<1>2. PICK r \in K : r[1] = o /\ r[2] = s
  BY <1>0, <1>1 DEF KnownSig
<1>3. PICK u \in TaskIds : r[1] \in Outputs(u) /\ PairOK(K, src, LockEnv, u, r[2], r[3])
  BY DEF PairsInv
<1>4. u = t
  BY <1>2, <1>3, OutputsAssumption
<1>5. PairOK(K, src, LockEnv, t, Signature(c, t, LockEnv).sig, r[3])
  BY <1>s, <1>2, <1>3, <1>4
<1> QED  BY <1>5, NowText DEF Ready

\* A task is looked at: it runs if it has not been made from what there is, and
\* if it is skipped, what it has made has the signature it has now.
LEMMA StatusNeed ==
  ASSUME KeepsIncludes, NEW K, GhostInv(K), NEW Q, NeedInv(Q), WafIInv, ErrorInv, ConfigInv, src \in Versions, Status,
         GhostInv(K)'
  PROVE  \E R : NeedInv(R)'
<1> USE DEF user, history, configured
<1>t. PICK t : t = p.todo
  OBVIOUS
<1>c. PICK c : c = SigImplicitDeps(ctx, t, src)
  OBVIOUS
<1>s. PICK s : s = Signature(c, t, p.env)
  OBVIOUS
<1>0. /\ pc = "status" /\ t \in TaskIds /\ UNCHANGED <<src, lock, out, folder, db, saved, made>>
      /\ ctx' = c /\ p.is_install # UNINSTALL
      /\ \/ MustRun(c, t, s) /\ pc' = "run" /\ p' = [p EXCEPT !.sig = s, !.consumers = TRUE]
         \/ ~MustRun(c, t, s) /\ pc' = "finish" /\ p' = p
  BY <1>t, <1>c, <1>s DEF Status
<1>p. /\ p'.env = p.env /\ p'.edited = p.edited /\ p'.error = p.error /\ p'.todo = t /\ p'.is_install = p.is_install
  <2>1. DOMAIN p = DOMAIN Idle
    BY DEF WafIInv, ProcessInv
  <2> QED  BY <1>0, <1>t, <2>1 DEF Idle
<1>1. StoreInv(K) /\ lock # None /\ ContextSound(K) /\ Building /\ BuildInv /\ ~p.error /\ p.env = LockEnv
  BY <1>0 DEF GhostInv, StoreInv, Holding, ErrorInv, Steady, BuildInv, Building
<1>2. HeaderOK(LockEnv) /\ NotOlderThan(LockEnv, LockEnv)
  BY <1>0, <1>1, LockEnvIs DEF Configuring
<1>3. StatusOK(K, ctx, c, t)
  BY <1>0, <1>1, <1>2, <1>c, StatusContext DEF ContextSound, BuildInv
<1>m. \A u \in TaskIds : Outputs(u) \subseteq Built
  BY DEF Built, Outputs
<1>4. ASSUME NEW R, Q \subseteq R, SignaturesInv(R) PROVE SavedInv(R)' /\ MadeInv(R)'
  <2>1. ASSUME NEW u \in TaskIds, saved[u] # None PROVE db # None /\ LastRun(R, out, db, u, saved[u])
    <3>1. db # None /\ LastRun(Q, out, db, u, saved[u])
      BY <2>1 DEF NeedInv, SavedInv
    <3> QED  BY <1>4, <3>1, SignsMore DEF LastRun
  <2>2. SavedInv(R)'
    BY <1>0, <1>4, <2>1 DEF NeedInv, SavedInv
  <2>3. ASSUME NEW u \in TaskIds, made[u] # None PROVE LastRun(R, out, c, u, made[u])
    <3>1. LastRun(Q, out, ctx, u, made[u])
      BY <1>0, <2>3 DEF NeedInv, MadeInv, Holding
    <3>2. c.task_sigs = ctx.task_sigs
      BY <1>3 DEF StatusOK
    <3>3. \A o \in Outputs(u) : BuildNode(o) \in DOMAIN ctx.node_sigs =>
            BuildNode(o) \in DOMAIN c.node_sigs /\ c.node_sigs[BuildNode(o)] = ctx.node_sigs[BuildNode(o)]
      BY <1>3, <1>m DEF StatusOK
    <3>4. u \in DOMAIN c.task_sigs
      BY <3>1, <3>2 DEF LastRun
    <3> QED  BY <1>4, <3>1, <3>2, <3>3, <3>4, LastRunStays
  <2> QED  BY <1>0, <2>2, <2>3 DEF MadeInv
<1>5. RunningInv'
  BY <1>0, <1>p, <1>1 DEF RunningInv
<1>6. CASE p.edited
  <2>1. SavedInv(Q)' /\ MadeInv(Q)'
    BY <1>4 DEF NeedInv, SavedInv
  <2>2. FreshInv(Q)' /\ NoNeedlessRun'
    BY <1>p, <1>6 DEF FreshInv, NoNeedlessRun
  <2> QED  BY <1>5, <2>1, <2>2 DEF NeedInv
<1>7. CASE ~p.edited
  <2>T. PICK T : T = Compile(t, src, out, LockEnv)
    OBVIOUS
  <2>1. Ready(K, Q, ctx, t)
    BY <1>0, <1>1, <1>7, <1>t, AtTask
  <2>2. Ready(K, Q, c, t)
    BY <1>0, <1>3, <2>1, StillReady
  <2>3. s = Signature(c, t, LockEnv) /\ s # NoSig
    BY <1>0, <1>1, <1>c, <1>s, <2>1, <2>2, HasSignature DEF ContextSound
  <2>4. Compiles(t, src, out) => Signs(Q, t, s.sig, T)
    <3>1. Tasks[t].scan => \E x \in Versions :
            NotAfter(x, src) /\ Explains(t, x, Names(NodeDeps(c, t))) /\ UpTo(s.imp, x)
      BY <1>3, <2>3 DEF StatusOK
    <3> QED  BY <1>0, <1>2, <2>T, <2>2, <2>3, <3>1, SignedNow
  <2>5. CASE pc' = "run"
    <3>1. MustRun(c, t, s)
      BY <1>0, <2>5
    <3>2. ASSUME made[t] # None, Compiles(t, src, out), made[t] = T PROVE FALSE
      <4>1. LastRun(Q, out, c, t, T)
        <5>1. MadeInv(Q)'
          BY <1>4 DEF NeedInv, SavedInv
        <5>2. LastRun(Q, out', ctx', t, made'[t])
          BY <1>0, <2>5, <3>2, <5>1 DEF MadeInv, Holding
        <5> QED  BY <1>0, <3>2, <5>2
      <4>2. c.task_sigs[t].sig = s.sig
        BY <1>0, <2>4, <3>2, <4>1, OneSignature DEF LastRun, NeedInv, SavedInv
      <4>3. \A n \in OutputNodes(t) : n \in DOMAIN c.node_sigs /\ c.node_sigs[n] = s.sig
        BY <4>1, <4>2 DEF LastRun, OutputNodes, Outputs
      <4>4. t \in DOMAIN c.task_sigs
        BY <4>1 DEF LastRun
      <4> QED  BY <2>3, <3>1, <4>2, <4>3, <4>4 DEF MustRun
    <3>3. NoNeedlessRun'
      <4>1. Compiles(t, src, out)' = Compiles(t, src, out) /\ Compile(t, src, out, p.env)' = T
        BY <1>0, <1>p, <1>1, <2>T
      <4> QED  BY <1>0, <1>p, <3>2, <4>1 DEF NoNeedlessRun
    <3>4. FreshInv(Q)'
      <4>1. \A u \in DoneTasks' : u \in 1..(t - 1)
        BY <1>0, <1>p, <2>5, BuildContextAssumption DEF DoneTasks, TaskIds
      <4>2. \A u \in 1..(t - 1) : \A o \in Outputs(u) : <<o, c.node_sigs[BuildNode(o)], out[o].text>> \in Q
        BY <2>2 DEF Ready
      <4> QED  BY <1>0, <4>1, <4>2 DEF FreshInv
    <3>5. SavedInv(Q)' /\ MadeInv(Q)'
      BY <1>4 DEF NeedInv, SavedInv
    <3> QED  BY <1>5, <3>3, <3>4, <3>5 DEF NeedInv
  <2>6. CASE pc' = "finish"
    <3>R. PICK R : R = Q \cup Signed(t, s.sig, T)
      OBVIOUS
    <3>1. \A n \in OutputNodes(t) : n \in DOMAIN c.node_sigs /\ c.node_sigs[n] = s.sig
      BY <1>0, <2>6 DEF MustRun
    <3>2. \A o \in Outputs(t) : BuildNode(o) \in DOMAIN c.node_sigs /\ c.node_sigs[BuildNode(o)] = s.sig
      BY <3>1 DEF OutputNodes, Outputs
    <3>3. SignaturesInv(Q)
      BY DEF NeedInv, SavedInv
    <3>4. SignaturesInv(R)
      <4>1. CASE Outputs(t) = {}
        <5>1. R = Q
          BY <3>R, <4>1 DEF Signed
        <5> QED  BY <3>3, <5>1
      <4>2. CASE Outputs(t) # {}
        <5>1. PairsInv(K)
          BY <1>1 DEF StoreInv
        <5>2. Compiles(t, src, out)
          BY <1>0, <1>2, <2>2, <2>3, <3>2, <4>2, <5>1, SkippedCompiles
        <5> QED  BY <1>0, <2>4, <3>R, <3>3, <5>2, MoreSignatures
      <4> QED  BY <4>1, <4>2
    <3>5. SavedInv(R)' /\ MadeInv(R)'
      BY <1>4, <3>R, <3>4
    <3>6. FreshInv(R)'
      <4>1. ASSUME NEW o \in Outputs(t) PROVE <<o, c.node_sigs[BuildNode(o)], out[o].text>> \in R
        <5>1. Building' /\ t \in DoneTasks'
          BY <1>0, <1>p, <2>6, BuildContextAssumption DEF Building, DoneTasks, TaskIds
        <5>2. SettledInv(K)'
          BY DEF GhostInv
        <5>3. Settled(K, ctx, t)'
          BY <1>0, <1>p, <1>1, <1>7, <5>1, <5>2 DEF SettledInv
        <5>4. out[o].text = T
          BY <1>0, <1>p, <1>1, <2>T, <5>3 DEF Settled
        <5> QED  BY <3>R, <3>2, <5>4 DEF Signed
      <4>2. \A u \in 1..(t - 1) : \A o \in Outputs(u) : <<o, c.node_sigs[BuildNode(o)], out[o].text>> \in R
        BY <2>2, <3>R DEF Ready
      <4>3. \A u \in DoneTasks' : u = t \/ u \in 1..(t - 1)
        BY <1>0, <1>p, <2>6, BuildContextAssumption DEF DoneTasks, TaskIds
      <4> QED  BY <1>0, <4>1, <4>2, <4>3 DEF FreshInv
    <3>7. NoNeedlessRun'
      BY <2>6 DEF NoNeedlessRun
    <3> QED  BY <1>5, <3>5, <3>6, <3>7 DEF NeedInv
  <2> QED  BY <1>0, <2>5, <2>6
<1> QED  BY <1>6, <1>7

\* A task runs: its text has the signature that it was run with.
LEMMA RunNeed ==
  ASSUME KeepsIncludes, NEW K, GhostInv(K), NEW Q, NeedInv(Q), WafIInv, FilesInv, ConfigInv, src \in Versions, Run
  PROVE  \E R : NeedInv(R)'
<1> USE DEF user, history, configured
<1>t. PICK t : t = p.todo
  OBVIOUS
<1>s. PICK s : s = p.sig
  OBVIOUS
<1>T. PICK T : T = Compile(t, src, out, LockEnv)
  OBVIOUS
<1>d. PICK d : d = PostRun(ctx, t, s)
  OBVIOUS
<1>0. /\ pc = "run" /\ pc' = "finish" /\ t \in TaskIds /\ UNCHANGED <<src, lock, folder, db, p, saved>>
      /\ s # NoSig /\ Compiles(t, src, out)
      /\ out' = Over(Aged(out), Makes(t)) /\ ctx' = d /\ made' = [made EXCEPT ![t] = MadeOf(t)]
      /\ DOMAIN made = TaskIds /\ folder
  BY <1>t, <1>s, <1>d DEF Run, WafIInv, ProcessInv, ContextInv
<1>1. /\ p.env = LockEnv /\ HeaderOK(LockEnv) /\ NotOlderThan(LockEnv, LockEnv)
      /\ s = Signature(ctx, t, LockEnv)
  BY <1>0, <1>t, <1>s, AtRun
<1>2. ContextSound(K) /\ RunInv /\ ~p.error /\ p.is_install # UNINSTALL
  BY <1>0 DEF GhostInv, StoreInv, Holding, NeedInv, RunningInv
<1>m. \A u \in TaskIds : Outputs(u) \subseteq Built /\ (u # t => Outputs(u) \cap Outputs(t) = {})
  BY <1>0, OutputsAssumption DEF Built, Outputs
<1>3. \A o \in Built :
        /\ o \in Outputs(t) => out'[o] # None /\ out'[o].text = T
        /\ o \notin Outputs(t) => /\ out'[o] = None <=> out[o] = None
                                  /\ out[o] # None => out'[o].text = out[o].text
  BY <1>0, <1>1, <1>T, RunOutputs
<1>4. /\ d.node_sigs = Update(ctx.node_sigs, [n \in OutputNodes(t) |-> s.sig])
      /\ d.task_sigs = Update(ctx.task_sigs, [u \in {t} |-> s])
  BY <1>2, <1>d DEF PostRun, ContextSound, OpenShape, StoredFields
<1>5. \A o \in Outputs(t) : BuildNode(o) \in DOMAIN d.node_sigs /\ d.node_sigs[BuildNode(o)] = s.sig
  BY <1>4 DEF Update, OutputNodes, Outputs
<1>6. ASSUME NEW u \in TaskIds, u # t
      PROVE  /\ u \in DOMAIN ctx.task_sigs => u \in DOMAIN d.task_sigs /\ d.task_sigs[u] = ctx.task_sigs[u]
             /\ \A o \in Outputs(u) :
                  /\ BuildNode(o) \in DOMAIN ctx.node_sigs => BuildNode(o) \in DOMAIN d.node_sigs
                  /\ d.node_sigs[BuildNode(o)] = ctx.node_sigs[BuildNode(o)] \/ BuildNode(o) \notin DOMAIN ctx.node_sigs
  <2>1. \A o \in Outputs(u) : BuildNode(o) \notin OutputNodes(t)
    BY <1>6, <1>m DEF OutputNodes, Outputs, BuildNode
  <2> QED  BY <1>4, <1>6, <2>1 DEF Update
<1>7. t \in DOMAIN d.task_sigs /\ d.task_sigs[t] = s
  BY <1>4 DEF Update
<1>8. ASSUME NEW R, Q \subseteq R, SignaturesInv(R), ~p.edited => Signs(R, t, s.sig, T)
      PROVE  SavedInv(R)' /\ MadeInv(R)'
  <2>1. ASSUME NEW u \in TaskIds, NEW o \in Outputs(u), out[o] # None PROVE out'[o] # None
    BY <1>3, <1>m, <2>1
  <2>2. ASSUME NEW u \in TaskIds, saved[u] # None PROVE db # None /\ LastRun(R, out', db, u, saved[u])
    <3>1. db # None /\ LastRun(Q, out, db, u, saved[u])
      BY <2>2 DEF NeedInv, SavedInv
    <3> QED  BY <1>8, <2>1, <3>1, SignsMore DEF LastRun
  <2>3. SavedInv(R)'
    BY <1>0, <1>8, <2>2 DEF NeedInv, SavedInv
  <2>4. ASSUME NEW u \in TaskIds, made'[u] # None PROVE LastRun(R, out', d, u, made'[u])
    <3>1. CASE u = t
      <4>1. ~p.edited /\ made'[u] = T
        BY <1>0, <1>1, <1>T, <2>4, <3>1 DEF MadeOf
      <4>2. \A o \in Outputs(t) : out'[o] # None
        BY <1>3, <1>m, <1>0
      <4> QED  BY <1>5, <1>7, <1>8, <3>1, <4>1, <4>2 DEF LastRun
    <3>2. CASE u # t
      <4>1. made'[u] = made[u]
        BY <1>0, <3>2
      <4>2. LastRun(Q, out, ctx, u, made[u])
        BY <1>0, <2>4, <4>1 DEF NeedInv, MadeInv, Holding
      <4>3. u \in DOMAIN ctx.task_sigs
        BY <4>2 DEF LastRun
      <4> QED  BY <1>6, <1>8, <2>1, <3>2, <4>1, <4>2, <4>3, LastRunStays
    <3> QED  BY <3>1, <3>2
  <2> QED  BY <1>0, <2>3, <2>4 DEF MadeInv
<1>9. RunningInv' /\ NoNeedlessRun'
  BY <1>0 DEF RunningInv, NoNeedlessRun
<1>10. CASE p.edited
  <2>1. SavedInv(Q)' /\ MadeInv(Q)'
    BY <1>8, <1>10 DEF NeedInv, SavedInv
  <2>2. FreshInv(Q)'
    BY <1>0, <1>10 DEF FreshInv
  <2> QED  BY <1>9, <2>1, <2>2 DEF NeedInv
<1>11. CASE ~p.edited
  <2>R. PICK R : R = Q \cup Signed(t, s.sig, T)
    OBVIOUS
  <2>1. Ready(K, Q, ctx, t)
    BY <1>0, <1>2, <1>11, <1>t, AtTask
  <2>2. Signs(Q, t, s.sig, T)
    <3>1. Tasks[t].scan => \E x \in Versions :
            NotAfter(x, src) /\ Explains(t, x, Names(NodeDeps(ctx, t))) /\ UpTo(s.imp, x)
      BY <1>0, <1>2, <1>t, <1>s DEF RunInv
    <3> QED  BY <1>0, <1>1, <1>T, <2>1, <3>1, SignedNow
  <2>3. SignaturesInv(R)
    BY <1>0, <2>2, <2>R, MoreSignatures DEF NeedInv, SavedInv
  <2>4. SavedInv(R)' /\ MadeInv(R)'
    BY <1>8, <2>2, <2>3, <2>R, SignsMore
  <2>5. FreshInv(R)'
    <3>1. \A o \in Outputs(t) : <<o, d.node_sigs[BuildNode(o)], out'[o].text>> \in R
      BY <1>0, <1>3, <1>5, <1>m, <2>R DEF Signed
    <3>2. ASSUME NEW u \in 1..(t - 1), NEW o \in Outputs(u) PROVE <<o, d.node_sigs[BuildNode(o)], out'[o].text>> \in R
      <4>1. u \in TaskIds /\ u # t
        BY <1>0, BuildContextAssumption DEF TaskIds
      <4>2. /\ <<o, ctx.node_sigs[BuildNode(o)], out[o].text>> \in Q
            /\ out[o] # None /\ BuildNode(o) \in DOMAIN ctx.node_sigs
        BY <2>1 DEF Ready, Settled
      <4>3. out'[o].text = out[o].text
        BY <1>3, <1>m, <4>1, <4>2
      <4>4. d.node_sigs[BuildNode(o)] = ctx.node_sigs[BuildNode(o)]
        BY <1>6, <4>1, <4>2
      <4> QED  BY <2>R, <4>2, <4>3, <4>4
    <3>3. \A u \in DoneTasks' : u = t \/ u \in 1..(t - 1)
      BY <1>0, <1>t, BuildContextAssumption DEF DoneTasks, TaskIds
    <3> QED  BY <1>0, <3>1, <3>2, <3>3 DEF FreshInv
  <2> QED  BY <1>9, <2>4, <2>5 DEF NeedInv
<1> QED  BY <1>10, <1>11

LEMMA KillInRunNeed ==
  ASSUME NEW Q, NeedInv(Q), WafIInv, FilesInv, KillInRun
  PROVE  NeedInv(Q)'
<1> USE DEF user, history, configured
<1>0. /\ pc = "run" /\ pc' \notin Holding /\ UNCHANGED <<folder, db, saved>> /\ folder /\ p.todo \in TaskIds
      /\ out' = Over(Aged(out), Makes(p.todo))
  BY DEF KillInRun, Ends, Holding, WafIInv, ProcessInv, ContextInv
<1>1. \A o \in Built : out[o] # None => out'[o] # None
  BY <1>0, RunOutputs
<1>2. \A t \in TaskIds : Outputs(t) \subseteq Built
  BY DEF Built, Outputs
<1>3. SavedInv(Q)'
  BY <1>0, <1>1, <1>2, SavedFrame DEF NeedInv
<1> QED  BY <1>0, <1>3, NotHeld

(* ----- what is not run again: the theorem ----- *)

LEMMA NeedStep ==
  ASSUME KeepsIncludes, NEW K, GhostInv(K), NEW Q, NeedInv(Q), ConfigInv, WafIInv, FilesInv, ErrorInv,
         ~setting.wafcache, ~setting.removes, [Next]_vars
  PROVE  \E R : NeedInv(R)'
<1>0. src \in Versions /\ SavedInv(Q) /\ ContextInv
  BY DEF WafIInv, UserTypes, Versions, NeedInv
<1>1. CASE UNCHANGED vars
  BY <1>1, StutterNeed
<1>2. CASE Edit
  BY <1>2, EditNeed
<1>3. CASE \/ (\E line \in CommandLines : Type(line)) \/ NextCommand \/ Shutdown
           \/ Configure \/ Store \/ Stored \/ Lock \/ CheckConfigured \/ NotLoaded
           \/ InstallMissing \/ InstallFails \/ Post \/ Kill \/ KillInDistclean \/ Distclean
           \/ (\E o \in Built : RemoveOutput(o)) \/ RemoveFolder
  <2>1. NeedInv(Q)'
    BY <1>0, <1>3, QuietSaved
  <2> QED  BY <2>1
<1>4. CASE LoadForClean \/ LoadForBuild
  BY <1>0, <1>4, LoadNeed
<1>6. CASE Finish \/ Install \/ Uninstall \/ StatusUninstall \/ TasksDone \/ Unlink \/ Interrupt
  BY <1>6, LoopNeed
<1>7. CASE CanRetrieveCache
  BY <1>7 DEF CanRetrieveCache
<1>8. CASE Run
  BY <1>0, <1>8, RunNeed
<1>9. CASE CannotRun \/ RunFails
  BY <1>9, FailNeed
<1>10. CASE Rename
  BY <1>10, RenameNeed
<1>11. CASE (\E o \in Built : CleanRec(o)) \/ Clean
  BY <1>11, CleanNeed
<1>12. CASE KillInRun
  BY <1>12, KillInRunNeed
<1>5. CASE Status
  <2>1. GhostInv(K)'
    BY <1>0, <1>5, StatusStep
  <2> QED  BY <1>0, <1>5, <2>1, StatusNeed
<1> QED
  BY <1>1, <1>2, <1>3, <1>4, <1>5, <1>6, <1>7, <1>8, <1>9, <1>10, <1>11, <1>12
  DEF Next, User, Command, Fault

NeedIInv == ~setting.wafcache /\ ~setting.removes => \E Q : NeedInv(Q)

LEMMA NeedInit == Init => NeedIInv
<1> SUFFICES ASSUME Init PROVE \E Q : NeedInv(Q)
  BY DEF NeedIInv
<1>1. PICK Q : Q = {}
  OBVIOUS
<1>2. \A t \in TaskIds : saved[t] = None
  BY DEF Init, NothingMade
<1>3. \A o \in Built : out[o] = None
  BY DEF Init
<1>4. SavedInv(Q)
  BY <1>1, <1>2, <1>3 DEF SavedInv, SignaturesInv
<1>5. pc = "idle"
  BY DEF Init
<1>6. NeedInv(Q)
  BY <1>4, <1>5 DEF NeedInv, MadeInv, FreshInv, RunningInv, NoNeedlessRun, Building, Holding
<1> QED  BY <1>6

LEMMA NeedAlways ==
  ASSUME KeepsIncludes
  PROVE  Spec /\ [][~(Kill /\ pc \in Configuring)]_vars => []NeedIInv
<1>1. ASSUME WafIInv, InstIInv, BuildIInv, NeedIInv, [Next]_vars PROVE NeedIInv'
  <2> SUFFICES ASSUME ~setting'.wafcache, ~setting'.removes PROVE \E R : NeedInv(R)'
    BY DEF NeedIInv
  <2>1. setting' = setting
    BY <1>1, SettingKept
  <2>2. ~setting.wafcache /\ ~setting.removes /\ ConfigInv /\ FilesInv /\ ErrorInv
    BY <1>1, <2>1 DEF BuildIInv, InstIInv
  <2>3. PICK K : GhostInv(K)
    BY <1>1, <2>2 DEF BuildIInv
  <2>4. PICK Q : NeedInv(Q)
    BY <1>1, <2>2 DEF NeedIInv
  <2> QED  BY <1>1, <2>2, <2>3, <2>4, NeedStep
<1> QED  BY <1>1, NeedInit, BuildAlways, WafAlways, InstallAlways, PTL DEF Spec

\* NoNeedlessRun: a task whose last complete run is known, and whose inputs are
\* the same, is skipped, for any tasks, sources and commands, any number of
\* edits, and any kills, interrupts, failures and removals of outputs before.
\* An edit must not change what a task's input includes (KeepsIncludes), or
\* what an older scan found is looked up and the task runs again for it; the
\* build folder is not removed, and no configuration is killed between its
\* header and its lock file.
THEOREM NeedTheorem ==
  ASSUME KeepsIncludes
  PROVE  Spec /\ [][~(Kill /\ pc \in Configuring)]_vars
           => [](~setting.wafcache /\ ~setting.removes => NoNeedlessRun)
<1>1. NeedIInv => (~setting.wafcache /\ ~setting.removes => NoNeedlessRun)
  BY DEF NeedIInv, NeedInv
<1> QED  BY <1>1, NeedAlways, PTL
=============================================================================
