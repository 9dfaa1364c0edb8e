------------------------------- MODULE Preproc -------------------------------
(***************************************************************************)
(* c_parser of Tools/preproc.py: the scan of a C file for the headers it   *)
(* includes, which become the dependencies of its task.  One build scans   *)
(* several sources, each with a new c_parser; the filtered lines of a file *)
(* are kept in bld.parse_cache for the next one.                           *)
(*                                                                         *)
(* A node is the path of its file from the root of the project, a sequence *)
(* of names, so that its directory is all but the last name; an included   *)
(* name is such a sequence too.  A raw line of a file is a record; code is *)
(* FALSE when a comment hides it.                                          *)
(***************************************************************************)
EXTENDS PreprocTokens

CONSTANTS Families,    \* sets of programs [sources, files, unreadable, nodepaths, deflines]
          Moc,         \* names that end in ".moc"
          FileLimit    \* 30000 in the code

VARIABLES program,
          todo,                \* the sources still to scan
          source,              \* the one being scanned, NoSource between two scans
          deps,                \* source -> what get_deps returned for it
          parse_cache,         \* node -> its filtered lines
          lines, defs, state, count_files, currentnode_stack, nodes, names, curfile, ban_includes

parser == <<lines, defs, state, count_files, currentnode_stack, nodes, names, curfile, ban_includes>>
scanvars == <<program, todo, source, deps, parse_cache, parser>>

accepted == "a"
ignored == "i"
undefined == "u"
skipped == "s"
POPFILE == "-"
NoSource == <<>>

Raw == [kind |-> "", name |-> "", fun |-> FALSE, params |-> <<>>, toks |-> <<>>,
        form |-> "", path |-> <<>>, code |-> TRUE]

Ifs == {"if", "ifdef", "ifndef"}
Keywords == Ifs \cup {"else", "elif", "endif", "include", "import", "define", "undef", "pragma"}

FilterComments(raw) == SelectSeq(raw, LAMBDA l : l.code /\ l.kind \in Keywords)

\* path is there for NestingKept alone: the directory that was current while the file was read
PopLine(node) == [Raw EXCEPT !.kind = POPFILE, !.path = Front(node)]

----------------------------------------------------------------------------
\* The lines of a node and the cache after they are read; IOError if unreadable
Cached(node) == node \in DOMAIN parse_cache
Content(node) == IF Cached(node) THEN parse_cache[node]
                 ELSE Append(FilterComments(program.files[node]), PopLine(node))
Readable(node) == Cached(node) \/ node \notin program.unreadable
\* mutant: cached before the end of the file is appended
CacheWithoutEnd(node) == IF Cached(node) THEN parse_cache ELSE parse_cache @@ (node :> FilterComments(program.files[node]))
Cache(node) == IF Cached(node) THEN parse_cache ELSE parse_cache @@ (node :> Content(node))

ScanInit ==
  /\ \E programs \in Families : program \in programs
  /\ todo = program.sources
  /\ source = NoSource
  /\ deps = <<>> /\ parse_cache = <<>>
  /\ lines = <<>> /\ defs = <<>> /\ state = <<>> /\ count_files = 0 /\ currentnode_stack = <<>>
  /\ nodes = <<>> /\ names = <<>> /\ curfile = <<>> /\ ban_includes = {}

\* a new c_parser, and start up to its loop; a source that cannot be read fails its task
Start ==
  /\ source = NoSource
  /\ todo # <<>>
  /\ Readable(Head(todo))
  /\ source' = Head(todo)
  /\ todo' = Tail(todo)
  /\ parse_cache' = Cache(source')
  /\ lines' = program.deflines \o Content(source')
  /\ currentnode_stack' = <<Front(source')>>
  /\ count_files' = 1
  /\ defs' = <<>> /\ state' = <<>> /\ nodes' = <<>> /\ names' = <<>> /\ curfile' = <<>> /\ ban_includes' = {}
  /\ UNCHANGED <<program, deps>>

\* the end of get_deps
GetDeps ==
  /\ source # NoSource
  /\ lines = <<>>
  /\ deps' = (source :> [nodes |-> nodes, names |-> names]) @@ deps
  /\ source' = NoSource
  /\ UNCHANGED <<program, todo, parse_cache, parser>>

----------------------------------------------------------------------------
(* process_line, one action for each keyword.  An exception leaves what    *)
(* was done before it.                                                     *)

Line == Head(lines)
Dead == {skipped, ignored} \cap Range(state) # {}

\* the line at hand is of one of these kinds and is taken off
Take(kinds) ==
  /\ lines # <<>>
  /\ Line.kind \in kinds
  /\ lines' = Tail(lines)
  /\ UNCHANGED <<program, todo, source, deps, parse_cache>>

PopFile ==
  /\ Take({POPFILE})
  /\ currentnode_stack' = Front(currentnode_stack)
  /\ UNCHANGED <<defs, state, count_files, nodes, names, curfile, ban_includes>>

\* the state of a branch by its condition; an error leaves it undefined
Branch(holds) == IF holds THEN accepted ELSE ignored
Condition(l) ==
  LET result == EvalMacro(Tokenize(l.toks), defs)
  IN  CASE l.kind = "ifdef" -> Branch(l.name \in DOMAIN defs)
        [] l.kind = "ifndef" -> Branch(l.name \notin DOMAIN defs)
        [] OTHER -> IF result.ok THEN Branch(result.holds) ELSE undefined

If ==
  /\ Take(Ifs)
  /\ state' = Append(state, IF Dead THEN undefined ELSE Condition(Line))
  /\ UNCHANGED <<defs, count_files, currentnode_stack, nodes, names, curfile, ban_includes>>

\* #elif and #else: an error of the condition leaves the branch ignored
NextBranch ==
  CASE Last(state) = accepted -> skipped
    [] Last(state) = ignored /\ Line.kind = "else" -> accepted
    [] Last(state) = ignored /\ Line.kind = "elif" -> IF Condition(Line) = accepted THEN accepted ELSE ignored
    [] OTHER -> Last(state)

ElseElif ==
  /\ Take({"else", "elif"})
  /\ state' = IF state = <<>> THEN state ELSE Append(Front(state), NextBranch)
  /\ UNCHANGED <<defs, count_files, currentnode_stack, nodes, names, curfile, ban_includes>>

EndIf ==
  /\ Take({"endif"})
  /\ state' = IF state = <<>> THEN state ELSE Front(state)
  /\ UNCHANGED <<defs, count_files, currentnode_stack, nodes, names, curfile, ban_includes>>

Skip ==
  /\ Dead
  /\ Take(Keywords \ (Ifs \cup {"else", "elif", "endif"}))
  /\ UNCHANGED <<defs, state, count_files, currentnode_stack, nodes, names, curfile, ban_includes>>

Define ==
  /\ ~Dead
  /\ Take({"define", "undef"})
  /\ defs' = IF Line.kind = "undef" THEN Restrict(defs, DOMAIN defs \ {Line.name})
             ELSE IF Line.name = "" THEN defs
             ELSE (Line.name :> [fun |-> Line.fun, params |-> Line.params, body |-> Line.toks]) @@ defs
  /\ UNCHANGED <<state, count_files, currentnode_stack, nodes, names, curfile, ban_includes>>

\* the file of #pragma once is known by curfile, the name searched for last
Pragma ==
  /\ ~Dead
  /\ Take({"pragma"})
  /\ ban_includes' = IF Line.name = "once" THEN ban_includes \cup {curfile} ELSE ban_includes
  /\ UNCHANGED <<defs, state, count_files, currentnode_stack, nodes, names, curfile>>

----------------------------------------------------------------------------
\* "name", <name>, or tokens that must give one string; what gives <name> ends in an error
ExtractInclude(l) ==
  LET reduced == ReduceTokens(Tokenize(l.toks), 1, defs, StackLimit)
      toks == reduced.toks
  IN  CASE l.form \in {"quote", "angle"} -> [ok |-> TRUE, inc |-> l.path]
        [] ~reduced.ok -> Failed
        [] Len(toks) = 1 /\ toks[1].p = STR -> [ok |-> TRUE, inc |-> <<toks[1].v>>]
        [] OTHER -> Failed

\* mutant: quoted names are searched for in the directory of the source
FoundFromSource(filename) ==
  LET dirs == <<Head(currentnode_stack)>> \o program.nodepaths
      at == {k \in DOMAIN dirs : dirs[k] \o filename \in DOMAIN program.files}
  IN  IF at = {} THEN NoSource ELSE dirs[Min(at)] \o filename
Found(filename) ==
  LET dirs == <<Last(currentnode_stack)>> \o program.nodepaths
      at == {k \in DOMAIN dirs : dirs[k] \o filename \in DOMAIN program.files}
  IN  IF at = {} THEN NoSource ELSE dirs[Min(at)] \o filename

\* mutant: files taken from the cache are not counted
AddLinesUncounted(node) ==
  /\ currentnode_stack' = Append(currentnode_stack, Front(node))
  /\ count_files' = IF Cached(node) THEN count_files ELSE count_files + 1
  /\ IF count_files' <= FileLimit /\ Readable(node)
     THEN lines' = Content(node) \o Tail(lines) /\ parse_cache' = Cache(node)
     ELSE lines' = Tail(lines) /\ UNCHANGED parse_cache
\* the directory is pushed before the file is counted and read
AddLines(node) ==
  /\ currentnode_stack' = Append(currentnode_stack, Front(node))
  /\ count_files' = count_files + 1
  /\ IF count_files' <= FileLimit /\ Readable(node)
     THEN lines' = Content(node) \o Tail(lines) /\ parse_cache' = Cache(node)
     ELSE lines' = Tail(lines) /\ UNCHANGED parse_cache

TryFind(filename) ==
  LET found == Found(filename)
  IN  /\ curfile' = filename
      /\ nodes' = IF found = NoSource THEN nodes ELSE Append(nodes, found)
      /\ names' = IF found = NoSource /\ filename \notin Range(names) THEN Append(names, filename) ELSE names
      /\ IF found # NoSource /\ Last(filename) \notin Moc
         THEN AddLines(found)
         ELSE lines' = Tail(lines) /\ UNCHANGED <<count_files, currentnode_stack, parse_cache>>

Include ==
  LET include == ExtractInclude(Line)
      wanted == include.ok /\ include.inc \notin ban_includes
  IN  /\ ~Dead
      /\ lines # <<>>
      /\ Line.kind \in {"include", "import"}
      /\ ban_includes' = IF wanted /\ Line.kind = "import" THEN ban_includes \cup {include.inc} ELSE ban_includes
      /\ IF wanted THEN TryFind(include.inc)
         ELSE lines' = Tail(lines) /\ UNCHANGED <<curfile, nodes, names, count_files, currentnode_stack, parse_cache>>
      /\ UNCHANGED <<program, todo, source, deps, defs, state>>

ScanNext == Start \/ GetDeps \/ PopFile \/ If \/ ElseElif \/ EndIf \/ Skip \/ Define \/ Pragma \/ Include

ScanSpec == ScanInit /\ [][ScanNext]_scanvars
=============================================================================
