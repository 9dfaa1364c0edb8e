------------------------------ MODULE NodeTree ------------------------------
(***************************************************************************)
(* The tree of nodes that waf keeps of the source folders and of what is   *)
(* built from them.  A node is named by its path from the root; a folder   *)
(* is listed the first time something is looked for in it, and the folder  *)
(* that mirrors it for the variant is made then.  The disk may change      *)
(* behind it, and a new process starts from the tree of the last one.      *)
(***************************************************************************)
EXTENDS Sequences, SequencesExt, FiniteSets, Naturals

CONSTANTS Disks,       \* what is on the disk: path -> "dir" or "file"
          Lookups,     \* the paths that are asked for
          Patterns,    \* ant patterns to include and to exclude
          MaxCalls     \* bound: the calls and the processes of one behaviour

VARIABLES
  disk,       \* the source side of the disk
  tree,       \* the nodes, the folders listed in this process and their lists,
              \* and the folders that are in build/default
  answer,     \* the last call and what it returned
  declared,   \* the build nodes that this process has declared
  fresh,      \* the disk is as it was when the process started
  calls
nodevars == <<disk, tree, answer, declared, fresh, calls>>

Root == <<>>
srcnode == <<"src">>
bldnode == <<"src", "build">>
NoNode == <<"no", "node">>
Parent(p) == IF p = Root THEN Root ELSE Front(p)

(* ----- paths ----- *)
\* find_ancestor with the deeper of the two on the left
Ancestor(p, q) ==
  LET up[k \in 0..Len(q)] == IF SubSeq(p, 1, k) = SubSeq(q, 1, k) THEN k ELSE up[k - 1] IN up[Len(q)]
FindAncestor(p, q) == IF Len(p) < Len(q) THEN Ancestor(q, p) ELSE Ancestor(p, q)
RelpathGen(p, from) ==
  IF p = from THEN <<".">>
  ELSE IF from # Root /\ Parent(from) = p THEN <<"..">>
  ELSE LET k == FindAncestor(p, from)
       IN [i \in 1..(Len(from) - k) |-> ".."] \o SubSeq(p, k + 1, Len(p))
\* as many of the last names as the node is deeper: the parent is believed to be one
PathToParent(p, parent) == SubSeq(p, Len(parent) + 1, Len(p))
IsChildOf(p, q) == Len(p) >= Len(q) /\ SubSeq(p, 1, Len(q)) = q
Abspath(t, p) == IF t.nodes[p] = "FILE" THEN p ELSE bldnode \o <<"default">> \o PathToParent(p, srcnode)
Bldpath(t, p) ==
  IF t.nodes[p] = "FILE" THEN RelpathGen(p, bldnode) ELSE <<"default">> \o PathToParent(p, srcnode)

(* ----- rescan ----- *)
NodeAt(t, p) == IF p \in DOMAIN t.nodes THEN t.nodes[p] ELSE ""
AddNode(t, p, type) ==
  [t EXCEPT !.nodes = [q \in DOMAIN @ \cup {p} |-> IF q = p THEN type ELSE @[q]]]
\* with a node everything under it goes
Detach(t, gone) ==
  LET left == {q \in DOMAIN t.nodes : \A g \in gone : ~IsChildOf(q, g)}
  IN [nodes |-> [q \in left |-> t.nodes[q]], scanned |-> t.scanned \cap left,
      contents |-> [q \in DOMAIN t.contents \cap left |-> t.contents[q]], mirror |-> t.mirror]

Listdir(p) == {Last(q) : q \in {x \in DOMAIN disk : x # Root /\ Parent(x) = p}}
\* source nodes that are not on the disk go; all nodes of the folder go when
\* the variant has no folder for it, which is made
Rescan(t, p) ==
  IF p \in t.scanned THEN t
  ELSE LET childs  == {q \in DOMAIN t.nodes \ {Root} : Parent(q) = p}
           missing == {q \in childs : t.nodes[q] = "FILE" /\ Last(q) \notin Listdir(p)}
           sub     == PathToParent(p, srcnode)
           kept    == Detach(t, missing \cup IF sub \in t.mirror THEN {} ELSE childs \ {bldnode})
       IN [kept EXCEPT !.scanned = @ \cup {p}, !.mirror = @ \cup {SubSeq(sub, 1, n) : n \in 0..Len(sub)},
                       !.contents = [q \in DOMAIN @ \cup {p} |-> IF q = p THEN Listdir(p) ELSE @[q]]]

(* ----- looking for nodes: the tree afterwards and the node ----- *)
Got(t, node) == [tree |-> t, node |-> node]
On(p, kind) == p \in DOMAIN disk /\ disk[p] = kind

\* one name of find_dir, seen from a folder that has been rescanned
Into(t, current, name) ==
  LET p == Append(current, name)
  IN CASE name = "."  -> Got(t, current)
       [] name = ".." -> Got(t, Parent(current))
       [] NodeAt(t, p) = "DIR" -> Got(t, p)
       [] NodeAt(t, p) = "" /\ name \in t.contents[current] /\ On(p, "dir") -> Got(AddNode(t, p, "DIR"), p)
       [] OTHER -> Got(t, NoNode)
FindDir(t, from, lst) ==
  LET walk[n \in 0..Len(lst)] ==
        IF n = 0 THEN Got(t, from)
        ELSE LET before == walk[n - 1]
             IN IF before.node = NoNode THEN before
                ELSE Into(Rescan(before.tree, before.node), before.node, lst[n])
  IN walk[Len(lst)]

\* the folder of a path, listed
Enclosing(t, from, lst) == IF Len(lst) = 1 THEN Got(t, from) ELSE FindDir(t, from, Front(lst))
Rescanned(found) == IF found.node = NoNode THEN found ELSE Got(Rescan(found.tree, found.node), found.node)
Folder(t, from, lst) == Rescanned(Enclosing(t, from, lst))

ResourceIn(t, p) ==
  IF NodeAt(t, p) # "" THEN Got(t, IF t.nodes[p] = "DIR" THEN NoNode ELSE p)
  ELSE IF Last(p) \in t.contents[Parent(p)] /\ On(p, "file") THEN Got(AddNode(t, p, "FILE"), p)
  ELSE Got(t, NoNode)
FindResource(t, from, lst) ==
  LET Find(in) == IF in.node = NoNode THEN in ELSE ResourceIn(in.tree, Append(in.node, Last(lst)))
  IN  Find(Folder(t, from, lst))

\* raises for a node that is not a build node; does not look on the disk
DeclareIn(in, p) ==
  IF in.node = NoNode \/ NodeAt(in.tree, p) \in {"DIR", "FILE"} THEN Got(in.tree, NoNode)
  ELSE Got(AddNode(in.tree, p, "BUILD"), p)
\* mutant: the folder is not listed first
FindOrDeclareUnlisted(t, from, lst) ==
  LET Declare(in) == DeclareIn(in, Append(in.node, Last(lst))) IN Declare(Enclosing(t, from, lst))
FindOrDeclare(t, from, lst) ==
  LET Declare(in) == DeclareIn(in, Append(in.node, Last(lst))) IN Declare(Folder(t, from, lst))

\* nodes are made for folders that are not on the disk
EnsureDir(t, from, lst) ==
  LET walk[n \in 0..Len(lst)] ==
        IF n = 0 THEN Got(t, from)
        ELSE LET before == walk[n - 1]
                 p == Append(before.node, lst[n])
             IN CASE before.node = NoNode -> before
                  [] lst[n] = "."  -> before
                  [] lst[n] = ".." -> Got(before.tree, Parent(before.node))
                  [] NodeAt(before.tree, p) = "DIR" -> Got(before.tree, p)
                  [] NodeAt(before.tree, p) = "" -> Got(AddNode(before.tree, p, "DIR"), p)
                  [] OTHER -> Got(before.tree, NoNode)   \* a file has no childs: raises
  IN walk[Len(lst)]

ExclusiveIn(in, p) == Got(IF NodeAt(in.tree, p) = "" THEN AddNode(in.tree, p, "BUILD") ELSE in.tree, p)
\* the folders are looked for and, when they are not there, made as nodes
ExclusiveBuildNode(t, from, lst) ==
  LET Made(found)   == IF found.node = NoNode THEN EnsureDir(found.tree, from, Front(lst)) ELSE found
      Exclusive(in) == IF in.node = NoNode THEN in ELSE ExclusiveIn(in, Append(in.node, Last(lst)))
  IN  Exclusive(IF Len(lst) = 1 THEN Got(t, from) ELSE Rescanned(Made(FindDir(t, from, Front(lst)))))

\* change_ext of an input: the output beside it
ChangeExt(t, p, name) == FindOrDeclare(t, Parent(p), <<name>>)

(***************************************************************************)
(* ant_glob and find_iter.  A pattern is a sequence of sets of names, and  *)
(* AnyDepth is **.                                                              *)
(***************************************************************************)
AnyDepth == {"**"}
Filtre(name, pats) ==
  UNION {IF lst = <<>> THEN {}
         ELSE IF Head(lst) # AnyDepth THEN IF name \in Head(lst) THEN {Tail(lst)} ELSE {}
         ELSE {lst} \cup (IF Len(lst) = 1 THEN {<<>>}
                          ELSE IF name \in lst[2] THEN {SubSeq(lst, 3, Len(lst))} ELSE {})
         : lst \in pats}
\* accept of ant_glob: what is left of the patterns, without what is excluded
Accept(name, pats) ==
  LET rej == Filtre(name, pats[2]) IN <<IF <<>> \in rej THEN {} ELSE Filtre(name, pats[1]), rej>>

Built(t, p) == {q \in DOMAIN t.nodes : q # Root /\ Parent(q) = p /\ t.nodes[q] = "BUILD"}

\* what a walk has come to: the tree and the nodes it found
Walk(t, found) == [tree |-> t, found |-> found]
\* a file of the disk, when it is asked for
Taken(walk, file, asked) ==
  Walk(file.tree, walk.found \cup {q \in {file.node} : asked /\ file.tree.nodes[q] = "FILE"})

RECURSIVE AntIter(_, _, _)
AntDir(walk, next, dir) ==
  IF dir.node \in {NoNode, bldnode} THEN Walk(dir.tree, walk.found)
  ELSE AntIter(Walk(dir.tree, walk.found), dir.node, next)
AntFile(walk, p, name, next, file) ==
  IF file.node # NoNode /\ <<>> \in next[1] THEN Taken(walk, file, TRUE)
  ELSE AntDir(walk, next, FindDir(file.tree, p, <<name>>))
AntName(walk, p, name, next) ==
  IF next[1] = {} THEN walk ELSE AntFile(walk, p, name, next, FindResource(walk.tree, p, <<name>>))
AntOver(walk, p, names, pats) ==
  FoldSet(LAMBDA name, w : AntName(w, p, name, Accept(name, pats)), walk, names)
AntIter(walk, p, pats) ==
  LET Over(listed) == AntOver(Walk(listed, walk.found), p, listed.contents[p], pats)
      AddBuilt(w)  == Walk(w.tree, w.found \cup {q \in Built(w.tree, p) : <<>> \in Accept(Last(q), pats)[1]})
  IN  AddBuilt(Over(Rescan(walk.tree, p)))

\* find_iter: names to accept, and folders to prune
Pruned(name, accepted, pruned) == name \in pruned
RECURSIVE IterIn(_, _, _, _)
IterDir(walk, name, dir, accepted, pruned) ==
  IF dir.node \in {NoNode, bldnode} \/ Pruned(name, accepted, pruned) THEN Walk(dir.tree, walk.found)
  ELSE IterIn(Walk(dir.tree, walk.found), dir.node, accepted, pruned)
IterFile(walk, p, name, file, accepted, pruned) ==
  IF file.node # NoNode THEN Taken(walk, file, name \in accepted)
  ELSE IterDir(walk, name, FindDir(file.tree, p, <<name>>), accepted, pruned)
IterName(walk, p, name, accepted, pruned) ==
  IF name \notin accepted /\ Pruned(name, accepted, pruned) THEN walk
  ELSE IterFile(walk, p, name, FindResource(walk.tree, p, <<name>>), accepted, pruned)
IterOver(walk, p, names, accepted, pruned) ==
  FoldSet(LAMBDA name, w : IterName(w, p, name, accepted, pruned), walk, names)
IterIn(walk, p, accepted, pruned) ==
  LET Over(listed) == IterOver(Walk(listed, walk.found), p, listed.contents[p], accepted, pruned)
      AddBuilt(w)  == Walk(w.tree, w.found \cup {q \in Built(w.tree, p) : Last(q) \in accepted})
  IN  AddBuilt(Over(Rescan(walk.tree, p)))

(* ----- the calls of one process after another ----- *)
NoAnswer == [op |-> "none", from |-> Root, asked |-> <<>>, node |-> NoNode, found |-> {}]
EmptyTree ==
  [nodes |-> [p \in {Root, srcnode, bldnode} |-> "DIR"], scanned |-> {}, contents |-> <<>>, mirror |-> {}]
NodeInit ==
  /\ disk \in Disks
  /\ tree = EmptyTree
  /\ answer = NoAnswer /\ declared = {} /\ fresh = TRUE /\ calls = 0

\* the folders that a script is in
Folders == {p \in DOMAIN tree.nodes : tree.nodes[p] = "DIR" /\ IsChildOf(p, srcnode) /\ ~IsChildOf(p, bldnode)}
Answered(op, from, asked, got) ==
  /\ calls < MaxCalls /\ calls' = calls + 1
  /\ tree' = got.tree
  /\ answer' = [NoAnswer EXCEPT !.op = op, !.from = from, !.asked = asked, !.node = got.node]
  /\ UNCHANGED <<disk, fresh>>

AskDir == \E from \in Folders, lst \in Lookups :
  Answered("find_dir", from, lst, FindDir(tree, from, lst)) /\ UNCHANGED declared
AskResource == \E from \in Folders, lst \in Lookups :
  Answered("find_resource", from, lst, FindResource(tree, from, lst)) /\ UNCHANGED declared
AskDeclare == \E from \in Folders, lst \in Lookups : LET got == FindOrDeclare(tree, from, lst) IN
  Answered("find_or_declare", from, lst, got) /\ declared' = declared \cup ({got.node} \ {NoNode})
AskExclusive == \E from \in Folders, lst \in Lookups : LET got == ExclusiveBuildNode(tree, from, lst) IN
  /\ Len(lst) > 1 /\ ".." \notin ToSet(lst)
  /\ Answered("exclusive_build_node", from, lst, got)
  /\ declared' = declared \cup {p \in {got.node} : NodeAt(got.tree, p) = "BUILD"}
AskEnsure == \E from \in Folders, lst \in {Front(l) : l \in Lookups} :
  /\ Answered("ensure_dir", from, lst, EnsureDir(tree, from, lst)) /\ UNCHANGED declared
AskChangeExt == \E p \in DOMAIN tree.nodes, lst \in Lookups :
  /\ tree.nodes[p] = "FILE" /\ Len(lst) = 1
  /\ LET got == ChangeExt(tree, p, lst[1]) IN
     Answered("change_ext", p, lst, got) /\ declared' = declared \cup ({got.node} \ {NoNode})

Walked(op, from, asked, walk) ==
  /\ calls < MaxCalls /\ calls' = calls + 1
  /\ tree' = walk.tree
  /\ answer' = [NoAnswer EXCEPT !.op = op, !.from = from, !.asked = asked, !.found = walk.found]
  /\ UNCHANGED <<disk, fresh, declared>>
AntGlob == \E from \in Folders, pats \in Patterns : Walked("ant_glob", from, pats, AntIter(Walk(tree, {}), from, pats))
\* the names of the patterns: those to accept and the folders to prune
FindIter == \E from \in Folders, pats \in Patterns :
  LET names(i) == UNION UNION {ToSet(lst) : lst \in pats[i]} IN
  Walked("find_iter", from, <<names(1), names(2)>>, IterIn(Walk(tree, {}), from, names(1), names(2)))

DiskChanges == \E d \in Disks \ {disk} :
  /\ calls < MaxCalls
  /\ disk' = d /\ fresh' = FALSE /\ answer' = NoAnswer
  /\ UNCHANGED <<tree, declared, calls>>
\* the nodes are stored, what was listed is not; the folder of the variant may have gone
NewProcess == \E there \in {tree.mirror, {}} :
  /\ calls < MaxCalls /\ calls' = calls + 1
  /\ tree' = [tree EXCEPT !.scanned = {}, !.contents = <<>>, !.mirror = there]
  /\ declared' = {} /\ fresh' = TRUE /\ answer' = NoAnswer
  /\ UNCHANGED disk

NodeNext == AskDir \/ AskResource \/ AskDeclare \/ AskExclusive \/ AskEnsure \/ AskChangeExt \/ AntGlob \/ FindIter
            \/ DiskChanges \/ NewProcess

(* ----- properties ----- *)
\* every node hangs in a folder, what was listed has a node and a folder in
\* the variant, and of the build folder itself nothing is ever detached
NodeTypeOK ==
  /\ \A p \in DOMAIN tree.nodes : tree.nodes[p] \in {"DIR", "FILE", "BUILD"} /\ NodeAt(tree, Parent(p)) = "DIR"
  /\ {Root, srcnode, bldnode} \subseteq DOMAIN tree.nodes
  /\ DOMAIN tree.contents = tree.scanned
  /\ \A p \in tree.scanned : NodeAt(tree, p) = "DIR" /\ PathToParent(p, srcnode) \in tree.mirror
  /\ declared \subseteq DOMAIN tree.nodes

\* where a relative path leads from a folder
Resolve(from, path) ==
  LET walk[i \in 0..Len(path)] ==
        IF i = 0 THEN from
        ELSE CASE path[i] = "."  -> walk[i - 1]
               [] path[i] = ".." -> Parent(walk[i - 1])
               [] OTHER          -> Append(walk[i - 1], path[i])
  IN walk[Len(path)]
\* the relative path that a command line gets leads from any folder to the
\* node, and in the build folder to the file of the variant; no two nodes
\* under the source folder have one file
PathsLead ==
  LET nodes == {p \in DOMAIN tree.nodes : IsChildOf(p, srcnode)} IN
  /\ \A p \in DOMAIN tree.nodes, from \in DOMAIN tree.nodes : Resolve(from, RelpathGen(p, from)) = p
  /\ \A p \in nodes : Resolve(bldnode, Bldpath(tree, p)) = Abspath(tree, p)
  /\ \A p, q \in nodes : Abspath(tree, p) = Abspath(tree, q) => p = q

\* what find_resource, find_dir and find_or_declare answer in a process under
\* which the disk does not change: a source node only for a file that is
\* there, a file that is there unless a build node stands for it, and the
\* node that was declared as long as the process lives
ResourceExact ==
  LET in == Resolve(answer.from, Front(answer.asked))
      p  == Append(in, Last(answer.asked)) IN
  (fresh /\ answer.op = "find_resource" /\ ToSet(answer.asked) \cap {".", ".."} = {}) =>
     /\ answer.node # NoNode => answer.node = p /\ tree.nodes[p] \in {"FILE", "BUILD"}
     /\ NodeAt(tree, p) = "FILE" => On(p, "file")
     /\ (On(p, "file") /\ answer.node = NoNode) =>
          \/ NodeAt(tree, p) = "DIR"
          \/ \E n \in 1..(Len(p) - 1) : NodeAt(tree, SubSeq(p, 1, n)) \in {"FILE", "BUILD"}
DeclaredFound ==
  \A p \in declared : NodeAt(tree, p) = "BUILD" /\ FindResource(tree, Parent(p), <<Last(p)>>).node = p

\* a path under a folder and a pattern, by their definition: ** stands for any
\* number of names, and for at least one at the end of a pattern
Matches(path, lst) ==
  LET m[i \in 0..Len(path), j \in 0..Len(lst)] ==
        IF j = Len(lst) THEN i = Len(path)
        ELSE IF lst[j + 1] = AnyDepth
        THEN \/ j + 1 < Len(lst) /\ m[i, j + 1]
             \/ i < Len(path) /\ (m[i + 1, j] \/ (j + 1 = Len(lst) /\ i + 1 = Len(path)))
        ELSE i < Len(path) /\ path[i + 1] \in lst[j + 1] /\ m[i + 1, j + 1]
  IN m[0, 0]
Below(from, p) == PathToParent(p, from)
\* the files and the build nodes under a folder that a walk can come by
Walkable(from) ==
  LET way(p) == {SubSeq(p, 1, n) : n \in (Len(from) + 1)..(Len(p) - 1)} IN
  {p \in {q \in DOMAIN disk : disk[q] = "file" /\ NodeAt(tree, q) \in {"", "FILE"}}
         \cup {q \in DOMAIN tree.nodes : tree.nodes[q] = "BUILD"} :
     /\ p # from /\ IsChildOf(p, from) /\ ~IsChildOf(p, bldnode)
     /\ \A q \in way(p) : On(q, "dir") /\ NodeAt(tree, q) \in {"", "DIR"}}
\* a glob gives the files on the disk and the build nodes that one of the
\* patterns takes, without what an excluding pattern takes and what is under it
GlobExact ==
  (fresh /\ answer.op = "ant_glob") =>
     answer.found =
       {p \in Walkable(answer.from) :
          LET names == Below(answer.from, p) IN
          /\ \E lst \in answer.asked[1] : Matches(names, lst)
          /\ \A lst \in answer.asked[2], n \in 1..Len(names) : ~Matches(SubSeq(names, 1, n), lst)}
\* find_iter gives those with an accepted name whose folders are not pruned
IterExact ==
  (fresh /\ answer.op = "find_iter") =>
     answer.found =
       {p \in Walkable(answer.from) :
          LET names == Below(answer.from, p) IN
          Last(names) \in answer.asked[1] /\ ToSet(Front(names)) \cap answer.asked[2] = {}}

\* The tree tells the truth: it is whole, its paths lead to the nodes, and what
\* a lookup or a walk answers is what the disk has or was declared.
TreeFaithful == NodeTypeOK /\ PathsLead /\ ResourceExact /\ DeclaredFound /\ GlobExact /\ IterExact
=============================================================================
