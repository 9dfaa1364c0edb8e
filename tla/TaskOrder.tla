------------------------------ MODULE TaskOrder ------------------------------
(***************************************************************************)
(* How waf's TaskGroup orders the tasks of a group.  Tasks with the same   *)
(* class share their constraints; classes are ordered by the extensions    *)
(* they read and write and by their before and after attributes; the       *)
(* group then hands out, again and again, the tasks of every class that    *)
(* no remaining class precedes.                                            *)
(*                                                                         *)
(* A class of constraints is a record [name, before, after, ext_in,        *)
(* ext_out, maxjobs]; a group keeps the sequence of its classes, in the    *)
(* order of a hash table, and the pairs of classes in cstr_order.          *)
(***************************************************************************)
EXTENDS Integers, SequencesExt

\* MAXJOBS, 99999999 in the code.
CONSTANT MAXJOBS

\* compare_exts: whoever writes an extension precedes who reads it.
CompareExts(c1, c2) ==
  IF c1.ext_in \cap c2.ext_out # {} THEN -1
  ELSE IF c2.ext_in \cap c1.ext_out # {} THEN 1
  ELSE 0

\* compare_partial: what before and after say.
ComparePartial(c1, c2) ==
  IF c2.name \in c1.after THEN -1
  ELSE IF c2.name \in c1.before THEN 1
  ELSE IF c1.name \in c2.after THEN 1
  ELSE IF c1.name \in c2.before THEN -1
  ELSE 0

Compare(c1, c2) ==
  IF CompareExts(c1, c2) # 0 THEN CompareExts(c1, c2) ELSE ComparePartial(c1, c2)

\* extract_constraints: one comparison for each pair of classes, the one
\* the hash table lists first on the left.
ExtractConstraints(keys) ==
  LET Pairs == {q \in (1..Len(keys)) \X (1..Len(keys)) : q[1] < q[2]}
      Val(p) == Compare(keys[p[1]], keys[p[2]])
  IN  {<<keys[p[1]], keys[p[2]]>> : p \in {q \in Pairs : Val(q) > 0}} \cup
      {<<keys[p[2]], keys[p[1]]>> : p \in {q \in Pairs : Val(q) < 0}}

\* The elements of S in the order that before gives: <<x, y>> is in it when x
\* comes before y.
Listed(S, before) ==
  [k \in 1..Cardinality(S) |->
     CHOOSE x \in S : Cardinality({y \in S : <<y, x>> \in before}) = k - 1]

\* The order of a sequence.
Position(s, x) == CHOOSE i \in DOMAIN s : s[i] = x
OrderOf(s) == {q \in ToSet(s) \X ToSet(s) : Position(s, q[1]) < Position(s, q[2])}

\* tasks_in_parallel hands out the classes nothing in cstr_order precedes,
\* and forgets them and what they precede.
Connected(order, c) == \E p \in order : p[2] = c
Unconnected(keys, order) == {c \in ToSet(keys) : ~Connected(order, c)}
Remainder(keys, order) == Listed({c \in ToSet(keys) : Connected(order, c)}, OrderOf(keys))
RemainingOrder(keys, order) == {p \in order : p[1] \notin Unconnected(keys, order)}

\* tasks_by_max_jobs: those with the least maxjobs now, the others later.
Pass(r, t, jobs) ==
  IF jobs > r.jobs THEN [r EXCEPT !.later = Append(@, t)]
  ELSE IF jobs = r.jobs THEN [r EXCEPT !.now = Append(@, t)]
  ELSE [jobs |-> jobs, now |-> <<t>>, later |-> r.later \o r.now]
TasksByMaxJobs(tasks, cstr) ==
  LET sorted[i \in 0..Len(tasks)] ==
        IF i = 0 THEN [jobs |-> MAXJOBS, now |-> <<>>, later |-> <<>>]
        ELSE Pass(sorted[i - 1], tasks[i], cstr[tasks[i]].maxjobs)
  IN  sorted[Len(tasks)]

(***************************************************************************)
(* The two functions a project may put in file_deps.  What they look at of *)
(* a task t is files[t]: its input and output nodes, those its scanner     *)
(* found, and its variant.  A pair <<a, b>> means that a must run after b. *)
(***************************************************************************)
ExtractOutputs(tasks, files) ==
  {q \in ToSet(tasks) \X ToSet(tasks) :
     files[q[1]].variant = files[q[2]].variant /\ files[q[1]].ins \cap files[q[2]].outs # {}}

\* extract_deps: the variant of the last task stands for that of every task
\* with dependencies; of several tasks that write a file the last one counts.
Writer(tasks, files, variant, file) ==
  {i \in DOMAIN tasks :
     /\ files[tasks[i]].variant = variant /\ file \in files[tasks[i]].outs
     /\ \A j \in DOMAIN tasks :
          j > i /\ files[tasks[j]].variant = variant => file \notin files[tasks[j]].outs}
ExtractDeps(tasks, files) ==
  ExtractOutputs(tasks, files) \cup
  {q \in ToSet(tasks) \X ToSet(tasks) :
     \E file \in files[q[1]].deps :
       \E i \in Writer(tasks, files, files[tasks[Len(tasks)]].variant, file) : tasks[i] = q[2]}
=============================================================================
