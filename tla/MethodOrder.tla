----------------------------- MODULE MethodOrder -----------------------------
(***************************************************************************)
(* How waf orders the methods of a task generator: task_gen.apply sorts    *)
(* the methods that the features bring, by a precedence table that the     *)
(* decorators of the tools fill.  The table says of a method which ones    *)
(* come before it, and may name methods that are not among those to sort.  *)
(* The methods are kept in a set, so the first list is in any order.       *)
(***************************************************************************)
EXTENDS Naturals, Sequences, FiniteSets

CONSTANTS
  Methods,   \* method names
  Tables     \* the precedence tables to try: method -> sequence of methods

NoRepeats(s) == \A i, j \in DOMAIN s : s[i] = s[j] => i = j

ASSUME TablesAssumption ==
  /\ IsFiniteSet(Methods)
  /\ \A t \in Tables : DOMAIN t = Methods /\ \A m \in Methods : t[m] \in Seq(Methods) /\ NoRepeats(t[m])

VARIABLES
  keys,     \* the methods to sort
  prec,     \* what is left of the precedence table: method -> sequence
  tmp,      \* the methods nothing is left to come after
  out,      \* the methods sorted so far, the last one first
  table     \* the table before sorting

sortvars == <<keys, prec, tmp, out, table>>

Listed(p) == UNION {{p[x][i] : i \in DOMAIN p[x]} : x \in DOMAIN p}

(* ----- the decorators ----- *)

AddOnce(s, x) == IF \E i \in DOMAIN s : s[i] = x THEN s ELSE Append(s, x)
EmptyTable == [m \in Methods |-> <<>>]

\* @before(k): func is put before k; @after(k): k is put before func
Registered(t, r) ==
  IF r.before THEN [t EXCEPT ![r.k] = AddOnce(@, r.func)]
              ELSE [t EXCEPT ![r.func] = AddOnce(@, r.k)]

TableOf(rs) ==
  LET after[n \in 0..Len(rs)] == IF n = 0 THEN EmptyTable ELSE Registered(after[n - 1], rs[n])
  IN after[Len(rs)]

(* ----- the sort ----- *)

Restricted(t, ks) == [x \in {k \in ks : t[k] # <<>>} |-> t[x]]

ElementsOf(s) == {s[i] : i \in DOMAIN s}
ListsOf(S) == {s \in [1..Cardinality(S) -> S] : NoRepeats(s) /\ ElementsOf(s) = S}

SortInit ==
  /\ keys \in SUBSET Methods \ {{}}
  /\ table \in Tables
  /\ prec = Restricted(table, keys)
  /\ tmp \in ListsOf(keys \ Listed(prec))
  /\ out = <<>>

\* what comes before a method
BeforeIt(p, e) == IF e \in DOMAIN p THEN ElementsOf(p[e]) ELSE {}

\* mutant: what came before it is next at once
PopEager ==
  /\ tmp # <<>>
  /\ LET e == tmp[Len(tmp)]
     IN /\ out' = IF e \in keys THEN Append(out, e) ELSE out
        /\ prec' = [x \in DOMAIN prec \ {e} |-> prec[x]]
        /\ \E next \in ListsOf(BeforeIt(prec, e)) : tmp' = SubSeq(tmp, 1, Len(tmp) - 1) \o next
  /\ UNCHANGED <<keys, table>>

\* the last method of the list is taken; what came before it alone is next,
\* here in any order
Pop ==
  /\ tmp # <<>>
  /\ LET e == tmp[Len(tmp)]
         left == [x \in DOMAIN prec \ {e} |-> prec[x]]
     IN /\ out' = IF e \in keys THEN Append(out, e) ELSE out
        /\ prec' = left
        /\ \E next \in ListsOf(BeforeIt(prec, e) \ Listed(left)) : tmp' = SubSeq(tmp, 1, Len(tmp) - 1) \o next
  /\ UNCHANGED <<keys, table>>

SortSpec == SortInit /\ [][Pop]_sortvars

(* ----- what the rest of waf relies on ----- *)

Sorted == tmp = <<>>

Precedes(a, b) == \E i \in DOMAIN table[b] : table[b][i] = a

\* a set of methods each of which comes before another one of the set
Circular(S) == S # {} /\ \A a \in S : \E b \in S : Precedes(a, b)

\* The sort ends with every method exactly once and each after those it names,
\* or, just when the methods to sort go round in a circle, with an error.
SortedInOrder ==
  Sorted =>
    IF DOMAIN prec # {} THEN \E S \in SUBSET keys : Circular(S)
    ELSE /\ NoRepeats(out) /\ ElementsOf(out) = keys
         /\ \A i, j \in DOMAIN out : Precedes(out[i], out[j]) => j < i
=============================================================================
