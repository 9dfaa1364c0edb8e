----------------------------- MODULE Environment -----------------------------
(***************************************************************************)
(* The environments of waf: a table of its own and a parent to look in for *)
(* what the table does not have.  Here an environment is the sequence of   *)
(* the tables, its own first; every value is a list of strings.            *)
(***************************************************************************)
EXTENDS Sequences, Naturals, FiniteSets

\* __getitem__: the nearest table that has the key; a missing key is no error
Get(env, key) ==
  LET has == {i \in DOMAIN env : key \in DOMAIN env[i]}
  IN IF has = {} THEN <<>>
     ELSE env[CHOOSE i \in has : \A j \in has : i <= j][key]

Put(env, key, value) ==
  <<[x \in DOMAIN env[1] \cup {key} |-> IF x = key THEN value ELSE env[1][x]]>> \o Tail(env)

\* the list is copied from the parent before it is modified
AppendValue(env, key, values) == Put(env, key, Get(env, key) \o values)
PrependValue(env, key, values) == Put(env, key, values \o Get(env, key))

\* the entries of set, and those of table that it does not have
Over(set, table) ==
  [x \in DOMAIN set \cup DOMAIN table |-> IF x \in DOMAIN set THEN set[x] ELSE table[x]]

\* what a list has at some places, in its order
At(s, places) ==
  LET upto(i) == {j \in places : j <= i}
  IN  [n \in 1..Cardinality(places) |-> s[CHOOSE i \in places : Cardinality(upto(i)) = n]]

IsIn(x, s) == \E i \in DOMAIN s : s[i] = x
Unique(s, values) ==
  LET after[n \in 0..Len(values)] ==
        IF n = 0 THEN s
        ELSE LET before == after[n - 1]
             IN IF IsIn(values[n], before) THEN before ELSE Append(before, values[n])
  IN after[Len(values)]
AppendUnique(env, key, values) == Put(env, key, Unique(Get(env, key), values))

\* mutant: a copy that what is written to the parent later on is not seen through
OwnDetached(parent) == parent[1]
\* copy: the derived environment has nothing of its own, so that what is
\* written to the parent later on is seen through it
Own(parent) == [x \in {} |-> <<>>]
=============================================================================
