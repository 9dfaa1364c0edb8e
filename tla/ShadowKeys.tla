----------------------------- MODULE ShadowKeys -----------------------------
(***************************************************************************)
(* ShadowKeyMap and its keys.  Tokyo Cabinet holds one value per key, so   *)
(* the values emitted for one key are stored under shadow keys: the first  *)
(* under the key itself, the next under key|m1, key|m2, ...  The map       *)
(* counts, per key, the number of the last shadow key handed out.          *)
(*                                                                         *)
(* A key is a C string.  What the code looks at is where "|m" occurs in it *)
(* and what atoi reads there, so a key is a name without "|m" and the      *)
(* sequence of the numbers that follow each "|m"; 0 stands for any text    *)
(* atoi reads no number from.  "hello|m2" is [name |-> "hello",            *)
(* marks |-> <<2>>], "user|mode" is [name |-> "user", marks |-> <<0>>].    *)
(***************************************************************************)
EXTENDS Naturals, Sequences, FiniteSetsExt

CONSTANT CountMod   \* shadow_key_count_t.count is a uint32_t: 2^32 in the code

Key(name, marks) == [name |-> name, marks |-> marks]

\* No "|m" in the key.
Plain(key) == key.marks = <<>>

\* generate_shadow_key: the key for the value with this number.
GenerateShadowKey(key, count) ==
  IF count = 0 THEN key ELSE [key EXCEPT !.marks = Append(@, count)]

------------------------------------------------------------------------------
(* The map, map_root_: from the keys seen so far to their counts.          *)

EmptyMap == [key \in {} |-> 0]

\* Mutant of Increment: the first value gets the number 1.
IncrementFromOne(map, key) ==
  [k \in DOMAIN map \cup {key} |->
     IF k # key THEN map[k]
     ELSE IF key \in DOMAIN map THEN (map[key] + 1) % CountMod
     ELSE 1]

\* HASH_FIND_STR, then count++ or a new element with count 0.
Increment(map, key) ==
  [k \in DOMAIN map \cup {key} |->
     IF k # key THEN map[k]
     ELSE IF key \in DOMAIN map THEN (map[key] + 1) % CountMod
     ELSE 0]

KeyCount(map, key) == IF key \in DOMAIN map THEN map[key] ELSE 0

CurrentShadowKey(map, key) == GenerateShadowKey(key, KeyCount(map, key))

------------------------------------------------------------------------------
(* load: rebuild the map from the keys of a map output file.               *)

\* The key cut at its first "|m".
RootOf(key) == Key(key.name, <<>>)

\* The number after the first "|m"; 0 when there is none.
ParsedCount(key) == IF Plain(key) THEN 0 ELSE key.marks[1] % CountMod

\* Mutant of LoadKey: the last count seen wins.
LoadKeyLast(map, key) ==
  [k \in DOMAIN map \cup {RootOf(key)} |->
     IF k # RootOf(key) THEN map[k] ELSE ParsedCount(key)]

\* One turn of the loop over the file: keep the greatest count per root.
LoadKey(map, key) ==
  LET root == RootOf(key)
      new  == ParsedCount(key)
  IN  [k \in DOMAIN map \cup {root} |->
         IF k # root THEN map[k]
         ELSE IF root \in DOMAIN map /\ map[root] >= new THEN map[root]
         ELSE new]

\* What the loop leaves, in whatever order it meets these keys: the greatest
\* count of every root.
LoadedCounts(keys) ==
  [root \in {RootOf(key) : key \in keys} |->
     Max({ParsedCount(key) : key \in {key \in keys : RootOf(key) = root}})]
=============================================================================
