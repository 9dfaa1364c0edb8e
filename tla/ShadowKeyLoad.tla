---------------------------- MODULE ShadowKeyLoad ----------------------------
(***************************************************************************)
(* ShadowKeyMap::load, which -e/--skip-map uses in place of the map phase: *)
(* it opens the output file of an earlier map, iterates over its keys in   *)
(* the order of Tokyo Cabinet's hash - any order - and rebuilds the counts *)
(* from the shadow keys it finds.                                          *)
(*                                                                         *)
(* The file holds what a completed map phase left there: the shadow keys   *)
(* numbered 0 to counts[k] of every emitted key k, and the keys it set.    *)
(***************************************************************************)
EXTENDS ShadowKeys

CONSTANTS
  RunKeys,   \* the keys the map function may emit
  SetKeys,   \* the keys it set
  MaxCount   \* bound on the counts

ASSUME LoadAssumption ==
  /\ CountMod \in Nat \ {0}
  /\ MaxCount \in 0..CountMod - 1

VARIABLES
  counts,    \* the shadow key map of the earlier run
  seen,      \* the keys tchdbiternext2 returned so far
  map,       \* map_root_, rebuilt so far
  phase      \* "open", "iterate", "loaded" or "failed"

loadvars == <<counts, seen, map, phase>>

\* The keys of the output file.
File ==
  (UNION {{GenerateShadowKey(k, n) : n \in 0..counts[k]} : k \in DOMAIN counts})
    \cup SetKeys

LoadInit ==
  /\ \E D \in SUBSET RunKeys : counts \in [D -> 0..MaxCount]
  /\ seen = {}
  /\ map = EmptyMap
  /\ phase = "open"

Open ==
  /\ phase = "open"
  /\ phase' = "iterate"
  /\ UNCHANGED <<counts, seen, map>>

\* ShadowKeyMapException: main prints it and exits.
OpenFails ==
  /\ phase = "open"
  /\ phase' = "failed"
  /\ UNCHANGED <<counts, seen, map>>

LoadNext(key) ==
  /\ phase = "iterate"
  /\ key \notin seen
  /\ seen' = seen \cup {key}
  /\ map' = LoadKey(map, key)
  /\ UNCHANGED <<counts, phase>>

\* tchdbiternext2 returned NULL.
LoadEnds ==
  /\ phase = "iterate"
  /\ seen = File
  /\ phase' = "loaded"
  /\ UNCHANGED <<counts, seen, map>>

LoadTerminated == phase \in {"loaded", "failed"} /\ UNCHANGED loadvars

LoadingNext ==
  \/ Open \/ OpenFails
  \/ \E key \in File : LoadNext(key)
  \/ LoadEnds
  \/ LoadTerminated

LoadSpec == LoadInit /\ [][LoadingNext]_loadvars

------------------------------------------------------------------------------
LoadTypeOK ==
  /\ DOMAIN counts \subseteq RunKeys
  /\ counts \in [DOMAIN counts -> 0..MaxCount]
  /\ seen \subseteq File
  /\ map \in [DOMAIN map -> 0..CountMod - 1]
  /\ phase \in {"open", "iterate", "loaded", "failed"}

\* Whatever the order of the iteration, the reduce phase after load finds the
\* counts it would have found right after the map phase, so that it reduces
\* the same groups; a key that was only set is one more key, with count 0.
\* These are the greatest counts in the file, which Meguro takes load to find.
LoadRestoresCounts ==
  phase = "loaded" =>
    /\ map = [k \in DOMAIN counts \cup SetKeys |->
                IF k \in DOMAIN counts THEN counts[k] ELSE 0]
    /\ map = LoadedCounts(File)
=============================================================================
