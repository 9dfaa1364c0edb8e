---------------------------- MODULE GroupedOutput ----------------------------
(***************************************************************************)
(* What the map phase promises the reduce phase: a file that groups, by    *)
(* key, every value the map function emitted for the whole input - each as *)
(* often as it was emitted, none lost to another emit - and that is        *)
(* complete when the map phase says so.  Nothing is promised about the     *)
(* order of the values of a key.                                           *)
(***************************************************************************)
EXTENDS Naturals

CONSTANTS
  Pairs,    \* the pairs <<key, value>> map may emit
  Due       \* how often the whole input emits each of them

VARIABLES
  stored,   \* how often each pair is in the output
  complete  \* the output is handed to the reduce phase

groupVars == <<stored, complete>>

Init ==
  /\ stored = [p \in Pairs |-> 0]
  /\ complete = FALSE

\* Meguro.emit took effect.
Store(p) ==
  /\ ~complete
  /\ stored[p] < Due[p]
  /\ stored' = [stored EXCEPT ![p] = @ + 1]
  /\ UNCHANGED complete

\* Mapper::end.
Complete ==
  /\ ~complete
  /\ stored = Due
  /\ complete' = TRUE
  /\ UNCHANGED stored

Next == (\E p \in Pairs : Store(p)) \/ Complete

Spec == Init /\ [][Next]_groupVars
=============================================================================
