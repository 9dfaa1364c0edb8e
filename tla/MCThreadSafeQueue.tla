------------------------- MODULE MCThreadSafeQueue -------------------------
(***************************************************************************)
(* Instances of ThreadSafeQueue for TLC.  The inputs are pairwise distinct *)
(* values, so that a lost, doubled or overtaken one shows.                 *)
(***************************************************************************)
EXTENDS ThreadSafeQueue

CONSTANTS Length   \* how many values the Master enqueues

Distinct == [i \in 1..Length |-> i]

Values == 1..Length

=============================================================================
