--------------------------- MODULE MCReducePhase ---------------------------
(***************************************************************************)
(* Instances of ReducePhase for TLC: three keys with three, one and two    *)
(* values, a key that map set and did not emit, and reduce calls that save *)
(* under their own key and under a common one.                             *)
(***************************************************************************)
EXTENDS ReducePhase, TLC

A == Key("a", <<>>)
B == Key("b", <<>>)
C == Key("c", <<>>)
S == Key("s", <<>>)
Common == Key("total", <<>>)

MCRoots == <<[key |-> A, count |-> 2], [key |-> B, count |-> 0],
             [key |-> C, count |-> 1]>>

MCMapOut ==
  GenerateShadowKey(A, 0) :> 1 @@ GenerateShadowKey(A, 1) :> 2 @@
  GenerateShadowKey(A, 2) :> 1 @@ GenerateShadowKey(B, 0) :> 3 @@
  GenerateShadowKey(C, 0) :> 4 @@ GenerateShadowKey(C, 1) :> 5 @@ S :> 6

MCSavesOf == A :> <<A, Common>> @@ B :> <<Common, B>> @@ C :> <<C>>

\* The reduce output of an earlier run, with a key of this run and another.
OldOutput == A :> (0 :> 7) @@ S :> (0 :> 8)

Option(cap, incremental) ==
  [cap_amount |-> cap, incremental_reduce |-> incremental]

AllOptions == {Option(c, i) : c \in {0, 1}, i \in BOOLEAN}
=============================================================================
