----------------------------- MODULE MCMapPhase -----------------------------
(***************************************************************************)
(* Instances of MapPhase for TLC.  The records emit the same keys from     *)
(* different workers, set a key, and make several calls each.              *)
(***************************************************************************)
EXTENDS MapPhase

Emit(name, value) ==
  [op |-> "emit", key |-> Key(name, <<>>), value |-> value, size |-> 1]

Set(name, value) ==
  [op |-> "set", key |-> Key(name, <<>>), value |-> value, size |-> 1]

MCRecords == {"r1", "r2", "r3", "other", "bad"}

\* Two records emit for the key "a", one of them the same value twice.
SharedCalls ==
  [r1    |-> <<Emit("a", 1), Emit("a", 1)>>,
   r2    |-> <<Emit("a", 2), Set("s", 1)>>,
   r3    |-> <<Set("s", 2)>>,
   other |-> <<Emit("b", 1)>>,
   bad   |-> <<Emit("a", 3)>>]

\* "other" is not selected with -k x.
MCRecordKey ==
  [r1 |-> "x", r2 |-> "x", r3 |-> "x", other |-> "y", bad |-> "x"]

File(records) == [opens |-> TRUE, records |-> records]
Broken == [opens |-> FALSE, records |-> <<>>]

\* A file that does not open between two that do.
ThreeFiles ==
  <<File(<<"r1", "bad">>), Broken, File(<<"r3", "other", "r2">>)>>

OneFile == <<File(<<"r1", "r2">>)>>

\* What an earlier run left in the output file: a value for a key of this run,
\* or for another key.
OldOutput == Put(EmptyDb, Key("a", <<>>), 9)
OtherOutput == Put(EmptyDb, Key("z", <<>>), 9)

Option(optimize, incremental) ==
  [optimize_bucket_count |-> optimize, incremental_map |-> incremental]

AllOptions == {Option(o, i) : o \in BOOLEAN, i \in BOOLEAN}
IncrementalMap == {Option(FALSE, TRUE)}
=============================================================================
