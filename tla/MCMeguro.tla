------------------------------ MODULE MCMeguro ------------------------------
(* Two or three invocations over the same files. *)
EXTENDS Meguro

MCKeys == {"a", "b"}

MCInputs ==
  {[emits |-> [k \in MCKeys |-> IF k = "a" THEN 2 ELSE 0], sets |-> {"b"}],
   [emits |-> [k \in MCKeys |-> 1], sets |-> {}]}

Options(options) == [o \in DOMAIN NoEnvironment |-> o \in options]

MCEnvironments ==
  {Options({}), Options({"list"}), Options({"dictionary"}),
   Options({"incremental_map"}),
   Options({"incremental_map", "incremental_reduce"}),
   Options({"incremental_reduce"}),
   Options({"just_reduce"}), Options({"just_reduce", "incremental_reduce"}),
   Options({"optimize_bucket_count"})}

MCFunctions == {{"map", "reduce"}, {"map"}, {"reduce"}}

Writable == [f \in Files |-> TRUE]
MCDirectories == {Writable, [f \in Files |-> f = "map.out"], [f \in Files |-> FALSE]}

\* A closed file with one record of an earlier invocation.
OldFile(access) ==
  [access |-> access, ok |-> TRUE,
   data |-> [k \in {Key("b", <<>>)} |-> 0]]

MCInitialFiles == {MissingFile, OldFile("rw"), OldFile("ro")}
=============================================================================
