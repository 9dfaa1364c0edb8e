------------------------------ MODULE MCProject ------------------------------
(***************************************************************************)
(* What a project's scripts call, one part at a time while the others are  *)
(* idle: configure, the generators of build, the sorter of their methods   *)
(* and the tree of nodes.                                                  *)
(***************************************************************************)
EXTENDS MCTaskGen, MCConfigure, MCNodeTree

MCInit ==
  \/ Init /\ NoSort /\ NoConf /\ NoNodes
  \/ NoProject /\ SortInit /\ NoConf /\ NoNodes
  \/ NoProject /\ NoSort /\ MCConfInit /\ NoNodes
  \/ NoProject /\ NoSort /\ NoConf /\ NodeInit

\* a part that is idle has no step
MCNext ==
  \/ Next /\ UNCHANGED <<sortvars, cvars, nodevars>>
  \/ Pop /\ UNCHANGED <<vars, cvars, nodevars>>
  \/ status # "idle" /\ ConfNext /\ UNCHANGED <<vars, sortvars, nodevars>>
  \/ disk # <<>> /\ NodeNext /\ UNCHANGED <<vars, sortvars, cvars>>

MCSpec == MCInit /\ [][MCNext]_<<vars, sortvars, cvars, nodevars>> /\ Fairness
=============================================================================
