------------------------------ MODULE MCReaders ------------------------------
(***************************************************************************)
(* Three readers of files: meguro's iterators of its input files, its load *)
(* of an earlier map output, and waf's scan of C files for their headers.  *)
(* While one reads, the others stand still.                                *)
(***************************************************************************)
EXTENDS Iterators, MCShadowKeyLoad, MCPreproc

NoFile ==
  /\ kind = "line" /\ file = <<>> /\ stage = "refused" /\ failed = FALSE /\ pos = 0 /\ inLine = FALSE
  /\ full_line = <<>> /\ values = <<>> /\ progress = NewProgress(0, FALSE)
NoLoad == counts = EmptyMap /\ seen = {} /\ map = EmptyMap /\ phase = "failed"
NoProgram == [sources |-> <<>>, unreadable |-> {}, nodepaths |-> <<>>, deflines |-> <<>>, files |-> <<>>]
NoScan ==
  /\ program = NoProgram /\ todo = <<>> /\ source = NoSource
  /\ deps = <<>> /\ parse_cache = <<>>
  /\ lines = <<>> /\ defs = <<>> /\ state = <<>> /\ count_files = 0 /\ currentnode_stack = <<>>
  /\ nodes = <<>> /\ names = <<>> /\ curfile = <<>> /\ ban_includes = {}

MCInit ==
  \/ Init /\ NoLoad /\ NoScan
  \/ NoFile /\ LoadInit /\ NoScan
  \/ NoFile /\ NoLoad /\ ScanInit

\* the last source is scanned, or one cannot be read
ScanEnds ==
  /\ program.sources # <<>> /\ source = NoSource
  /\ todo # <<>> => ~Readable(Head(todo))
  /\ UNCHANGED scanvars

MCNext ==
  \/ Next /\ UNCHANGED <<loadvars, scanvars>>
  \/ LoadingNext /\ UNCHANGED <<vars, scanvars>>
  \/ (ScanNext \/ ScanEnds) /\ UNCHANGED <<vars, loadvars>>
MCSpec == MCInit /\ [][MCNext]_<<vars, loadvars, scanvars>> /\ WF_vars(Next)
=============================================================================
