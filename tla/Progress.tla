------------------------------ MODULE Progress ------------------------------
(***************************************************************************)
(* Progress: what a long operation has done so far, as a percentage of a   *)
(* size or, when that is 0, as a number.  shown is the last number on the  *)
(* console; the wording and the K and M of large numbers are left out.     *)
(***************************************************************************)
EXTENDS Naturals

CONSTANTS
  SampleRate,             \* sample_rate_, 1000 in the code
  UndefinedPercentages    \* what (uint32_t) of an infinite double may be

NewProgress(size, verbose) ==
  [verbose_ |-> verbose, size_ |-> size, absolute_ |-> size = 0, current_ |-> 0,
   current_percentage_ |-> 0, current_sample_ |-> 0, shown |-> 0]

\* current_ / size_ in hundredths; a size of 0 is not tested.
PercentagesOf(progress) ==
  IF progress.size_ = 0 THEN UndefinedPercentages
  ELSE {(100 * progress.current_) \div progress.size_}

\* The possible results of tick.  Without verbose_, what is shown when the
\* percentage has grown is the percentage before.
Tick(progress, size) ==
  LET ticked == [progress EXCEPT !.current_ = @ + size]
  IN  {IF ticked.verbose_ THEN [ticked EXCEPT !.shown = percentage]
       ELSE IF percentage <= ticked.current_percentage_ THEN ticked
       ELSE [ticked EXCEPT !.shown = ticked.current_percentage_,
                           !.current_percentage_ = percentage]
         : percentage \in PercentagesOf(ticked)}

Absolute(progress, size) ==
  LET current == progress.current_ + size
      sample  == progress.current_sample_ + 1
      added   == [progress EXCEPT !.current_ = current]
  IN  IF progress.verbose_ THEN [added EXCEPT !.shown = current]
      ELSE [added EXCEPT !.current_sample_ = sample,
                         !.shown = IF sample % SampleRate = 0 THEN current ELSE @]

Done(progress) ==
  [progress EXCEPT !.shown = IF progress.absolute_ THEN progress.current_ ELSE 100]
=============================================================================
