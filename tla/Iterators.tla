------------------------------ MODULE Iterators ------------------------------
(***************************************************************************)
(* The four iterators Mapper::begin reads its input with.  LineIterator    *)
(* and GzipIterator run the same loop over fgets and gzgets, which return  *)
(* at most IO_BUFFER_SIZE - 1 bytes and stop after a newline; a line       *)
(* longer than that is put together in full_line, and its newline becomes  *)
(* the terminator.  The two for Tokyo Cabinet files take one record a      *)
(* call.  Each reports its progress.                                       *)
(*                                                                         *)
(* A text file is a sequence of bytes without NUL, a Tokyo Cabinet file    *)
(* the sequence of its records, in the order of its hash or tree.          *)
(***************************************************************************)
EXTENDS Progress, Sequences, FiniteSetsExt, SequencesExt

CONSTANTS
  Bytes,       \* the bytes of a file other than the newline
  Newline,
  Garbage,     \* a byte behind the end of an allocation
  Records,     \* the values of records
  NoValue,     \* of a key tcadbget2 finds no value for
  MaxLength,   \* bound on the length of a text file
  MaxRecords,  \* bound on the number of records
  BufferSize   \* IO_BUFFER_SIZE, 4096 in the code

ASSUME IteratorAssumption ==
  /\ Newline \notin Bytes
  /\ Garbage \notin Bytes \cup {Newline}
  /\ NoValue \notin Records
  /\ BufferSize \in Nat \ {0, 1}
  /\ MaxLength \in Nat
  /\ MaxRecords \in Nat

VARIABLES
  kind,        \* the class of the iterator
  file,        \* the contents of the file
  stage,       \* "new", "open", "refused" or "complete"
  failed,      \* reading runs into an error
  pos,         \* how much of the file was read
  inLine,      \* full_line is not NULL
  full_line,   \* the bytes copied to full_line
  values,      \* the values of the records next() returned
  progress     \* progress_

vars == <<kind, file, stage, failed, pos, inLine, full_line, values, progress>>

TextKinds == {"line", "gzip"}
DbKinds   == {"hash", "cabinet"}

\* The value of a record; a missing one becomes "".
ValueOf(record) == IF record = NoValue THEN <<>> ELSE record

FilesOf(k) ==
  CASE k \in TextKinds -> BoundedSeq(Bytes \cup {Newline}, MaxLength)
    [] k = "hash"      -> BoundedSeq(Records, MaxRecords)
    [] k = "cabinet"   -> BoundedSeq(Records \cup {NoValue}, MaxRecords)

\* pick_an_iterator, by the name of the file.
Init ==
  /\ kind \in TextKinds \cup DbKinds
  /\ file \in FilesOf(kind)
  /\ stage = "new"
  /\ failed = FALSE
  /\ pos = 0
  /\ inLine = FALSE
  /\ full_line = <<>>
  /\ values = <<>>
  /\ progress = NewProgress(0, FALSE)

------------------------------------------------------------------------------
(* initialize                                                              *)

Opened(size) ==
  /\ stage = "new"
  /\ stage' = "open"
  /\ \E verbose \in BOOLEAN : progress' = NewProgress(size, verbose)
  /\ UNCHANGED <<kind, file, failed, pos, inLine, full_line, values>>

\* st_size is the length of the file, or 0 when it is a pipe.
LineInitialize == kind = "line" /\ \E size \in {Len(file), 0} : Opened(size)

\* The length of the uncompressed text is not known.
GzipInitialize == kind = "gzip" /\ Opened(0)

\* tchdbrnum, tcadbrnum.
HashInitialize    == kind = "hash" /\ Opened(Len(file))
CabinetInitialize == kind = "cabinet" /\ Opened(Len(file))

\* IteratorInitException.
InitializeFails ==
  /\ stage = "new"
  /\ stage' = "refused"
  /\ UNCHANGED <<kind, file, failed, pos, inLine, full_line, values, progress>>

------------------------------------------------------------------------------
(* next                                                                    *)

\* From here on reads fail: they return NULL or false, as at the end.
ReadFails ==
  /\ stage = "open"
  /\ ~failed
  /\ failed' = TRUE
  /\ UNCHANGED <<kind, file, stage, pos, inLine, full_line, values, progress>>

\* fgets(buf, IO_BUFFER_SIZE, file_): the bytes up to the next newline, the
\* end of the file or the end of the buffer; <<>> stands for NULL.
Chunk ==
  LET last == Min({Len(file), pos + BufferSize - 1})
      ends == {i \in pos + 1..last : file[i] = Newline}
  IN  IF failed THEN <<>> ELSE SubSeq(file, pos + 1, Min(ends \cup {last}))

\* tick with the length of the chunk; a GzipIterator calls absolute.
Report ==
  IF kind = "line" THEN progress' \in Tick(progress, Len(Chunk))
  ELSE progress' = Absolute(progress, Len(Chunk))

\* A chunk that does not end the line.
ReadPart ==
  /\ stage = "open"
  /\ kind \in TextKinds
  /\ Chunk # <<>>
  /\ Last(Chunk) # Newline
  /\ Report
  /\ pos' = pos + Len(Chunk)
  /\ inLine' = TRUE
  /\ full_line' = full_line \o Chunk
  /\ UNCHANGED <<kind, file, stage, failed, values>>

\* Mutant of ReadEnd: a long line loses what earlier reads returned.
ReadEndOnly ==
  /\ stage = "open"
  /\ kind \in TextKinds
  /\ Chunk # <<>>
  /\ Last(Chunk) = Newline
  /\ Report
  /\ pos' = pos + Len(Chunk)
  /\ values' = Append(values, Front(Chunk))
  /\ inLine' = FALSE
  /\ full_line' = <<>>
  /\ UNCHANGED <<kind, file, stage, failed>>

\* A chunk that ends it: the newline becomes the terminator, next() returns.
ReadEnd ==
  /\ stage = "open"
  /\ kind \in TextKinds
  /\ Chunk # <<>>
  /\ Last(Chunk) = Newline
  /\ Report
  /\ pos' = pos + Len(Chunk)
  /\ values' = Append(values, Front(full_line \o Chunk))
  /\ inLine' = FALSE
  /\ full_line' = <<>>
  /\ UNCHANGED <<kind, file, stage, failed>>

\* Mutant of ReadUnterminated: the rest of the file is thrown away.
DropUnterminated ==
  /\ stage = "open"
  /\ kind \in TextKinds
  /\ Chunk = <<>>
  /\ inLine
  /\ inLine' = FALSE
  /\ full_line' = <<>>
  /\ UNCHANGED <<kind, file, stage, failed, pos, values, progress>>

\* The file ends within a line: next() returns full_line, which nobody has
\* terminated, so that whoever reads the string reads on until some NUL.
ReadUnterminated ==
  /\ stage = "open"
  /\ kind \in TextKinds
  /\ Chunk = <<>>
  /\ inLine
  /\ \E tail \in {<<>>, <<Garbage>>} : values' = Append(values, full_line \o tail)
  /\ inLine' = FALSE
  /\ full_line' = <<>>
  /\ UNCHANGED <<kind, file, stage, failed, pos, progress>>

\* A record of a Tokyo Cabinet file, for either iterator.
ReadRecord ==
  /\ stage = "open"
  /\ ~failed
  /\ pos < Len(file)
  /\ pos' = pos + 1
  /\ values' = Append(values, ValueOf(file[pos + 1]))
  /\ progress' \in Tick(progress, 1)
  /\ UNCHANGED <<kind, file, stage, failed, inLine, full_line>>

\* tchdbiternext3 returns key and value.
HashNext == kind = "hash" /\ ReadRecord

\* tcadbiternext2, then tcadbget2.
CabinetNext == kind = "cabinet" /\ ReadRecord

\* IteratorCompleteException: the end of the file, or an error.
EndOfFile ==
  /\ stage = "open"
  /\ IF kind \in TextKinds THEN Chunk = <<>> /\ ~inLine
     ELSE failed \/ pos = Len(file)
  /\ stage' = "complete"
  /\ progress' = Done(progress)
  /\ UNCHANGED <<kind, file, failed, pos, inLine, full_line, values>>

Terminated == stage \in {"complete", "refused"} /\ UNCHANGED vars

Next ==
  \/ LineInitialize \/ GzipInitialize \/ HashInitialize \/ CabinetInitialize
  \/ InitializeFails
  \/ ReadFails
  \/ ReadPart \/ ReadEnd \/ ReadUnterminated
  \/ HashNext \/ CabinetNext
  \/ EndOfFile
  \/ Terminated

Spec == Init /\ [][Next]_vars

\* next() is called until it throws.
FairSpec == Spec /\ WF_vars(Next)

------------------------------------------------------------------------------
\* The lines of a text, as a reader of the file would say: what lies between
\* the newlines, and what follows the last one.
NewlinesIn(s) == {i \in DOMAIN s : s[i] = Newline}

\* Where the lines stop, the last one perhaps at the end of the text.
StopsOf(s) ==
  NewlinesIn(s) \cup (IF s = <<>> \/ Last(s) = Newline THEN {} ELSE {Len(s) + 1})

Upto(stops, i) == {j \in stops : j <= i}

\* What the text holds between the newline before a stop and the stop.
LineTo(s, stop) ==
  SubSeq(s, Max({0} \cup {i \in NewlinesIn(s) : i < stop}) + 1, stop - 1)

LinesOf(s) ==
  LET stops  == StopsOf(s)
      Nth(n) == CHOOSE i \in stops : Cardinality(Upto(stops, i)) = n
  IN  [n \in 1..Cardinality(stops) |-> LineTo(s, Nth(n))]

\* The part of the file that was read.
Read == SubSeq(file, 1, pos)

\* However the lines fall on the buffer, and wherever reading fails, every line
\* that a newline ends comes out whole and in its place, and nothing else does
\* but a last line the file or the reading ends within.
TerminatedLinesExact ==
  kind \in TextKinds =>
    LET lines == LinesOf(Read)
        n     == Cardinality(NewlinesIn(Read))
    IN  /\ Len(values) <= Len(lines)
        /\ \A i \in DOMAIN values :
             \/ values[i] = lines[i]
             \/ i = n + 1 /\ IsPrefix(lines[i], values[i])
        /\ stage = "complete" => Len(values) = Len(lines)

\* The console counts every byte or record once, newlines and the parts of a
\* long line included: it never shows more than was read, and after a whole
\* file it shows all of it.  (A pipe has no length to divide by.)
ProgressExact ==
  LET pipe == kind = "line" /\ progress.size_ # Len(file)
  IN  stage \in {"open", "complete"} /\ ~pipe =>
        /\ progress.current_ = pos
        /\ IF progress.absolute_ THEN progress.shown <= pos
           ELSE stage = "open" => progress.shown * Len(file) <= 100 * pos
        /\ stage = "complete" /\ ~failed =>
             /\ pos = Len(file)
             /\ progress.shown = IF progress.absolute_ THEN pos ELSE 100

\* The iteration ends, with a record for every line or record of the file,
\* unless it cannot be opened or read.
ReadsAll ==
  <>(\/ stage = "refused"
     \/ stage = "complete" /\ failed
     \/ /\ stage = "complete"
        /\ Len(values) = IF kind \in TextKinds THEN Len(LinesOf(file)) ELSE Len(file))

\* What was handed out, and what the console shows, is what was read.
ReadingExact == TerminatedLinesExact /\ ProgressExact
=============================================================================
