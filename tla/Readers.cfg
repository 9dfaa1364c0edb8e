\* Every text of up to seven bytes, read three bytes at a time, so that lines are
\* shorter than the buffer, fill it exactly and need two or three reads; every
\* Tokyo Cabinet file of up to three records.  A map output with up to four
\* values for each of two keys, and two keys that were set.
SPECIFICATION MCSpec
CONSTANTS
  SampleRate = 2
  UndefinedPercentages = {0, 1000}
  Bytes = {x}
  Newline = nl
  Garbage = garbage
  Records = {v, w}
  NoValue = novalue
  MaxLength = 7
  MaxRecords = 3
  BufferSize = 4
  RunKeys <- PlainKeys
  SetKeys <- PlainSetKeys
  MaxCount = 3
  CountMod = 4
  Families <- MCFamilies
  Moc = {"moc"}
  FileLimit = 9
INVARIANTS
  ScanInv
  HeadersExact
  ReadingExact
  LoadRestoresCounts
PROPERTIES
  ScanAdvances
  ReadsAll
