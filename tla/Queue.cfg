\* Three workers, room for two of four values, one spurious wakeup anywhere:
\* the Master has to wait for room and the workers for values.
SPECIFICATION FairSpec
CONSTANTS
  Master = master
  Workers = {w1, w2, w3}
  NoThread = none
  Length = 4
  Items <- Values
  Input <- Distinct
  Capacity = 2
  MaxSpurious = 1
INVARIANTS
  NoLostWakeup
PROPERTIES
  ImplementsChannel
  ImplementsFairChannel
