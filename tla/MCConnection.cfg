\* Three messages of two bytes, from the loop's thread and from two others, to
\* a peer for which the kernel holds one byte.
SPECIFICATION Spec
CONSTANTS
  Callers = {a, b}
  MsgLen = 2
  Room = 1
  HighWater = 4
  MaxSends = 3
  MaxAsks = 2
INVARIANTS
  TypeOK
  StreamExact
  WritingIffPending
  RegistrationExact
PROPERTIES
  OutputFlows
  EndsForGood
