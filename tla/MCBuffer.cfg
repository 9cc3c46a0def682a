\* A buffer of 2 + 3 bytes through which 9 bytes go, at most 7 in one read.
SPECIFICATION Spec
CONSTANTS
  kCheapPrepend = 2
  kInitialSize = 3
  ExtraSize = 4
  MaxBytes = 9
INVARIANTS
  TypeOK
  ContentsExact
  StringExact
  OverrunBounded
CHECK_DEADLOCK FALSE
