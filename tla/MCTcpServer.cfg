\* Two connections on two io loops, two broadcasts or private
\* lines; one descriptor for both, or one for each.
SPECIFICATION Spec
CONSTANTS
  l1 = l1
  l2 = l2
  Base = base
  Pool <- TwoInPool
  Limits = {1, 2}
  MaxConns = 2
  MaxSends = 2
INVARIANTS
  TypeOK
  NoDangling
  DestroyedLast
PROPERTIES
  KeepsLife
  EveryEndIsFreed
  AcceptedInTheEnd
