\* Two connections with the same name on two loops, two lines each.  The one
\* that is refused after its client was let in sends lines, too, the first of
\* which the server takes for a login.
SPECIFICATION Spec
CONSTANTS
  c1 = c1
  c2 = c2
  c3 = c3
  l1 = l1
  l2 = l2
  ann = ann
  bob = bob
  junk = junk
  Loops = {l1, l2}
  Conns = {c1, c2}
  Names = {ann, bob, junk}
  LoopOf <- TwoLoops
  NameOf <- TwoAnns
  Junk = junk
  NoConn = NoConn
  NoName = NoName
  NoEntry = NoEntry
  MaxSaid = 2
INVARIANTS
  TypeOK
  NamesLeadHome
  ExitForgets
PROPERTIES
  LinesInOrder
  EveryExitEnds
