\* Two users log in on two loops at once.
SPECIFICATION SafeSpec
CONSTANTS
  c1 = c1
  c2 = c2
  c3 = c3
  l1 = l1
  l2 = l2
  ann = ann
  bob = bob
  junk = junk
  Loops = {l1, l2}
  Conns = {c1, c2, c3}
  Names = {ann, bob, junk}
  LoopOf <- TwoLoops
  NameOf <- TwoAnns
  Junk = junk
  NoConn = NoConn
  NoName = NoName
  NoEntry = NoEntry
  MaxSaid = 0
INVARIANTS
  ListsExact
