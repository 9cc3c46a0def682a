\* The refused client was let in by its own check and sends a line.
SPECIFICATION SafeSpec
CONSTANTS
  c1 = c1
  c2 = c2
  c3 = c3
  l1 = l1
  l2 = l2
  ann = ann
  bob = bob
  junk = junk
  Loops = {l1, l2}
  Conns = {c1, c2}
  Names = {ann, bob, junk}
  LoopOf <- TwoLoops
  NameOf <- TwoAnns
  Junk = junk
  NoConn = NoConn
  NoName = NoName
  NoEntry = NoEntry
  MaxSaid = 1
INVARIANTS
  NamesTyped
