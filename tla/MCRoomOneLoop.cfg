\* Three connections on one loop, two of them with the same name; each
\* client sends one line.
SPECIFICATION SafeSpec
CONSTANTS
  c1 = c1
  c2 = c2
  c3 = c3
  l1 = l1
  l2 = l2
  ann = ann
  bob = bob
  junk = junk
  Loops = {l1}
  Conns = {c1, c2, c3}
  Names = {ann, bob, junk}
  LoopOf <- OneLoop
  NameOf <- TwoAnns
  Junk = junk
  NoConn = NoConn
  NoName = NoName
  NoEntry = NoEntry
  MaxSaid = 1
INVARIANTS
  MapsAgree
  ListsExact
  SameVerdict
  NoCrash
PROPERTIES
  KeepsRoster
