\* The server sends when it likes, or when the client has nothing left to do,
\* and closes or resets.
SPECIFICATION Spec
CONSTANTS
  Self = me
  Others = {ann, bob}
  Group = group
  Garbled = garbled
  Paces = {FALSE, TRUE}
  MaxMsgs = 4
INVARIANTS
  TypeOK
  RowsMatch
  ShownInOrder
  ListFollowsPaced
PROPERTIES
  ContentTaken
