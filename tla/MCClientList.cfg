\* Messages that come close together.
SPECIFICATION Spec
CONSTANTS
  Self = me
  Others = {ann, bob}
  Group = group
  Garbled = garbled
  Paces = {FALSE}
  MaxMsgs = 3
INVARIANTS
  ListFollows
