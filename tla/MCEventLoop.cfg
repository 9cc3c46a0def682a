\* One foreign thread and the loop's own, two functors each, one channel.
SPECIFICATION Spec
CONSTANTS
  Owner = owner
  Callers = {a}
  Fds = {fd}
  MaxPosts = 2
INVARIANTS
  TypeOK
  NoLostWakeup
PROPERTIES
  RunsInOrder
  QuitEndsLoop
  KeepsPromise
