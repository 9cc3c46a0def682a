\* Three threads, as the server has.
SPECIFICATION Spec
CONSTANT NumThreads = 3
INVARIANTS
  TypeOK
  LoopsReady
  NoneLeftBehind
PROPERTIES
  DestructorReturns
