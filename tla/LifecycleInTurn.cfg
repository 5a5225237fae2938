\* Shells that follow one another.
SPECIFICATION Spec
CONSTANTS
  Shells = {s1, s2}
  NULL = NULL
  OneAtATime = TRUE
INVARIANTS
  TypeOK
  ReadAtCloseEnds
  FreesOwnOnce
  AtMostOneStray
PROPERTIES
  ShutdownReturns
  StoppedQuits
\* every shell opened and shut down
CHECK_DEADLOCK FALSE
