\* Two tries of one session among other code's descriptors.
SPECIFICATION Spec
CONSTANTS
  MaxFd = 3
  MaxTries = 2
INVARIANTS
  TypeOK
  ConnectedIsReal
  CarefulTouchesOwn
  SocketLeftOnlyAtStartup
  NoHasItsError
  AskedForCause
PROPERTIES
  ConnectionSpec
\* an exception may end the program
CHECK_DEADLOCK FALSE
